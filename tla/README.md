# A TLA+ development for the GrPPI and dispel4py workflows

The repository holds GrPPI, a C++14 header library of parallel patterns
(`src/grppi_workflows/include/grppi`), two use cases written with it
(`src/grppi_workflows/use_cases`), and the dispel4py workflows those use cases
port (`src/dispel4py_workflows`). This directory holds TLA+ modules translated
from that code, TLC configurations that check them on small instances, and
proofs for TLAPS. `PROJECT.json` maps every definition to the lines it models.

## 1. Inventory

### The parts and how they interact

A program composes *patterns* (pipeline, farm, filter, stream reduction, stream
iteration, context; map, reduce, map/reduce, stencil; divide and conquer) and
passes them with an *execution policy*. The policy is a back end: sequential,
native threads, OpenMP, TBB, FastFlow, or `dynamic_execution`, which dispatches
to one of these. The user's operations are callbacks that the back end calls
from its threads.

| part | state | operations | interacts with |
|---|---|---|---|
| `atomic_mpmc_queue` (common/mpmc_queue.h) | ring of slots, four atomic counters | `push`, `pop`, `empty`; wait by spinning | shared by the threads of neighbouring stages |
| `locked_mpmc_queue` (same file) | ring, two counters, mutex, two condition variables | `push`, `pop`, `empty`; wait by sleeping | same |
| `mpmc_queue` (same file) | one of the two | forwards | every parallel back end but TBB and FastFlow |
| native pipelines (native/parallel_execution_native.h) | one thread per stage or replica, a queue per edge, ordering buffers, a counter per farm | `pipeline` and the `do_pipeline` overloads | queues, user callbacks, `worker_pool` |
| `reduce_t` (common/reduce_pattern.h) | buffered items, how many to go | `add_item`, `reduction_needed`, `reduce_window` | the stream reduction of every back end but FastFlow |
| native divide and conquer | an atomic thread budget shared by all calls, `partials` per call | `divide_conquer`, two overloads | `worker_pool`, the sequential back end |
| native data-parallel patterns | chunks of the input | `map`, `reduce`, `map_reduce`, `stencil` | `worker_pool` |
| thread registry | spin lock, vector of thread ids | register, deregister, look up | every native thread |
| OpenMP back end | tasks on a bounded team, the same queues | the same patterns | queues |
| TBB, FastFlow back ends | filters and nodes handed to the library | the same patterns | external schedulers |
| sequential back end | none between calls; `reduce_t` | the same patterns | the reference for all others |
| configuration | three environment variables | read at construction | degree, ordering and queue size of every policy |
| cross-correlation port (use_cases/tc_cross_correlation/main.cpp) | static variables of the generator | generator, compute, store, plot as a pipeline of farms | any back end, the file system |
| dispel4py cross-correlation | `Product` streams pairs; store and plot run in parallel | processing elements | the file system |
| dispel4py sentiment, internal extinction | top-three tables; none | processing elements | files, web services |

### What is hard, and what correct means

* **Queues.** Several producers and consumers race; slots are not synchronised by
  themselves; notifications come after the unlock. Correct: a bounded first-in
  first-out queue, no race on a slot, no lost wake-up, no call that waits for
  ever once its partner has come.
* **Pipelines.** Items overtake one another in farms; the end of the stream is an
  ordinary item that replicas hand around; the same empty item stands for a
  rejected value; queues are bounded and one stage writes to its own input.
  Correct: the values of the sequential execution, in its order when the policy
  is ordered, and `pipeline()` returns.
* **Divide and conquer.** The budget is tested and decremented in separate steps
  by concurrent calls; threads write into a vector of the call that made them.
  Correct: the sequential result, every subproblem solved once, no thread outlives
  its creator.
* **Data-parallel patterns.** The input is cut into chunks by index arithmetic, the
  caller processes one chunk itself, and combines results others have stored.
  Correct: each element processed once, the sequential result, for every length
  and degree.
* **Use case.** Arrays are loaded on demand into static variables and shared with
  later stages. Correct: item for item the stream of the workflow it ports.

The list `hazards` of `PROJECT.json` gives each hazard at its line, with the
properties that cover it or why none does yet.

## 2. Modules

| module | what it is | checked by |
|---|---|---|
| `BoundedQueue` | abstract specification: a bounded FIFO sequence, atomic push and pop | refinement target |
| `AtomicMpmcQueue` | `atomic_mpmc_queue`, one action per atomic access | `atomic_queue`, proofs |
| `AtomicMpmcQueue_proofs` | its theorems | TLAPS |
| `LockedMpmcQueue` | `locked_mpmc_queue` | `locked_queue`, proofs |
| `LockedMpmcQueue_proofs` | its theorems | TLAPS |
| `SequenceLemmas` | induction over the natural numbers, `FlattenSeq`, `FoldLeft` with concatenation, the slots of a ring | TLAPS |
| `ReducePattern` | `reduce_t` as pure operators | through the pipelines |
| `SeqPipeline` | what `sequential_execution::pipeline` delivers, a function of the stages | reference of the pipelines |
| `StreamDelivery` | abstract specification: deliver each expected value once, in order if asked, then end | refinement target |
| `PipelineThreads` | which threads (or tasks) the `do_pipeline` overloads create for a pipeline and which queues join them; what a pipeline is (`IsPipeline`) | through `NativePipeline` and `OmpPipeline`, proofs |
| `NativePipeline` | `parallel_execution_native::pipeline`: the loops of those threads | `native_pipeline` and two counterexample runs, proofs |
| `EndMarkers` | the inductive invariant of `NativePipeline`: how the end of the stream travels | `native_pipeline`, `omp_pipeline`, proofs |
| `StreamAccount` | the second inductive invariant: where each element of the stream is, and what an ordering loop waits for; which pipelines it is about (`Regular`, `Straight`) | `native_pipeline`, proofs |
| `NativePipeline_proofs` | that the threads of every pipeline are linked rightly, the theorems on the end markers, and that regular pipelines are straight | TLAPS |
| `OmpPipeline` | `parallel_execution_omp::pipeline`: the same loops as tasks on a bounded team, and the filter of its own | `omp_pipeline`, `omp_filter_behind_farm`, proofs |
| `StreamAccount_proofs` | the account of the elements, that both pipelines deliver what the sequential execution does, and the end markers of `OmpPipeline` | TLAPS |
| `DivideConquer` | `divide_conquer` of the native, OpenMP and TBB back ends | `divide_conquer`, `divide_four_ways`, proofs |
| `DivideConquer_proofs` | its theorems | TLAPS |
| `DataParallel` | `map`, `reduce`, `map_reduce`, `stencil` of the back ends that cut the input themselves | `data_parallel`, proofs |
| `DataParallel_proofs` | its theorems | TLAPS |
| `XcorrProduct` | what the dispel4py element `Product` writes | reference of the next |
| `CrossElements` | `get_cross_elements` of the GrPPI port | `cross_elements`, `cross_elements_sparse`, proofs |
| `CrossElements_proofs` | its theorems | TLAPS |
| `MC*` | instances for TLC | |

The modules compose downwards: `NativePipeline` uses queues with the atomic push
and pop of `BoundedQueue`, which both queue modules are shown to implement; it
`EXTENDS PipelineThreads` and with it `SeqPipeline`, whose output is the `expected` of
`StreamDelivery`. `OmpPipeline EXTENDS EndMarkers`, and with it `NativePipeline`: the loops
of its tasks are those of the threads (`TransformerTask`, `FarmTaskEnd`, ...), and what is proved of these holds there.
`CrossElements EXTENDS XcorrProduct`, its reference.

### How state and actions correspond to the code

**AtomicMpmcQueue.** `pread`, `pwrite`, `internal_pread`, `internal_pwrite` are
the four counters, `buffer` the slots, `current[t]` and `item[t]` the locals.
`PushStart` loads the internal counter, `PushTicket`/`PushRetry` are the
compare-and-swap that succeeds or fails (weak: it may fail spuriously),
`PushWait` the spin on the public counter when it finds room, `PushWrite` the
assignment to the slot, `PushPublish` the second compare-and-swap, which succeeds
only in ticket order. `pop` has the same steps. The two overloads of `push` differ
in copy and move only. Items are pairs of thread and sequence number. The
atomics are sequentially consistent, as the code's default memory order is. A
slot that has been moved from is `Nothing`: its value is never read by the code,
and the type invariant of what pops return would show it if it were.

**LockedMpmcQueue.** A call waits for the mutex (`..._lock`), holds it
(`..._check`), sleeps on its condition variable (`..._sleep`), or has released it
and is about to notify (`..._notify`). The wrapper `mpmc_queue` constructs the
lock-free queue for *both* of its modes (common/mpmc_queue.h:446 and 449), although
its documentation describes the mode `blocking` as mutex based, so this class is
reachable only when it is instantiated directly.

**PipelineThreads.** A pipeline is a sequence of stages; a farm or a context holds
one in turn. Threads and queues are named by the path to their pattern: stage *k*
reads queue `<<k>>`, replica *w* of a farm there is thread `<<k, w>>`, the ordered filter
there is `<<k, 1>>` with its ordering thread `<<k, 2>>` behind queue `<<k, 0>>`. A `Role` is
what the `do_pipeline` overload gives a thread: what it does, the queue it pops from, the
one it pushes to, and the threads it creates and joins (`helpers`). A replica or a
context is a *host*: it creates threads for the stages it holds but the last, which it
runs itself if that is a plain one, and otherwise only waits, because `do_pipeline` called
with two queues does nothing (native/parallel_execution_native.h:1440).
`do_pipeline_nested` flattens a pipeline within a pipeline, so there are none here.

**NativePipeline.** An item is the pair of optional value and
order of the code; its value is the sequence of generated elements it derives
from, so that a reduction is told apart by what went into it. What a thread does between two
queue operations touches only its own variables and is one step with the pop
before it; each push and each call of the user's consumer is then a step of its
own (`out`). A host that has left its loop is at `join` until its helpers are done; then
a context ends the output (`ContextEnd`), also if what it holds has ended it already, and a
replica counts itself out (`FarmCount`) and, in a second step, reads the counter again and
ends the output or puts the marker back (`FarmEnd`). An iteration behind the end marker
tests `empty()` (`IterateTest`) and pops (`IterateAgain`) in two steps. A sequential context
runs all that it holds in its own loop. A reduction object is the user's and outlives a
pipeline: `before` is how many values an earlier pipeline has given it. The predicate of a
filter and the number of rounds of an iteration are chosen in `Init`, arbitrarily per element.

**OmpPipeline.** `started` is the set of tasks that have begun. `Begin(t)` needs a thread of
the team that is not busy; a task keeps its thread to its end, in pushes and pops too.
The thread that calls `pipeline` runs the consumer, if the pipeline ends with one, and
executes tasks only when that is over and it waits in `taskwait`. A host creates its
helpers when it has begun, and while it waits for them its thread takes one of them at a time
(`BeginInside`). OpenMP leaves open in which order tasks begin: `team.in_order` chooses
between any order and that of their creation, the order of GCC's run time for tasks that are
created by one thread. The run time is taken to defer the tasks of a pipeline (if it ran them
at once, in the thread that creates them, the generator would fill its queue and wait for
ever). Two loops differ from the native ones: the ordering task of the filter pops once
more in each turn after the end marker (`DrainFilter`), and the unordered filter hands on
nothing for a rejected value (`FilterUnordered`).

**DivideConquer.** A problem is a tree; a solution is the tree of results that were
combined. `num_threads` is read and decremented in separate steps. Both
overloads of the three back ends are the same state machine; a subproblem with a single child
exists only in the overload with a predicate. What is a thread in the native back end is a
task in the others, which may run at once or late: all interleavings are there. OpenMP
looks at `num_threads` once more before it calls itself for the first subproblem
(`FirstSequential`).

**DataParallel.** One module for nine functions: all native ones, `reduce`,
`map_reduce` and `stencil` of OpenMP, `map_reduce` and `stencil` of TBB. They compute
the same chunks and differ in who runs them: a thread of the worker pool, a task of
the team, a task of the group. `Launch` hands out chunk `launched`, `OwnChunk` turns
to the last, `Element(i)` is one turn of the loop of `process_chunk`, `ChunkEnd(i)` its end with
the store to `partial_results[i]`, `Return` the join and the combination. A task may run
at once or late: all interleavings are there. Elements are told apart by their position
and combining is concatenation, so a result that is equal here is equal for every
associative operation with a neutral identity, and no commutativity is used. (`reduce`
applies the identity once per chunk: it has to be neutral, as the documentation asks.)
The OpenMP `map`, the TBB `map` and `reduce` hand the range of indices to the library and
are not in the module.

**CrossElements.** The static variables of the generator, and one action per way
through it. An array is the file it was loaded from. The order in which the port
iterates over a directory is taken to be the order in which the workflow lists it (both
are left open by their libraries), and the hours are given: the conversion between local
and universal time is not modelled.

## 3. Runs

| run | bounds | what it shows |
|---|---|---|
| `atomic_queue` | 3 threads, 2 slots, 2 pushes and 1 pop each | the inductive invariant `IInv`, `SlotExclusive`, refinement of `BoundedQueue`, `MatchedCallsReturn` |
| `locked_queue` | same | the inductive invariant `IInv`, `NoLostWakeup`, refinement of `BoundedQueue`, `BlockedCallsResume` |
| `native_pipeline` | 29 pipelines of up to 4 stages, 10 of them with nested patterns, up to 3 replicas, up to 5 elements, queues of 1, 2 or 4, at most 2 rounds of an iteration, reductions with new and with used objects, filters one behind the other, in front of farms and behind a context | delivers the sequential stream and returns; the inductive invariant `IInv` of the end markers; the end marker is last and unique, and who takes it leaves nothing behind; `Accounted`: in straight pipelines every element is in one place, with the number that belongs there; ordering loops never spin |
| `omp_pipeline` | 22 pipelines with teams of 1 to 7 threads, up to 4 elements, queues of 1 to 5 | delivers only what the sequential execution does, whatever the team; one end marker per edge; the inductive invariant `OmpIInv`; returns if every task has a thread, or if tasks begin in order and each queue holds the stream |
| `divide_conquer` | 7 problems of up to 11 subproblems, degrees 0 to 5, three back ends | the inductive invariant `IInv`, the sequential result, each subproblem once, no orphan thread, termination |
| `data_parallel` | 9 functions, lengths 0 to 7, degrees 1 to 4 | each element once, the sequential result, the call returns |
| `cross_elements` | up to 3 hours, up to 4 files each, once or twice | the inductive invariant `IInv`; the stream of `Product`, item for item |

**Why the bounds are enough to mean something.** Six pushes go through a ring of
two slots, so the ring wraps three times with calls waiting on both sides; three
threads allow two to compete while a third holds a ticket or the mutex. In
the pipelines a queue of one makes every push wait; three elements and two
replicas suffice for overtaking, and one element behind an overtaken one; windows
are equal to, smaller than and larger than their offset; lengths include 0. Degrees in
`divide_conquer` range from no thread to more than can be used. In `data_parallel` the
input is empty, shorter than the degree, a multiple of it, or leaves every possible
remainder. In `omp_pipeline` teams are as large as the number of tasks, one
smaller, and as small as one thread, and some of its pipelines do hang. Four files give six
pairs, the first size at which a pair uses two files neither of which is the
first or the newest. `MaxPushes`, `MaxPops` and `MaxRounds` are bounds of the models and
not of the code.

**Counterexample runs** (each is a finding in `PROJECT.json`):

* `native_unordered_filter`: in an unordered execution the first rejected value
  ends the stream, because without the ordering thread the next stage takes the
  empty item for the end marker.
* `native_iteration_full`: the iteration is the only reader of its bounded input
  queue and pushes to it. With a full queue `pipeline()` never returns. The
  default queue has 100 slots, so it takes a backlog of that size. The passing
  run has iterations whose queue always has room.
* `omp_filter_behind_farm`: an ordered filter behind a farm, with a thread for every task.
  When values are left to reorder at the end of the stream, the ordering task hands one on
  and waits for an item nobody pushes. `OmpTerminates` of the passing run leaves these
  pipelines out (`NoneOvertaken`); `DeliversStream` holds of them.
* `divide_four_ways`: results of several subproblems left without a thread
  are all stored in the same element of `partials`. The passing run has no call
  that can be left with two. With three-way splits the same happens when a racing
  decrement of the shared budget takes the last thread from a call that has begun to
  divide; the instances of the passing run do not reach this.
* `cross_elements_sparse`: an hour with fewer than two files takes the branch
  that prints "this should never happen" and ends the stream. `PrefixOfProduct`
  still holds, and `EndsComplete` is about streams that end regularly.

**Shapes that fail and are in no run.** `FailingNests` of `MCNativePipeline` lists
pipelines for which `DrainFindsNext` and `Terminates`, and for the first two
`DeliversStream`, are violated:

* a farm of filters or of iterations with two replicas: each replica's pattern ends the
  shared output by itself, so the first to finish cuts the other off; the replicas of
  iterations can also both find the queue not empty and then wait for one item;
* in an ordered execution, a sequential context around a filter: nothing is handed on for
  a rejected item, so its order is missing, and the consumer spins for ever.

A filter of an unordered execution that is the last pattern in a context or a farm loses
every value: it writes to a queue of its own that nothing reads (`Places`).

**Fairness.** `atomic_queue`: each thread that is inside a call keeps taking
steps (weak fairness of its steps); nobody has to start a call. The spins are
modelled by their exit, so a thread that spins is not a counterexample by itself. `locked_queue`:
weak fairness for what a running thread does, strong fairness for taking the
mutex: a thread that sleeps may be woken spuriously again and again, which makes
the mutex unavailable again and again, and no real mutex starves a thread
because of that. Pipelines (of threads and of tasks: the run time does not leave its team
idle while a task can begin), divide and conquer and the data-parallel patterns: weak fairness of
`Next` only, that is, some thread that can move moves; every execution of the models
is finite, so nothing stronger is needed. Deadlock is checked in these runs and in
`cross_elements`; it is switched off for the queues, where a pop on an empty
queue waits legitimately, for `omp_pipeline`, whose small teams do hang, and in the
counterexample runs.

**Mutants.** For every property of every passing run `PROJECT.json` names a
faulty variant of one action, the kind of bug one would make there; each
variant stands before its action in the module, and TLC finds the
property violated with it.

## 4. Proofs

`AtomicMpmcQueue_proofs` proves, for any finite or infinite set of threads, any
ring of at least one slot and any number of calls (assumptions
`SizeAssumption` and `BoundsAssumption`):

* `TypeCorrect`: the type invariant.
* `Invariance`: `IInv`, inductive. It is `TypeOK` with
  - `CounterOrder`: each public counter is behind its internal one, the pops are
    behind the pushes, and the pushes at most the size of the ring ahead;
  - `TicketRange`: a call between its ticket and its publication holds a ticket
    between the public and the internal counter, and one past its wait is
    allowed to be there;
  - `TicketUnique`: no two calls of a kind hold the same ticket;
  - `SlotContents`: what a published push wrote is in its slot until the pop with
    that ticket takes it, and then with that pop.
* `SlotsNeverShared`: no two calls access one slot at a time. The argument: two
  tickets of one kind in their access window differ by less than the size, so
  their slots differ; a push past its wait and a pop past its own hold tickets
  that cannot meet modulo the size either.
* `Refinement`: every behaviour is one of `BoundedQueue`, with
  `PushPublish` as push and `PopPublish` as pop and all other steps stuttering. It
  needs `SlotContents`, to know that the item a pop publishes is the head of
  the abstract queue.

The invariant is needed because `SlotExclusive` alone is not inductive: it says
nothing of the tickets of calls that still wait.

`LockedMpmcQueue_proofs` proves the same of the mutex queue, for any finite set of threads
(`ThreadsAssumption`: the argument counts threads):

* `Invariance`: `IInv`, inductive: `TypeOK`, `MutexHeld` (a thread between lock and unlock
  holds the mutex), `CounterOrder`, `SlotContents` (a slot between the indices holds an item)
  and `NoLostWakeup`.
* `WakeupsKept`: `NoLostWakeup`. It counts instead of naming a waker: while a pop sleeps,
  the items are no more than the pushes about to notify and the pops on their way to the
  mutex. In this form it is inductive with the rest: a notification takes a thread from one
  of these sets and puts another in, and a pop that goes to sleep has seen no item. The lemmas
  on what a step does to the cardinalities are `AtFinite` and `Counting`.
* `Refinement`: `PushPut` is push, `PopTake` is pop, and the abstract queue is `Contents`, the
  slots between the indices in order. The positions of a ring are lemmas of `SequenceLemmas`.

`DivideConquer_proofs` proves, for any problems that are trees (`ProblemsAssumption`), any
degrees and all three back ends:

* `Invariance`: `IInv`, inductive: `TypeOK`, which keeps the indices within the subproblems and
  `partials`; `CallPhase`, what a call has set up by the time it is at a place; `GivenOut`,
  which ties how often a subproblem has been given out to the iterator of its parent; and
  `CallsBelow`, which says which subproblems can have a call at all, and that none goes on
  when its parent has returned.
* `SolvedOnce` and `NoneOutlives`: `EachSubproblemOnce` and `NoOrphans`, which need `GivenOut`
  and `CallsBelow`. Nothing is assumed of `num_threads`, which can be decremented below zero.
* `BinaryRight`: `SameAsSequential` for problems divided in at most two, where a call has at most
  one subproblem left over. It is false in general (`divide_four_ways`).

`DataParallel_proofs` proves, for any set of the functions, of lengths and of positive degrees
(`CallsAssumption`, `SizesAssumption`, `DegreesAssumption`):

* `TypeCorrect`: the type invariant, whose bounds say that no loop leaves its chunk and
  no chunk leaves the input, so that no displacement exceeds the length.
* `Invariance`: `IInv`, inductive: the type invariant, `HandledOnce` (an element has been
  processed once if it lies in the processed part of some chunk, and else not),
  `WrittenWhenProcessed` and `ChunksFinished`. The step that matters is that the element a loop
  comes to lies in no processed part yet, its own or another chunk's: lemma `ElementProcessed`,
  from `ChunksDisjoint`.
* `ElementsOnce`: no element is processed twice and none is left when the call returns:
  `ChunksCover`, by cases whether a position lies before the last chunk, where its chunk is its
  quotient by the chunk size, or in it.
* `OutputComplete`: `map` and `stencil` leave the sequential output.
* `SequentialResult`: `SameAsSequential`. Of `reduce` and `map_reduce` the invariant says what
  each partial result holds (`ResultsCombined`); the returned value is their fold in the order
  of the chunks, and the chunks in that order are the input.

`EachElementOnce` alone is not inductive: it does not say which elements a running loop has
still to come to.

`CrossElements_proofs` proves, for any lists of hours, any repetitions and any numbers of files
(`CountsAssumption`):

* `Invariance`: `IInv`, inductive: the type invariant; what the static variables hold in the
  middle of an hour (`list_cross` is the list of that hour's pairs, `list_init` holds an array for
  each file of a pair already returned); and what has been returned: the output of the hours
  before, concatenated, and the first `count` pairs of this one.
* `TypeCorrect`, `Prefix`, `Complete`: the type invariant, `PrefixOfProduct` and
  `EndsComplete`, from it. `PrefixOfProduct` is not inductive by itself: it does not say which array the
  next pair will be given.

### The pipelines

What is proved first of `NativePipeline` is how the end of the stream travels, for **every** pipeline
(any number of stages, farms of any size, contexts, the nesting `IsPipeline` allows), any stream
length and any size of the queues (`PipelinesAssumption`). It comes in two parts, both in `NativePipeline_proofs`.

The first is about `Roles`, the function from a pipeline to its threads. `Linked`
says what the loops rely on: ids are unique; two threads feed the same queue only if they are
replicas of one farm or a host feeds it too; the queue between a filter and its ordering thread is
theirs alone; a farm has as many replicas as it was given, each with a crew of its own of which
exactly one thread pops from the queue of the farm. `PipelineLinked` proves it of every pipeline.
The argument is about *regions*: the threads of a pattern at path `P` are all at paths within `P`
and use, besides queues within `P`, only the queue `I` before the pattern and the queue `O` behind it
(`Region`). A sequence of regions is one (`Serial`), a host over one is one (`Hosted`), the replicas of a
farm are one (`Farm`), and the pipeline is a sequence of them behind the generator.

The second proves:

* `Invariance`: `IInv` of `EndMarkers`, inductive. Its parts: `Wired`, the connections above in the words
  of the state; `Typed`; `InPlace`, which threads come to which places of their loop, and that a
  host that has joined its threads finds them finished; `Outgoing`, what a thread still has to
  push, and that an end marker is the last of it; `Orders`; `Counted`, `done_threads` of a farm is the
  number of replicas that have left; and for each edge `OneMarker` and `ValuesBefore`. `OneMarker` names
  every place an end marker can be: in the queue, about to be pushed (`Pending`), with a replica
  that will put it back (`Holding`), or with the reader for good (`Kept`). There is one at most in all,
  and none before every writer of the queue has left its loop. `NothingLeft`, see below, is the last part.
* `OneMarkerOfAFarm`: `OneEndMarker`. The step that needs `Counted` is `FarmEnd`: a replica that reads
  the counter as the number of replicas is the last, because a replica that has counted itself out
  holds the one marker of the farm's queue until it has put it back (`ReplicaHolds`, `LastReplica`). So the
  increment and the second read of `done_threads`, two steps apart, still agree on one replica.
* `NoEndIsLeft`: `NoEndLeft`, the iteration that dereferences what it pops.
* `EndBehindValues`: `EndIsLastOn(q)` for every edge `q` that is ended once; if all are, `EndIsLast`.
* `NothingIsLeft`: `NothingLeft`. When a reader has left, its queue has run dry (`RunDry`): no value in it, none on
  the way, and no thread that could send one. It is part of `IInv`, because it is about the past: the marker is
  gone by then. A thread other than an iteration takes a marker that is behind all values (`LeavesDry`). An iteration
  puts its own values behind the marker, so `ValuesBefore` says nothing of its queue; but it stops when the queue is
  empty, and as the one that holds the marker it knows that those who feed the queue are done (`FinishesDry`). With
  a farm of iterations it is not so, and `NothingLeft` leaves them out.

`StreamAccount_proofs` proves the same of the OpenMP tasks, for every team too (`TeamsAssumption`):

* `OmpInvariance`: `OmpIInv`, inductive. A task step is a step of `NativePipeline`, of which
  `NativePipeline_proofs` says what it does to the markers, or one of the two in which the filter differs; that a task
  has not begun only means that it does not step. The unordered filter fits the lemmas as it is. The ordering task
  does not: behind the end marker it pops again, and an empty item that it got from that pop would be a second marker
  taken from the edge. `FilterEnds` excludes it: the filter pushes its marker last and is done then, and
  the marker is the last item of the queue; so the queue of an ordering task that has left its loop is empty.
* `OneMarkerOfTasks`: `OneEndMarker`, however few threads the team has and however late a task begins.
* `NoEndIsLeftToTasks` and `NothingIsLeftToTasks`: `NoEndLeft` and `NothingLeft`.
* `NothingBehindTheEnd`: the queue of an ordering task that has left its loop is empty, for good. So whenever it
  has kept a value till then, the pop behind that value never returns: what `omp_filter_behind_farm` shows on one
  pipeline is no matter of its size.

`EndedOnce(q)` leaves out the edges behind a thread that ends its output more than once: a
host that only waits (the pattern it holds ends the output too), a sequential context, and a
filter of an unordered execution. There two markers can travel one behind the other, as the code
makes them; an iteration behind such a context would dereference the second. `EndIsLast` on
those edges stays with TLC. `IsPipeline` describes the pipelines that are modelled: a farm holds simple patterns,
a context may hold farms, and the consumer or the farm of consumers is the last stage and only there.

### The elements of the stream

What a pipeline delivers is proved of the *regular* pipelines, with any number of stages, farms of any size, any stream
length and any size of the queues, of both back ends. `Regular` says which: stages, iterations, farms of stages or of rows of stages,
contexts of these that end in a stage, filters of an ordered execution, and a consumer or a farm of consumers. There an item stands for
one generated element and all items take the same way. The argument has three parts. TLC checks its
invariants as `Accounted`: `Account` and `Passed` of every straight pipeline.

*The way* (`NativePipeline_proofs`). `Straight` says in the words of the state what the steps rely on: every queue leads to
the thread, or the replicas, that call the user (`Leads`); each ordering thread of a filter divides the threads into those in front of it
and those behind, and nobody goes past it (`Filters`); the sequential execution consumes the elements that the filters keep,
in order, each once (`Enumerates`). `RegularStartStraight` proves it of every regular pipeline, pattern by pattern:
`Plain` is what one pattern adds, `Chain` what a sequence of them is. The reference, a fold over the stages, is followed
stage by stage (`StageFolds`): a filter sifts, everything else keeps the sequence.

*The account* (`StreamAccount_proofs`). `Account` is inductive together with `IInv`:

* `Numbered`: what is in a queue, in a thread's hands or kept by an ordering loop stands for a generated element and has the order that
  belongs there: the position in the stream, and behind a filter the number of kept elements before it (`Rank`). A rejected element
  is on the way only between the filter and its ordering thread, as an empty item.
* `Once`: no element is twice in one of these places, or in two, the user's included.
* `Somewhere`: each generated element that the filters keep is in one.
* `Released`: an ordering loop has given out the orders below its current one, which is why the order it gives next is the
  `Rank` of the element it comes to.
* `Ends`: the generator stops at the end of the stream.

Each part alone fails to be inductive: that no order comes twice needs that no element does, and that the consumer calls the user
in order needs both. Most steps are of one of four kinds, each proved once for an arbitrary thread: a thread moves elements between
places of its own, pushes one into a queue, calls the user with one, or releases some of what it keeps.

* `RegularAccount`, `RegularTasksAccount`: `Account` holds. (`StreamAccounted` and `TasksAccounted` say so, and `Passed`, of
  every straight pipeline; whether a pipeline is straight does not change while it runs.) A step of a task is a step of a thread or one of the two of the filter in which
  the back ends differ.
* `RegularDelivers`, `RegularTasksDeliver`: `DeliversStream`, the refinement of `StreamDelivery`: a call of the user is `Deliver`, all
  else stutters, but for the last step. For that one a value must not be left when all threads that call the user are done.
  The end markers say so: the queue of a thread that has left its loop is dry, and a dry queue whose
  writers have left has dry queues in front of it (`DryUpstream`); so the set of dry queues is closed under `Upstream`, `Leads` makes
  it all of them, and with `Somewhere` everything has been consumed. For tasks it holds whatever the team: a pipeline that a
  small team cannot finish has delivered a part, and nothing else.

*The ordering loops*. `Passed`: the elements in front of an ordering loop or kept by it (`Expected`) are those with orders not below its
current one. It is inductive with the above: the loop moves elements past itself only when it releases them, and nobody else does.

* `RegularPasses`: `Passed`.
* `RegularFindsNext`, `RegularTasksFindNext`: `DrainFindsNext`. Behind the end marker everything in front of the loop is dry, so what it expects
  is what it keeps; if it keeps anything there is an order at or above its current one, hence one that is its current
  one, since the orders have no gaps (`NextExpected`). The loop that empties the kept elements never spins.

*The bounds* (`StreamAccount_proofs`, last part). `Bounded` and the account together give the type invariants:

* `RegularTyped`: `TypeOK` of `NativePipeline`. A queue is no longer than its size, because a push waits for room and a thread pushes
  one item at a time (`PushKeepsBounds`). That orders stay within the stream, and the current order of a loop too, comes from `Account`:
  an order is the position of an element or its `Rank`. An iteration puts a value back with fewer rounds behind it than
  it needs (`Fits`, `IteratedFits`), which only holds for values that stand for an element of the stream: so the bound on the rounds, too,
  needs the account. `Counted` bounds the counters of farms. The one assumption besides those above is that `MaxRounds` is
  a number (`MaxRoundsAssumption`).
* `TeamIsEnough`: `TeamHolds`, of **every** pipeline, regular or not, and every team: the tasks that hold a thread are never more than the team has
  threads, when those begun on the thread of a waiting task are counted with that task, and a task that has not begun is at the start of its
  loop with nothing to hand on. A step of a task ends a task or leaves the busy ones as they are; `Begin` adds one
  behind its guard; and the team has room for the consumer at the start because there is one at most (`OneConsumeRole`).
  It needs that a pipeline has finitely many tasks (`RolesFinite`), which goes through the patterns as `Roles` does.
* `RegularTasksTyped`: `OmpTypeOK`, from `TeamHolds` and the bounds above; the steps of the filter that
  differ keep those because its queue is empty behind the end marker (`FilterEnds`).

`RegularStart` is about the pipeline that runs and not about all of `Pipelines`: the theorems hold of the regular executions
of any instance.

**Induction.** The library's induction theorems take an operator as a parameter and cannot be used here.
`SetInduction` states induction for a *set* of numbers instead, from the theorem that `<` is well founded,
and with it `SequenceLemmas` proves what `FlattenSeq` and `FoldLeft` return for sequences of every
length: that the functions they define exist, are unique, and concatenate.

### Only model-checked

* Liveness: fairness and `ENABLED` are out of the prover's reach.
* `DeliversStream` and `DrainFindsNext` of pipelines that are not regular: with reductions an item stands for several
  elements, and with sequential contexts, and hosts that only wait, a way has end markers of its own. Filters of an
  unordered execution, and the nests of `FailingNests`, are where the two fail.
* `TypeOK` and `OmpTypeOK` of pipelines that are not regular, except what `TeamHolds` says of the team: their bounds on orders
  and rounds rest on the account, which these pipelines do not keep.
* Divide and conquer with more than two subproblems in a call.

## 5. Not modelled, and why

* Signal processing, file formats, text scoring, web requests: data, without
  state of their own.
* The TBB and FastFlow run times: external code.
* Pattern front ends, traits and `dynamic_execution`: compile-time or
  stateless dispatch.
* Exceptions thrown by user operations: the code has no handler, the program ends.
* A reduction object shared by the replicas of a farm: its buffer is written without
  synchronisation, a data race.
* The TBB pipeline and the OpenMP and TBB loops over an index range: the library decides
  what runs; the code hands it functions without state of their own.
* The generated documentation under `src/grppi_workflows/docs`: Doxygen output, with the
  scripts (`search.js`, `dynsections.js`, jQuery) that it brings; they are not part of the program.
* Memory orders: all atomics use the default, sequentially consistent order.

## 6. Plan

Done, in this order: the queues and their abstract specification; the proof of the
lock-free queue; the native pipelines; divide and conquer; the use case's generator;
the data-parallel patterns and the proof that their chunks partition the input; the OpenMP
pipelines; the proof of the mutex queue; divide and conquer of OpenMP and TBB, and its
proof; nested patterns, in both pipeline modules; the proofs of the generator, of the results of the
data-parallel patterns, of the threads of a pipeline and of the end markers of the native and the OpenMP pipelines; the account of the
elements of both, and with it that regular pipelines deliver what the sequential execution does; their bounds and the team of the tasks.

Next, in this order:

1. The account of pipelines with reductions, where an item stands for a window of elements.
2. `ThreadRegistry`: the spin-locked table of thread ids, with the registration of a thread
   that is registered already.
3. `StreamReduce`: the FastFlow emitter against `ReducePattern` for all windows
   and offsets.
4. The dispel4py graph with store and plot in parallel; the stateful elements of the
   sentiment workflow.
5. Partial results of type `bool`, which share a word, in `DataParallel`.
