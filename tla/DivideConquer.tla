---------------------------- MODULE DivideConquer ----------------------------
(***************************************************************************)
(* divide_conquer of the native, the TBB and the OpenMP back end: a call   *)
(* divides its problem, hands subproblems to new threads as long as        *)
(* num_threads, shared by all the calls, is positive, solves the rest in   *)
(* its own thread, calls itself for the first subproblem, waits for the    *)
(* threads and combines.  What is a thread in the native back end is a     *)
(* task in the other two, which may run at once or later.                  *)
(*                                                                         *)
(* A problem is a tree of subproblems numbered from the root, 1, with      *)
(* children[n] the subproblems of n in the order of the divider; a problem *)
(* without any is elemental.  There is at most one call per subproblem, so *)
(* the locals of a call are indexed by it.  What a thread computes alone   *)
(* (the divider, the solver, a whole sequential divide_conquer) is part of *)
(* the step that stores the result; every access to num_threads is a step  *)
(* of its own.                                                             *)
(***************************************************************************)
EXTENDS Integers, Sequences

CONSTANTS Problems,  \* the problems to solve: see IsProblem
          Degrees,   \* the concurrency degrees to solve them with
          BackEnds   \* the back ends to run: "native", "tbb", "omp"

VARIABLES
  conf,         \* problem, concurrency degree and back end of this execution
  num_threads,  \* how many threads may still be created
  pc,           \* pc[n]: where the call for subproblem n is
  next,         \* next[n]: the index of the next subproblem to hand out
  division,     \* division[n]: the index of partials the next result goes to
  partials,     \* partials[n]: the results of the subproblems but the first
  result,       \* result[n]: what the call for n has returned
  taken         \* history: how often subproblem n has been given to be solved

vars == <<conf, num_threads, pc, next, division, partials, result, taken>>

-----------------------------------------------------------------------------
(* Problems and solutions. *)

\* The combiner is folded over the results of the subproblems in their order, so
\* a solution is told apart by the sequence of the results that went into it.
Combination(n, parts) == [of |-> n, parts |-> parts]

\* A value-initialised element of partials: the solution of no subproblem.
NoResult == Combination(0, <<>>)

\* p.solution[n] is what sequential_execution::divide_conquer returns for n.
IsProblem(p) ==
  LET Subproblems == DOMAIN p.children IN
  /\ 1 \in Subproblems
  /\ \A n \in Subproblems : p.children[n] \in Seq(Subproblems \ {1})
  /\ \A n, m \in Subproblems :
       \A j \in DOMAIN p.children[n], k \in DOMAIN p.children[m] :
         p.children[n][j] = p.children[m][k] => n = m /\ j = k
  /\ p.solution = [n \in Subproblems |->
       Combination(n, [j \in DOMAIN p.children[n] |->
                         p.solution[p.children[n][j]]])]

ASSUME ProblemsAssumption == \A p \in Problems : IsProblem(p)
ASSUME DegreesAssumption == Degrees \subseteq Nat

Nodes == DOMAIN conf.problem.children
children(n) == conf.problem.children[n]
solution(n) == conf.problem.solution[n]
Elemental(n) == children(n) = <<>>

\* Subproblem c is the k-th of n; it has a thread of its own.
IsChild(c, n, k) == k \in DOMAIN children(n) /\ children(n)[k] = c
Launched(n) == {children(n)[k] : k \in 2 .. division[n] + 1}

-----------------------------------------------------------------------------

Init ==
  \E p \in Problems, d \in Degrees, b \in BackEnds :
    LET N == DOMAIN p.children IN
    /\ conf = [problem |-> p, degree |-> d, back_end |-> b]
    /\ num_threads = d - 1
    /\ pc = [n \in N |-> IF n = 1 THEN "call" ELSE "none"]
    /\ next = [n \in N |-> 2]
    /\ division = [n \in N |-> 0]
    /\ partials = [n \in N |-> <<>>]
    /\ result = [n \in N |-> NoResult]
    /\ taken = [n \in N |-> IF n = 1 THEN 1 ELSE 0]

\* The call for n returns r.  In a thread of its own, r is stored in the element
\* of the caller's partials that was chosen when the thread was created.
Finish(n, r) ==
  /\ pc' = [pc EXCEPT ![n] = "done"]
  /\ result' = [result EXCEPT ![n] = r]
  /\ partials' = [m \in Nodes |->
       [k \in DOMAIN partials[m] |->
          IF IsChild(n, m, k + 1) THEN r ELSE partials[m][k]]]

\* No thread is left: the problem is solved sequentially.
CallSequential(n) ==
  /\ pc[n] = "call"
  /\ num_threads <= 0
  /\ Finish(n, solution(n))
  /\ UNCHANGED <<conf, num_threads, next, division, taken>>

\* The predicate holds, or the divider returns no subproblems: solve.
CallSolve(n) ==
  /\ pc[n] = "call"
  /\ num_threads > 0
  /\ Elemental(n)
  /\ Finish(n, Combination(n, <<>>))
  /\ UNCHANGED <<conf, num_threads, next, division, taken>>

\* Faulty variant: division counts from one, as the iterator over the subproblems.
CallDivideFromOne(n) ==
  /\ pc[n] = "call"
  /\ num_threads > 0
  /\ ~Elemental(n)
  /\ partials' = [partials EXCEPT ![n] = [k \in 1 .. Len(children(n)) - 1 |-> NoResult]]
  /\ division' = [division EXCEPT ![n] = 1]
  /\ pc' = [pc EXCEPT ![n] = "launch"]
  /\ UNCHANGED <<conf, num_threads, next, result, taken>>

\* The problem is divided.
CallDivide(n) ==
  /\ pc[n] = "call"
  /\ num_threads > 0
  /\ ~Elemental(n)
  /\ partials' = [partials EXCEPT ![n] = [k \in 1 .. Len(children(n)) - 1 |-> NoResult]]
  /\ pc' = [pc EXCEPT ![n] = "launch"]
  /\ UNCHANGED <<conf, num_threads, next, division, result, taken>>

Take(n, k) == taken' = [taken EXCEPT ![children(n)[k]] = @ + 1]

\* The loop finds num_threads positive and creates a thread.
Launch(n) ==
  /\ pc[n] = "launch"
  /\ next[n] <= Len(children(n)) /\ num_threads > 0
  /\ pc' = [pc EXCEPT ![n] = "decrement", ![children(n)[next[n]]] = "call"]
  /\ Take(n, next[n])
  /\ next' = [next EXCEPT ![n] = @ + 1]
  /\ division' = [division EXCEPT ![n] = @ + 1]
  /\ UNCHANGED <<conf, num_threads, partials, result>>

\* num_threads--, when the new thread may have read it already.
Decrement(n) ==
  /\ pc[n] = "decrement"
  /\ num_threads' = num_threads - 1
  /\ pc' = [pc EXCEPT ![n] = "launch"]
  /\ UNCHANGED <<conf, next, division, partials, result, taken>>

LaunchEnd(n) ==
  /\ pc[n] = "launch"
  /\ next[n] > Len(children(n)) \/ num_threads <= 0
  /\ pc' = [pc EXCEPT ![n] = "rest"]
  /\ UNCHANGED <<conf, num_threads, next, division, partials, result, taken>>

\* Faulty variant: the loop over the rest starts at the second subproblem again.
RestAgain(n) ==
  /\ pc[n] = "rest"
  /\ \E k \in {2, next[n]} :
       /\ k <= Len(children(n))
       /\ partials' = [partials EXCEPT ![n][k - 1] = solution(children(n)[k])]
       /\ Take(n, k)
       /\ next' = [next EXCEPT ![n] = k + 1]
  /\ UNCHANGED <<conf, num_threads, pc, division, result>>

\* A subproblem without a thread is solved sequentially.  Its result goes where
\* division points; division does not move on.
Rest(n) ==
  /\ pc[n] = "rest"
  /\ next[n] <= Len(children(n))
  /\ partials' = [partials EXCEPT ![n][division[n] + 1] = solution(children(n)[next[n]])]
  /\ Take(n, next[n])
  /\ next' = [next EXCEPT ![n] = @ + 1]
  /\ UNCHANGED <<conf, num_threads, pc, division, result>>

\* The first subproblem is solved by a call in the same thread; OpenMP looks
\* whether a thread is left before it makes the call, which looks again.
First(n) ==
  /\ pc[n] = "rest"
  /\ next[n] > Len(children(n))
  /\ conf.back_end = "omp" => num_threads > 0
  /\ pc' = [pc EXCEPT ![n] = "first", ![children(n)[1]] = "call"]
  /\ Take(n, 1)
  /\ UNCHANGED <<conf, num_threads, next, division, partials, result>>

\* OpenMP finds no thread left: the first subproblem is solved sequentially.
FirstSequential(n) ==
  LET c == children(n)[1] IN
  /\ pc[n] = "rest"
  /\ next[n] > Len(children(n))
  /\ conf.back_end = "omp" /\ num_threads <= 0
  /\ pc' = [pc EXCEPT ![n] = "first", ![c] = "done"]
  /\ result' = [result EXCEPT ![c] = solution(c)]
  /\ Take(n, 1)
  /\ UNCHANGED <<conf, num_threads, next, division, partials>>

\* Faulty variant: partials is read without waiting for the threads.
JoinNoWait(n) ==
  /\ pc[n] = "first"
  /\ pc[children(n)[1]] = "done"
  /\ Finish(n, Combination(n, <<result[children(n)[1]]>> \o partials[n]))
  /\ UNCHANGED <<conf, num_threads, next, division, taken>>

\* Faulty variant: waits for a thread of every subproblem.
JoinAll(n) ==
  /\ pc[n] = "first"
  /\ \A k \in DOMAIN children(n) : pc[children(n)[k]] = "done"
  /\ Finish(n, Combination(n, <<result[children(n)[1]]>> \o partials[n]))
  /\ UNCHANGED <<conf, num_threads, next, division, taken>>

\* That call has returned and the threads are joined: combine.
Join(n) ==
  /\ pc[n] = "first"
  /\ pc[children(n)[1]] = "done"
  /\ \A c \in Launched(n) : pc[c] = "done"
  /\ Finish(n, Combination(n, <<result[children(n)[1]]>> \o partials[n]))
  /\ UNCHANGED <<conf, num_threads, next, division, taken>>

Step(n) == \/ CallSequential(n) \/ CallSolve(n) \/ CallDivide(n)
           \/ Launch(n) \/ Decrement(n) \/ LaunchEnd(n)
           \/ Rest(n) \/ First(n) \/ FirstSequential(n) \/ Join(n)

\* The outermost call has returned.
Return == pc[1] = "done" /\ UNCHANGED vars

Next == (\E n \in Nodes : Step(n)) \/ Return

\* Threads that can run do run.
Spec == Init /\ [][Next]_vars /\ WF_vars(Next)

-----------------------------------------------------------------------------
(* The inductive invariant. *)

Pc == {"none", "call", "launch", "decrement", "rest", "first", "done"}

\* The call for n has divided its problem: partials has an element for every
\* subproblem but the first.
Divided(n) == DOMAIN partials[n] = 1 .. Len(children(n)) - 1

\* The indices stay within partials and the subproblems.
TypeOK ==
  /\ conf.problem \in Problems
  /\ num_threads \in Int
  /\ pc \in [Nodes -> Pc]
  /\ next \in [Nodes -> Nat] /\ division \in [Nodes -> Nat] /\ taken \in [Nodes -> Nat]
  /\ DOMAIN partials = Nodes /\ DOMAIN result = Nodes
  /\ \A n \in Nodes :
       /\ next[n] \in 2 .. Len(children(n)) + 2
       /\ division[n] \in 0 .. next[n] - 2

Untouched(n) == next[n] = 2 /\ division[n] = 0 /\ DOMAIN partials[n] = {}
HandedOut(n) == Divided(n) /\ ~Elemental(n) /\ next[n] = Len(children(n)) + 1

\* What a call has set up by the time it is at a place.
Phase(n) ==
  /\ pc[n] \in {"none", "call"} => Untouched(n)
  /\ pc[n] \in {"launch", "decrement", "rest"} =>
       Divided(n) /\ ~Elemental(n) /\ next[n] <= Len(children(n)) + 1
  /\ pc[n] \in {"launch", "decrement"} => division[n] = next[n] - 2
  /\ pc[n] = "first" => HandedOut(n)
  /\ pc[n] = "done" => Untouched(n) \/ HandedOut(n)

CallPhase == \A n \in Nodes : Phase(n)

\* Subproblem k of n has been given to be solved: the first when the call gets to
\* it, the others up to the iterator.
Given(n, k) ==
  LET c == children(n)[k] IN
  /\ k > 1 => taken[c] = IF k < next[n] THEN 1 ELSE 0
  /\ k = 1 =>
       /\ pc[n] \in {"none", "call", "launch", "decrement", "rest"} => taken[c] = 0
       /\ pc[n] = "first" => taken[c] = 1
       /\ pc[n] = "done" => taken[c] = 1 \/ (taken[c] = 0 /\ DOMAIN partials[n] = {})

IsSubproblem(c) == \E n \in Nodes : \E k \in DOMAIN children(n) : children(n)[k] = c

GivenOut == /\ taken[1] = 1
            /\ \A n \in Nodes : \A k \in DOMAIN children(n) : Given(n, k)
            /\ \A c \in Nodes \ {1} : ~IsSubproblem(c) => taken[c] = 0

\* Only a subproblem that has a thread, or the first, has a call of its own, and
\* none of these goes on when the call for n has returned.
Below(n, k) ==
  LET c == children(n)[k] IN
  /\ pc[c] # "none" => \/ k = 1 /\ pc[n] \in {"first", "done"}
                       \/ k > 1 /\ k <= division[n] + 1
  /\ pc[n] = "done" => pc[c] \in {"none", "done"}

CallsBelow == \A n \in Nodes : \A k \in DOMAIN children(n) : Below(n, k)

IInv == TypeOK /\ CallPhase /\ GivenOut /\ CallsBelow

-----------------------------------------------------------------------------
(* Properties. *)

\* Whatever threads are created and in whatever order they run, a call returns
\* what sequential_execution::divide_conquer returns for its problem.
SameAsSequential == \A n \in Nodes : pc[n] = "done" => result[n] = solution(n)

\* No subproblem is solved twice, and a call that divides has every subproblem
\* solved before it returns: the loop over the rest starts where the loop that
\* creates threads stopped, whenever that happens.
EachSubproblemOnce ==
  \A n \in Nodes :
    /\ taken[n] <= 1
    /\ (pc[n] = "done" /\ DOMAIN partials[n] # {}) =>
         \A k \in DOMAIN children(n) : taken[children(n)[k]] = 1

\* A thread does not outlive the call that created it, whose partials it writes:
\* when a call returns, so has every call below it.
NoOrphans ==
  \A n \in Nodes : pc[n] = "done" =>
    \A k \in DOMAIN children(n) : pc[children(n)[k]] \in {"none", "done"}

\* The outermost call returns.
Terminates == <>(pc[1] = "done")

=============================================================================
