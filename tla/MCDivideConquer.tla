--------------------------- MODULE MCDivideConquer ---------------------------
(***************************************************************************)
(* Instances of DivideConquer for TLC.                                     *)
(***************************************************************************)
EXTENDS DivideConquer

\* The solution of each subproblem; subproblems are numbered after their parent.
SolutionOf(ch) ==
  LET solve[n \in DOMAIN ch] ==
        Combination(n, [j \in DOMAIN ch[n] |-> solve[ch[n][j]]])
  IN solve

Problem(ch) == [children |-> ch, solution |-> SolutionOf(ch)]

\* An elemental problem; a problem with one subproblem; halves of halves, evenly
\* and along the first or the last half; thirds, of which one can be left over.
Elementary == Problem(<< <<>> >>)
Single == Problem(<< <<2>>, <<3, 4>>, <<>>, <<>> >>)
Even == Problem(<< <<2, 3>>, <<4, 5>>, <<6, 7>>, <<>>, <<>>, <<>>, <<>> >>)
DeepFirst == Problem(<< <<2, 3>>, <<4, 5>>, <<>>, <<6, 7>>, <<>>, <<>>, <<>> >>)
DeepLast == Problem(<< <<2, 3>>, <<>>, <<4, 5>>, <<>>, <<6, 7>>, <<>>, <<>> >>)

Thirds == Problem(<< <<2, 3, 4>>, <<>>, <<5, 6>>, <<>>, <<>>, <<>> >>)

\* Halves of halves, of which one half is halved once more.
Deep == Problem([n \in 1 .. 11 |-> IF n < 6 THEN <<2 * n, 2 * n + 1>> ELSE <<>>])

SmallProblems == {Elementary, Single, Even, DeepFirst, DeepLast, Thirds, Deep}
SmallDegrees == 0 .. 5
AllBackEnds == {"native", "tbb", "omp"}

\* Four subproblems, two threads: one thread is created, two results are left.
FourWayProblems == { Problem(<< <<2, 3, 4, 5>>, <<>>, <<>>, <<>>, <<>> >>) }
FourWayDegrees == {2}

=============================================================================
