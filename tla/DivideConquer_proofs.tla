------------------------- MODULE DivideConquer_proofs -------------------------
(***************************************************************************)
(* Proofs about DivideConquer for every problem, degree and back end.      *)
(***************************************************************************)
EXTENDS DivideConquer, SequenceTheorems, TLAPS

-----------------------------------------------------------------------------
(* Facts used in all the proofs. *)

\* The subproblems form a forest: each has its own place under one other, and the
\* whole problem is nobody's subproblem.
LEMMA Forest ==
  ASSUME TypeOK
  PROVE  /\ 1 \in Nodes
         /\ \A n \in Nodes :
              /\ Len(children(n)) \in Nat
              /\ DOMAIN children(n) = 1 .. Len(children(n))
              /\ \A k \in DOMAIN children(n) : children(n)[k] \in Nodes \ {1}
         /\ \A n, m \in Nodes : \A j \in DOMAIN children(n), k \in DOMAIN children(m) :
              children(n)[j] = children(m)[k] => n = m /\ j = k
<1>1. IsProblem(conf.problem)  BY ProblemsAssumption DEF TypeOK
<1>2. \A n \in Nodes : children(n) \in Seq(Nodes \ {1})
  BY <1>1 DEF IsProblem, Nodes, children
<1>3. \A n \in Nodes : /\ Len(children(n)) \in Nat
                       /\ DOMAIN children(n) = 1 .. Len(children(n))
                       /\ \A k \in DOMAIN children(n) : children(n)[k] \in Nodes \ {1}
  BY <1>2
<1>4. 1 \in Nodes
      /\ \A n, m \in Nodes : \A j \in DOMAIN children(n), k \in DOMAIN children(m) :
           children(n)[j] = children(m)[k] => n = m /\ j = k
  BY <1>1 DEF IsProblem, Nodes, children
<1>5. QED  BY <1>3, <1>4

\* A call that has divided its problem has a first subproblem.
LEMMA HasFirst ==
  ASSUME TypeOK, NEW n \in Nodes, ~Elemental(n)
  PROVE  Len(children(n)) >= 1 /\ 1 \in DOMAIN children(n)
<1>1. children(n) \in Seq(Nodes \ {1})
  BY ProblemsAssumption DEF TypeOK, IsProblem, Nodes, children
<1>2. children(n) # <<>>  BY DEF Elemental
<1>3. Len(children(n)) >= 1  BY <1>1, <1>2
<1>4. QED  BY <1>1, <1>3

\* The step changes one call, or it is the stutter at the end.
LEMMA StepCases ==
  ASSUME [Next]_vars
  PROVE  UNCHANGED vars \/ \E n \in Nodes : Step(n)
BY DEF Next, Return

\* The problem, and with it the forest, stays what it is.
LEMMA SameForest ==
  ASSUME NEW n \in Nodes, Step(n)
  PROVE  /\ conf' = conf /\ Nodes' = Nodes
         /\ \A m : children(m)' = children(m) /\ solution(m)' = solution(m)
         /\ \A m : Elemental(m)' = Elemental(m)
<1>1. conf' = conf
  BY DEF Step, CallSequential, CallSolve, CallDivide, Launch, Decrement, LaunchEnd, Rest,
         First, FirstSequential, Join
<1>2. QED  BY <1>1 DEF Nodes, children, solution, Elemental

\* Giving a subproblem out counts it once more.
LEMMA TakeCounts ==
  ASSUME TypeOK, NEW n \in Nodes, NEW k, children(n)[k] \in Nodes, Take(n, k)
  PROVE  /\ taken' \in [Nodes -> Nat]
         /\ taken'[children(n)[k]] = taken[children(n)[k]] + 1
         /\ \A c \in Nodes : c # children(n)[k] => taken'[c] = taken[c]
<1> DEFINE c == children(n)[k]
<1>1. taken \in [Nodes -> Nat] /\ c \in Nodes  BY DEF TypeOK
<1>2. taken' = [taken EXCEPT ![c] = @ + 1]  BY DEF Take
<1> HIDE DEF c
<1>3. /\ taken' \in [Nodes -> Nat] /\ taken'[c] = taken[c] + 1
      /\ \A x \in Nodes : x # c => taken'[x] = taken[x]
  BY <1>1, <1>2
<1>4. QED  BY <1>3 DEF c

\* A return changes the elements of partials and not how many there are.
LEMMA FinishShape ==
  ASSUME TypeOK, NEW n \in Nodes, NEW r, Finish(n, r)
  PROVE  /\ pc' = [pc EXCEPT ![n] = "done"]
         /\ DOMAIN result' = Nodes /\ DOMAIN partials' = Nodes
         /\ \A m \in Nodes : DOMAIN partials'[m] = DOMAIN partials[m]
BY DEF Finish, TypeOK

-----------------------------------------------------------------------------
(* Types. *)

\* The first state satisfies the invariant.
LEMMA InitIInv == Init => IInv
<1> SUFFICES ASSUME Init PROVE IInv  OBVIOUS
<1>1. PICK p \in Problems, d \in Degrees, b \in BackEnds :
        LET N == DOMAIN p.children IN
        /\ conf = [problem |-> p, degree |-> d, back_end |-> b]
        /\ num_threads = d - 1
        /\ pc = [n \in N |-> IF n = 1 THEN "call" ELSE "none"]
        /\ next = [n \in N |-> 2]
        /\ division = [n \in N |-> 0]
        /\ partials = [n \in N |-> <<>>]
        /\ result = [n \in N |-> NoResult]
        /\ taken = [n \in N |-> IF n = 1 THEN 1 ELSE 0]
  BY DEF Init
<1>2. Nodes = DOMAIN p.children /\ conf.problem = p  BY <1>1 DEF Nodes
<1>3. IsProblem(p) /\ d \in Nat  BY ProblemsAssumption, DegreesAssumption
<1>4. \A n \in Nodes : Len(children(n)) \in Nat
  BY <1>2, <1>3 DEF IsProblem, Nodes, children
<1>5. TypeOK
  BY <1>1, <1>2, <1>3, <1>4 DEF TypeOK, Pc
<1>6. CallPhase  BY <1>1, <1>2 DEF CallPhase, Phase, Untouched
<1>7. GivenOut
  BY <1>1, <1>2, <1>5, Forest DEF GivenOut, Given, IsSubproblem
<1>8. CallsBelow
  BY <1>1, <1>2, <1>5, Forest DEF CallsBelow, Below
<1>9. QED  BY <1>5, <1>6, <1>7, <1>8 DEF IInv

\* Every step keeps the types.
LEMMA NextType ==
  ASSUME IInv, [Next]_vars
  PROVE  TypeOK'
<1> USE DEF IInv
<1>1. CASE UNCHANGED vars  BY <1>1 DEF vars, TypeOK, Nodes, children
<1>2. ASSUME NEW n \in Nodes, Step(n) PROVE TypeOK'
  <2>1. /\ conf' = conf /\ Nodes' = Nodes
        /\ \A m : children(m)' = children(m)
    BY <1>2, SameForest
  <2>2. \A m \in Nodes : Len(children(m)) \in Nat
    BY Forest
  <2>3. ASSUME NEW r, Finish(n, r), UNCHANGED <<num_threads, next, division, taken>>
        PROVE  TypeOK'
    BY <2>1, <2>2, <2>3, FinishShape DEF TypeOK, Pc
  <2>4. CASE CallSequential(n)  BY <2>3, <2>4 DEF CallSequential
  <2>5. CASE CallSolve(n)  BY <2>3, <2>5 DEF CallSolve
  <2>6. CASE CallDivide(n)  BY <2>1, <2>2, <2>6 DEF CallDivide, TypeOK, Pc
  <2>7. CASE Launch(n)
    <3>1. children(n)[next[n]] \in Nodes
      BY <2>7, Forest DEF Launch, TypeOK
    <3>2. next[n] <= Len(children(n))  BY <2>7 DEF Launch
    <3>3. taken' \in [Nodes -> Nat]  BY <2>7, <3>1, TakeCounts DEF Launch
    <3>4. pc' \in [Nodes -> Pc]  BY <2>7, <3>1 DEF Launch, TypeOK, Pc
    <3>5. /\ next' = [next EXCEPT ![n] = @ + 1]
          /\ division' = [division EXCEPT ![n] = @ + 1]
          /\ UNCHANGED <<num_threads, partials, result>>
      BY <2>7 DEF Launch
    <3>6. next' \in [Nodes -> Nat] /\ division' \in [Nodes -> Nat]  BY <3>5 DEF TypeOK
    <3>7. ASSUME NEW m \in Nodes
          PROVE  next'[m] \in 2 .. Len(children(m)) + 2 /\ division'[m] \in 0 .. next'[m] - 2
      BY <2>2, <3>2, <3>5 DEF TypeOK
    <3>8. QED  BY <2>1, <3>3, <3>4, <3>5, <3>6, <3>7 DEF TypeOK
  <2>8. CASE Decrement(n)  BY <2>1, <2>2, <2>8 DEF Decrement, TypeOK, Pc
  <2>9. CASE LaunchEnd(n)  BY <2>1, <2>2, <2>9 DEF LaunchEnd, TypeOK, Pc
  <2>10. CASE Rest(n)
    <3>1. children(n)[next[n]] \in Nodes /\ next[n] <= Len(children(n))
      BY <2>10, Forest DEF Rest, TypeOK
    <3>3. taken' \in [Nodes -> Nat]  BY <2>10, <3>1, TakeCounts DEF Rest
    <3>4. DOMAIN partials' = Nodes  BY <2>10 DEF Rest, TypeOK
    <3>5. next' = [next EXCEPT ![n] = @ + 1] /\ UNCHANGED <<num_threads, pc, division, result>>
      BY <2>10 DEF Rest
    <3>6. next' \in [Nodes -> Nat]  BY <3>5 DEF TypeOK
    <3>7. ASSUME NEW m \in Nodes
          PROVE  next'[m] \in 2 .. Len(children(m)) + 2 /\ division'[m] \in 0 .. next'[m] - 2
      <4>1. /\ next[m] \in 2 .. Len(children(m)) + 2 /\ division[m] \in 0 .. next[m] - 2
            /\ next \in [Nodes -> Nat] /\ division' = division
        BY <3>5 DEF TypeOK
      <4>2. QED  BY <2>2, <3>1, <3>5, <4>1
    <3>8. QED  BY <2>1, <3>3, <3>4, <3>5, <3>6, <3>7 DEF TypeOK
  <2>11. CASE First(n)
    <3>1. children(n)[1] \in Nodes
      BY <2>11, HasFirst, Forest DEF First, CallPhase, Phase
    <3>2. taken' \in [Nodes -> Nat]  BY <2>11, <3>1, TakeCounts DEF First
    <3>3. pc' \in [Nodes -> Pc]  BY <2>11, <3>1 DEF First, TypeOK, Pc
    <3>4. UNCHANGED <<num_threads, next, division, partials, result>>  BY <2>11 DEF First
    <3>5. QED  BY <2>1, <3>2, <3>3, <3>4 DEF TypeOK
  <2>12. CASE FirstSequential(n)
    <3>1. children(n)[1] \in Nodes
      BY <2>12, HasFirst, Forest DEF FirstSequential, CallPhase, Phase
    <3>2. taken' \in [Nodes -> Nat]  BY <2>12, <3>1, TakeCounts DEF FirstSequential
    <3>3. pc' \in [Nodes -> Pc]  BY <2>12, <3>1 DEF FirstSequential, TypeOK, Pc
    <3>4. DOMAIN result' = Nodes  BY <2>12 DEF FirstSequential, TypeOK
    <3>5. UNCHANGED <<num_threads, next, division, partials>>  BY <2>12 DEF FirstSequential
    <3>6. QED  BY <2>1, <3>2, <3>3, <3>4, <3>5 DEF TypeOK
  <2>13. CASE Join(n)  BY <2>3, <2>13 DEF Join
  <2>14. QED  BY <1>2, <2>4, <2>5, <2>6, <2>7, <2>8, <2>9, <2>10, <2>11, <2>12, <2>13
              DEF Step
<1>3. QED  BY StepCases, <1>1, <1>2

-----------------------------------------------------------------------------
(* The calls. *)

\* The subproblem that is about to be handed out has no call yet.
LEMMA FreshNext ==
  ASSUME IInv, NEW n \in Nodes, pc[n] = "launch", next[n] <= Len(children(n))
  PROVE  /\ next[n] \in DOMAIN children(n) /\ next[n] = division[n] + 2
         /\ children(n)[next[n]] \in Nodes \ {1, n}
         /\ pc[children(n)[next[n]]] = "none"
<1> DEFINE c == children(n)[next[n]]
<1>1. next[n] \in Nat /\ next[n] >= 2 /\ division[n] \in Nat  BY DEF IInv, TypeOK
<1>2. next[n] \in DOMAIN children(n)  BY <1>1, Forest DEF IInv
<1>3. division[n] = next[n] - 2  BY DEF IInv, CallPhase, Phase
<1>4. c \in Nodes \ {1}  BY <1>2, Forest DEF IInv
<1>5. pc[c] = "none"  BY <1>1, <1>2, <1>3 DEF IInv, CallsBelow, Below
<1>6. QED  BY <1>1, <1>2, <1>3, <1>4, <1>5

\* Nor has the first, before the call turns to it.
LEMMA FreshFirst ==
  ASSUME IInv, NEW n \in Nodes, pc[n] = "rest"
  PROVE  /\ 1 \in DOMAIN children(n)
         /\ children(n)[1] \in Nodes \ {1, n}
         /\ pc[children(n)[1]] = "none"
<1>1. ~Elemental(n)  BY DEF IInv, CallPhase, Phase
<1>2. 1 \in DOMAIN children(n)  BY <1>1, HasFirst DEF IInv
<1>3. children(n)[1] \in Nodes \ {1}  BY <1>2, Forest DEF IInv
<1>4. pc[children(n)[1]] = "none"  BY <1>2 DEF IInv, CallsBelow, Below
<1>5. QED  BY <1>2, <1>3, <1>4

\* What concerns one call is kept if its place, its indices and the size of its
\* partials are.
LEMMA PhaseKept ==
  ASSUME NEW m, Phase(m), children(m)' = children(m), Elemental(m)' = Elemental(m),
         pc'[m] = pc[m], next'[m] = next[m], division'[m] = division[m],
         DOMAIN partials'[m] = DOMAIN partials[m]
  PROVE  Phase(m)'
BY DEF Phase, Untouched, HandedOut, Divided

\* Every step keeps what the calls have set up.
LEMMA NextCallPhase ==
  ASSUME IInv, [Next]_vars
  PROVE  CallPhase'
<1>t. TypeOK /\ \A m \in Nodes : Phase(m)  BY DEF IInv, CallPhase
<1>1. CASE UNCHANGED vars
  BY <1>1, <1>t DEF vars, CallPhase, Phase, Untouched, HandedOut, Divided, Nodes, children,
                    Elemental
<1>2. ASSUME NEW n \in Nodes, Step(n) PROVE CallPhase'
  <2>1. /\ Nodes' = Nodes
        /\ \A m : children(m)' = children(m) /\ Elemental(m)' = Elemental(m)
    BY <1>2, SameForest
  <2>s. SUFFICES ASSUME NEW m \in Nodes PROVE Phase(m)'
    BY <2>1 DEF CallPhase
  <2>p. Phase(m) /\ Phase(n)  BY <1>t
  <2>f. ASSUME NEW r, Finish(n, r), UNCHANGED <<next, division>>,
               pc[n] = "call" \/ pc[n] = "first"
        PROVE  Phase(m)'
    <3>1. /\ pc' = [pc EXCEPT ![n] = "done"] /\ DOMAIN partials'[m] = DOMAIN partials[m]
      BY <1>t, <2>f, FinishShape
    <3>2. CASE m # n
      <4>1. pc'[m] = pc[m]  BY <1>t, <3>1, <3>2 DEF TypeOK
      <4>2. QED  BY <2>1, <2>p, <2>f, <3>1, <4>1, PhaseKept
    <3>3. CASE m = n
      <4>1. pc'[n] = "done"  BY <1>t, <3>1 DEF TypeOK
      <4>2. QED
        BY <2>1, <2>p, <2>f, <3>1, <3>3, <4>1 DEF Phase, Untouched, HandedOut, Divided
    <3>4. QED  BY <3>2, <3>3
  <2>4. CASE CallSequential(n)  BY <2>f, <2>4 DEF CallSequential
  <2>5. CASE CallSolve(n)  BY <2>f, <2>5 DEF CallSolve
  <2>6. CASE CallDivide(n)
    <3>1. /\ pc' = [pc EXCEPT ![n] = "launch"] /\ pc[n] = "call" /\ ~Elemental(n)
          /\ partials' = [partials EXCEPT ![n] = [k \in 1 .. Len(children(n)) - 1 |-> NoResult]]
          /\ UNCHANGED <<next, division>>
      BY <2>6 DEF CallDivide
    <3>2. CASE m # n
      <4>1. pc'[m] = pc[m] /\ partials'[m] = partials[m]  BY <1>t, <3>1, <3>2 DEF TypeOK
      <4>2. QED  BY <2>1, <2>p, <3>1, <4>1, PhaseKept
    <3>3. CASE m = n
      <4>1. pc'[n] = "launch" /\ DOMAIN partials'[n] = 1 .. Len(children(n)) - 1
        BY <1>t, <3>1 DEF TypeOK
      <4>2. next[n] = 2 /\ division[n] = 0 /\ Len(children(n)) >= 1 /\ Len(children(n)) \in Nat
        BY <1>t, <2>p, <3>1, HasFirst, Forest DEF Phase, Untouched
      <4>3. QED  BY <2>1, <3>1, <3>3, <4>1, <4>2 DEF Phase, Divided
    <3>4. QED  BY <3>2, <3>3
  <2>7. CASE Launch(n)
    <3> DEFINE c == children(n)[next[n]]
    <3>1. c \in Nodes /\ c # n /\ pc[c] = "none"  BY <2>7, FreshNext DEF Launch
    <3>2. /\ pc' = [pc EXCEPT ![n] = "decrement", ![c] = "call"] /\ pc[n] = "launch"
          /\ next' = [next EXCEPT ![n] = @ + 1]
          /\ division' = [division EXCEPT ![n] = @ + 1]
          /\ UNCHANGED partials
      BY <2>7 DEF Launch
    <3> HIDE DEF c
    <3>3. CASE m = n
      <4>1. pc'[n] = "decrement" /\ next'[n] = next[n] + 1 /\ division'[n] = division[n] + 1
        BY <1>t, <3>1, <3>2 DEF TypeOK
      <4>2. next[n] \in Nat /\ division[n] \in Nat /\ Len(children(n)) \in Nat
            /\ next[n] <= Len(children(n))
        BY <1>t, <2>7, Forest DEF TypeOK, Launch
      <4>3. QED  BY <2>1, <2>p, <3>2, <3>3, <4>1, <4>2 DEF Phase, Divided
    <3>4. CASE m = c
      <4>1. pc'[c] = "call" /\ next'[c] = next[c] /\ division'[c] = division[c]
        BY <1>t, <3>1, <3>2 DEF TypeOK
      <4>2. QED  BY <2>1, <2>p, <3>1, <3>2, <3>4, <4>1 DEF Phase, Untouched
    <3>5. CASE m # n /\ m # c
      <4>1. pc'[m] = pc[m] /\ next'[m] = next[m] /\ division'[m] = division[m]
        BY <1>t, <3>1, <3>2, <3>5 DEF TypeOK
      <4>2. QED  BY <2>1, <2>p, <3>2, <4>1, PhaseKept
    <3>6. QED  BY <3>3, <3>4, <3>5
  <2>8. CASE Decrement(n) \/ LaunchEnd(n)
    <3>1. /\ \/ pc' = [pc EXCEPT ![n] = "launch"] /\ pc[n] = "decrement"
             \/ pc' = [pc EXCEPT ![n] = "rest"] /\ pc[n] = "launch"
          /\ UNCHANGED <<next, division, partials>>
      BY <2>8 DEF Decrement, LaunchEnd
    <3>2. CASE m # n
      <4>1. pc'[m] = pc[m]  BY <1>t, <3>1, <3>2 DEF TypeOK
      <4>2. QED  BY <2>1, <2>p, <3>1, <4>1, PhaseKept
    <3>3. CASE m = n
      <4>1. \/ pc'[n] = "launch" /\ pc[n] = "decrement"
            \/ pc'[n] = "rest" /\ pc[n] = "launch"
        BY <1>t, <3>1 DEF TypeOK
      <4>2. QED  BY <2>1, <2>p, <3>1, <3>3, <4>1 DEF Phase, Divided
    <3>4. QED  BY <3>2, <3>3
  <2>9. CASE Rest(n)
    <3>1. /\ pc' = pc /\ division' = division /\ pc[n] = "rest"
          /\ next' = [next EXCEPT ![n] = @ + 1]
          /\ \E r : partials' = [partials EXCEPT ![n][division[n] + 1] = r]
      BY <2>9 DEF Rest
    <3>2. DOMAIN partials'[m] = DOMAIN partials[m]  BY <1>t, <3>1 DEF TypeOK
    <3>3. CASE m # n
      <4>1. next'[m] = next[m]  BY <1>t, <3>1, <3>3 DEF TypeOK
      <4>2. QED  BY <2>1, <2>p, <3>1, <3>2, <4>1, PhaseKept
    <3>4. CASE m = n
      <4>1. next'[n] = next[n] + 1 /\ next[n] \in Nat /\ Len(children(n)) \in Nat
            /\ next[n] <= Len(children(n))
        BY <1>t, <2>9, <3>1, Forest DEF TypeOK, Rest
      <4>2. QED  BY <2>1, <2>p, <3>1, <3>2, <3>4, <4>1 DEF Phase, Divided
    <3>5. QED  BY <3>3, <3>4
  <2>10. CASE First(n) \/ FirstSequential(n)
    <3> DEFINE c == children(n)[1]
    <3>1. c \in Nodes /\ c # n /\ pc[c] = "none"
      BY <2>10, FreshFirst DEF First, FirstSequential
    <3>2. /\ \E l \in {"call", "done"} : pc' = [pc EXCEPT ![n] = "first", ![c] = l]
          /\ pc[n] = "rest" /\ next[n] > Len(children(n))
          /\ UNCHANGED <<next, division, partials>>
      BY <2>10 DEF First, FirstSequential
    <3> HIDE DEF c
    <3>3. CASE m = n
      <4>1. pc'[n] = "first"  BY <1>t, <3>1, <3>2 DEF TypeOK
      <4>2. next[n] <= Len(children(n)) + 1  BY <2>p, <3>2 DEF Phase
      <4>3. next[n] = Len(children(n)) + 1  BY <3>2, <4>2, <1>t, Forest DEF TypeOK
      <4>4. QED  BY <2>1, <2>p, <3>2, <3>3, <4>1, <4>3 DEF Phase, HandedOut, Divided
    <3>4. CASE m = c
      <4>1. pc'[c] \in {"call", "done"}  BY <1>t, <3>1, <3>2 DEF TypeOK
      <4>2. QED  BY <2>1, <2>p, <3>1, <3>2, <3>4, <4>1 DEF Phase, Untouched
    <3>5. CASE m # n /\ m # c
      <4>1. pc'[m] = pc[m]  BY <1>t, <3>1, <3>2, <3>5 DEF TypeOK
      <4>2. QED  BY <2>1, <2>p, <3>2, <4>1, PhaseKept
    <3>6. QED  BY <3>3, <3>4, <3>5
  <2>11. CASE Join(n)  BY <2>f, <2>11 DEF Join
  <2>12. QED  BY <1>2, <2>4, <2>5, <2>6, <2>7, <2>8, <2>9, <2>10, <2>11 DEF Step
<1>3. QED  BY StepCases, <1>1, <1>2

\* What the calls below n may be doing is kept if nothing moves but calls that run
\* on, below a call that has not returned.
LEMMA BelowKept ==
  ASSUME NEW n, NEW k, Below(n, k), children(n)' = children(n),
         pc'[n] = pc[n], division'[n] = division[n],
         pc'[children(n)[k]] = pc[children(n)[k]]
  PROVE  Below(n, k)'
BY DEF Below

\* A call that waits to be made has no calls below it.
LEMMA NoneBelow ==
  ASSUME IInv, NEW n \in Nodes, pc[n] \in {"none", "call"}
  PROVE  \A k \in DOMAIN children(n) : pc[children(n)[k]] = "none"
<1>1. division[n] = 0  BY DEF IInv, CallPhase, Phase, Untouched
<1>2. TAKE k \in DOMAIN children(n)
<1>3. Below(n, k) /\ k \in Nat  BY Forest DEF IInv, CallsBelow
<1>4. QED  BY <1>1, <1>3 DEF Below

\* No step leaves a call running below one that has returned.
LEMMA NextCallsBelow ==
  ASSUME IInv, [Next]_vars
  PROVE  CallsBelow'
<1>t. TypeOK /\ \A m \in Nodes : \A k \in DOMAIN children(m) : Below(m, k)
  BY DEF IInv, CallsBelow
<1>1. CASE UNCHANGED vars
  BY <1>1, <1>t DEF vars, CallsBelow, Below, Nodes, children
<1>2. ASSUME NEW n \in Nodes, Step(n) PROVE CallsBelow'
  <2>1. Nodes' = Nodes /\ \A m : children(m)' = children(m)
    BY <1>2, SameForest
  <2>s. SUFFICES ASSUME NEW m \in Nodes, NEW k \in DOMAIN children(m) PROVE Below(m, k)'
    BY <2>1 DEF CallsBelow
  <2> DEFINE c == children(m)[k]
  <2>c. /\ c \in Nodes /\ k \in Nat /\ k >= 1
        /\ \A j \in DOMAIN children(n) : c = children(n)[j] => m = n /\ k = j
    BY <1>t, Forest
  <2>p. Below(m, k)  BY <1>t
  <2>d. division[m] \in Nat /\ division[n] \in Nat  BY <1>t DEF TypeOK
  <2> HIDE DEF c
  <2>b. Below(m, k) <=>
          /\ pc[c] # "none" => \/ k = 1 /\ pc[m] \in {"first", "done"}
                               \/ k > 1 /\ k <= division[m] + 1
          /\ pc[m] = "done" => pc[c] \in {"none", "done"}
    BY DEF Below, c
  <2>e. Below(m, k)' <=>
          /\ pc'[c] # "none" => \/ k = 1 /\ pc'[m] \in {"first", "done"}
                                \/ k > 1 /\ k <= division'[m] + 1
          /\ pc'[m] = "done" => pc'[c] \in {"none", "done"}
    BY <2>1 DEF Below, c
  <2>f. ASSUME NEW r, Finish(n, r), UNCHANGED division,
               \/ pc[n] = "call"
               \/ /\ pc[n] = "first" /\ pc[children(n)[1]] = "done"
                  /\ \A x \in Launched(n) : pc[x] = "done"
        PROVE  Below(m, k)'
    <3>1. pc' = [pc EXCEPT ![n] = "done"]  BY <1>t, <2>f, FinishShape
    <3>2. pc'[n] = "done" /\ \A x \in Nodes : x # n => pc'[x] = pc[x]
      BY <1>t, <3>1 DEF TypeOK
    <3>3. CASE m # n  BY <2>b, <2>c, <2>e, <2>f, <2>p, <3>2, <3>3
    <3>4. CASE m = n
      <4>1. pc[c] \in {"none", "done"}
        <5>1. CASE pc[n] = "call"  BY <3>4, <5>1, NoneBelow DEF c
        <5>2. CASE pc[n] = "first"
          <6>1. CASE k = 1  BY <2>f, <3>4, <5>2, <6>1 DEF c
          <6>2. CASE k > 1 /\ k <= division[n] + 1
            <7>1. c \in Launched(n)  BY <2>c, <2>d, <3>4, <6>2 DEF Launched, c
            <7>2. QED  BY <2>f, <5>2, <7>1
          <6>3. CASE pc[c] = "none"  BY <6>3
          <6>4. QED  BY <2>b, <2>c, <2>d, <2>p, <3>4, <5>2, <6>1, <6>2, <6>3
        <5>3. QED  BY <2>f, <5>1, <5>2
      <4>2. pc'[c] \in {"none", "done"} /\ (pc'[c] # "none" => pc[c] # "none" \/ c = n)
        BY <2>c, <3>2, <4>1
      <4>3. pc[n] # "none" /\ (pc[n] = "call" => pc[c] = "none" /\ c # n)
        BY <2>f, <3>4, NoneBelow DEF c
      <4>4. QED  BY <2>b, <2>c, <2>d, <2>e, <2>f, <2>p, <3>2, <3>4, <4>2, <4>3
    <3>5. QED  BY <3>3, <3>4
  <2>4. CASE CallSequential(n)  BY <2>f, <2>4 DEF CallSequential
  <2>5. CASE CallSolve(n)  BY <2>f, <2>5 DEF CallSolve
  <2>6. CASE CallDivide(n) \/ Decrement(n) \/ LaunchEnd(n)
    <3>1. /\ pc[n] \in {"call", "decrement", "launch"}
          /\ \E l \in {"launch", "rest"} : pc' = [pc EXCEPT ![n] = l]
          /\ UNCHANGED division
      BY <2>6 DEF CallDivide, Decrement, LaunchEnd
    <3>2. pc'[n] \in {"launch", "rest"} /\ \A x \in Nodes : x # n => pc'[x] = pc[x]
      BY <1>t, <3>1 DEF TypeOK
    <3>3. QED  BY <2>b, <2>c, <2>e, <2>p, <3>1, <3>2
  <2>7. CASE Launch(n)
    <3> DEFINE x == children(n)[next[n]]
    <3>1. /\ x \in Nodes /\ x # n /\ pc[x] = "none"
          /\ next[n] \in DOMAIN children(n) /\ next[n] = division[n] + 2
      BY <2>7, FreshNext DEF Launch
    <3>2. /\ pc' = [pc EXCEPT ![n] = "decrement", ![x] = "call"] /\ pc[n] = "launch"
          /\ division' = [division EXCEPT ![n] = @ + 1]
      BY <2>7 DEF Launch
    <3>3. c = x => m = n /\ k = division[n] + 2  BY <2>c, <3>1
    <3> HIDE DEF x
    <3>4. /\ pc'[n] = "decrement" /\ pc'[x] = "call"
          /\ \A y \in Nodes : y # n /\ y # x => pc'[y] = pc[y]
          /\ division'[n] = division[n] + 1 /\ (m # n => division'[m] = division[m])
      BY <1>t, <3>1, <3>2 DEF TypeOK
    <3>5. division[m] <= division'[m] /\ division'[m] \in Nat
      BY <2>d, <3>4
    <3>6. CASE c = x
      <4>1. m = n /\ k > 1 /\ k <= division'[m] + 1  BY <2>d, <3>3, <3>4, <3>6
      <4>2. QED  BY <2>e, <3>4, <4>1
    <3>7. CASE c # x
      <4>1. pc'[c] # "none" => pc[c] # "none"  BY <2>c, <3>2, <3>4, <3>7
      <4>2. pc[m] \in {"first", "done"} => pc'[m] = pc[m]
        BY <3>1, <3>2, <3>4
      <4>3. pc'[m] = "done" => pc[m] = "done"  BY <3>4
      <4>4. pc[c] \in {"none", "done"} => pc'[c] = pc[c]  BY <2>c, <3>2, <3>4, <3>7
      <4>5. k > 1 /\ k <= division[m] + 1 => k <= division'[m] + 1
        BY <2>c, <2>d, <3>5
      <4>6. QED  BY <2>b, <2>e, <2>p, <4>1, <4>2, <4>3, <4>4, <4>5
    <3>8. QED  BY <3>6, <3>7
  <2>8. CASE Rest(n)
    <3>1. UNCHANGED <<pc, division>>  BY <2>8 DEF Rest
    <3>2. QED  BY <2>b, <2>e, <2>p, <3>1
  <2>9. CASE First(n) \/ FirstSequential(n)
    <3> DEFINE x == children(n)[1]
    <3>1. /\ x \in Nodes /\ x # n /\ pc[x] = "none" /\ 1 \in DOMAIN children(n)
      BY <2>9, FreshFirst DEF First, FirstSequential
    <3>2. /\ \E l \in {"call", "done"} : pc' = [pc EXCEPT ![n] = "first", ![x] = l]
          /\ pc[n] = "rest" /\ UNCHANGED division
      BY <2>9 DEF First, FirstSequential
    <3>3. c = x => m = n /\ k = 1  BY <2>c, <3>1
    <3>4. m = x => pc[c] = "none"  BY <3>1, NoneBelow DEF c
    <3> HIDE DEF x
    <3>5. /\ pc'[n] = "first" /\ pc'[x] \in {"call", "done"}
          /\ \A y \in Nodes : y # n /\ y # x => pc'[y] = pc[y]
      BY <1>t, <3>1, <3>2 DEF TypeOK
    <3>6. QED  BY <2>b, <2>c, <2>d, <2>e, <2>p, <3>1, <3>2, <3>3, <3>4, <3>5
  <2>10. CASE Join(n)  BY <2>f, <2>10 DEF Join
  <2>11. QED  BY <1>2, <2>4, <2>5, <2>6, <2>7, <2>8, <2>9, <2>10 DEF Step
<1>3. QED  BY StepCases, <1>1, <1>2

-----------------------------------------------------------------------------
(* What has been given out. *)

\* A step that gives nothing out and ends no call keeps the accounts.
LEMMA GivenKept ==
  ASSUME NEW n, NEW k, Given(n, k), children(n)' = children(n),
         next'[n] = next[n], taken'[children(n)[k]] = taken[children(n)[k]],
         DOMAIN partials'[n] = DOMAIN partials[n],
         \/ pc'[n] = pc[n]
         \/ {pc[n], pc'[n]} \subseteq {"none", "call", "launch", "decrement", "rest"}
  PROVE  Given(n, k)'
BY DEF Given

\* Every step gives out at most one subproblem, and none twice.
LEMMA NextGivenOut ==
  ASSUME IInv, [Next]_vars
  PROVE  GivenOut'
<1>t. /\ TypeOK /\ CallPhase
      /\ \A m \in Nodes : \A k \in DOMAIN children(m) : Given(m, k)
      /\ taken[1] = 1 /\ \A c \in Nodes \ {1} : ~IsSubproblem(c) => taken[c] = 0
  BY DEF IInv, GivenOut
<1>1. CASE UNCHANGED vars
  BY <1>1, <1>t DEF vars, GivenOut, Given, IsSubproblem, Nodes, children
<1>2. ASSUME NEW n \in Nodes, Step(n) PROVE GivenOut'
  <2>1. /\ Nodes' = Nodes /\ \A m : children(m)' = children(m)
        /\ \A c : IsSubproblem(c)' = IsSubproblem(c)
    BY <1>2, SameForest DEF IsSubproblem
  <2>n. \A m \in Nodes : next[m] \in Nat /\ division[m] \in Nat /\ Len(children(m)) \in Nat
    BY <1>t, Forest DEF TypeOK
  \* A step that gives nothing out.
  <2>2. ASSUME UNCHANGED <<next, taken>>,
               \A m \in Nodes : \A k \in DOMAIN children(m) : k = 1 => Given(m, k)'
        PROVE  GivenOut'
    <3>1. \A m \in Nodes : \A k \in DOMAIN children(m) : k > 1 => Given(m, k)'
      BY <1>t, <2>1, <2>2 DEF Given
    <3>2. \A m \in Nodes : \A k \in DOMAIN children(m) : Given(m, k)'
      BY <1>t, <2>2, <3>1, Forest
    <3>3. QED  BY <1>t, <2>1, <2>2, <3>2 DEF GivenOut
  \* A step that gives subproblem j of n out.
  <2>3. ASSUME NEW j \in DOMAIN children(n), Take(n, j),
               Given(n, j)',
               \A m \in Nodes : \A k \in DOMAIN children(m) :
                 (m # n \/ k # j) /\ taken'[children(m)[k]] = taken[children(m)[k]]
                   => Given(m, k)'
        PROVE  GivenOut'
    <3> DEFINE x == children(n)[j]
    <3>1. x \in Nodes \ {1}  BY <1>t, Forest
    <3>2. \A c \in Nodes : c # x => taken'[c] = taken[c]  BY <1>t, <2>3, <3>1, TakeCounts
    <3>3. \A m \in Nodes : \A k \in DOMAIN children(m) :
            m # n \/ k # j => children(m)[k] \in Nodes /\ children(m)[k] # x
      BY <1>t, Forest
    <3>4. IsSubproblem(x)  BY DEF IsSubproblem
    <3> HIDE DEF x
    <3>5. \A m \in Nodes : \A k \in DOMAIN children(m) : Given(m, k)'
      BY <2>3, <3>2, <3>3
    <3>6. taken'[1] = 1  BY <1>t, <3>1, <3>2, Forest
    <3>7. \A c \in Nodes \ {1} : ~IsSubproblem(c) => taken'[c] = 0
      BY <1>t, <3>2, <3>4
    <3>8. QED  BY <2>1, <3>5, <3>6, <3>7 DEF GivenOut
  <2>f. ASSUME NEW r, Finish(n, r), UNCHANGED <<next, taken>>,
               pc[n] = "call" \/ pc[n] = "first"
        PROVE  GivenOut'
    <3>1. /\ pc' = [pc EXCEPT ![n] = "done"]
          /\ \A m \in Nodes : DOMAIN partials'[m] = DOMAIN partials[m]
      BY <1>t, <2>f, FinishShape
    <3>2. pc'[n] = "done" /\ \A m \in Nodes : m # n => pc'[m] = pc[m]
      BY <1>t, <3>1 DEF TypeOK
    <3>3. pc[n] = "call" => DOMAIN partials[n] = {}
      BY <1>t DEF CallPhase, Phase, Untouched
    <3>4. ASSUME NEW m \in Nodes, NEW k \in DOMAIN children(m), k = 1 PROVE Given(m, k)'
      <4>1. CASE m # n  BY <1>t, <2>1, <2>f, <3>1, <3>2, <4>1, GivenKept
      <4>2. CASE m = n  BY <1>t, <2>1, <2>f, <3>1, <3>2, <3>3, <3>4, <4>2 DEF Given
      <4>3. QED  BY <4>1, <4>2
    <3>5. QED  BY <2>2, <2>f, <3>4
  <2>4. CASE CallSequential(n)  BY <2>f, <2>4 DEF CallSequential
  <2>5. CASE CallSolve(n)  BY <2>f, <2>5 DEF CallSolve
  <2>6. CASE CallDivide(n) \/ Decrement(n) \/ LaunchEnd(n)
    <3>1. /\ pc[n] \in {"call", "decrement", "launch"}
          /\ \E l \in {"launch", "rest"} : pc' = [pc EXCEPT ![n] = l]
          /\ UNCHANGED <<next, taken>>
      BY <2>6 DEF CallDivide, Decrement, LaunchEnd
    <3>2. \A m \in Nodes : \/ pc'[m] = pc[m]
                           \/ {pc[m], pc'[m]} \subseteq {"call", "decrement", "launch", "rest"}
      BY <1>t, <3>1 DEF TypeOK
    <3>3. ASSUME NEW m \in Nodes PROVE pc[m] # "done" \/ DOMAIN partials'[m] = DOMAIN partials[m]
      BY <1>t, <2>6, <3>1, <3>3 DEF CallDivide, Decrement, LaunchEnd, TypeOK
    <3>4. \A m \in Nodes : \A k \in DOMAIN children(m) : k = 1 => Given(m, k)'
      BY <1>t, <2>1, <3>1, <3>2, <3>3 DEF Given
    <3>5. QED  BY <2>2, <3>1, <3>4
  <2>7. CASE Launch(n)
    <3>j. PICK j \in DOMAIN children(n) : j = next[n]
      BY <2>7, FreshNext DEF Launch
    <3> DEFINE x == children(n)[j]
    <3>1. /\ x \in Nodes /\ x # n /\ pc[x] = "none"
          /\ j \in DOMAIN children(n) /\ j = division[n] + 2 /\ j > 1 /\ j \in Nat
      BY <2>7, <2>n, <3>j, FreshNext DEF Launch
    <3>2. /\ pc' = [pc EXCEPT ![n] = "decrement", ![x] = "call"] /\ pc[n] = "launch"
          /\ next' = [next EXCEPT ![n] = @ + 1] /\ Take(n, j) /\ partials' = partials
      BY <2>7, <3>j DEF Launch
    <3>3. taken'[x] = taken[x] + 1  BY <1>t, <3>1, <3>2, TakeCounts
    <3>4. taken[x] = 0
      <4>1. Given(n, j) /\ ~(j < next[n]) /\ j > 1  BY <1>t, <3>j, <3>1
      <4>2. QED  BY <4>1 DEF Given
    <3>5. /\ next'[n] = j + 1 /\ \A m \in Nodes : m # n => next'[m] = next[m]
          /\ \A m \in Nodes : \/ pc'[m] = pc[m]
                              \/ {pc[m], pc'[m]} \subseteq {"none", "call", "launch", "decrement"}
      BY <1>t, <3>j, <3>1, <3>2 DEF TypeOK
    <3>6. Given(n, j)'  BY <2>1, <3>1, <3>3, <3>4, <3>5 DEF Given
    <3>7. ASSUME NEW m \in Nodes, NEW k \in DOMAIN children(m), m # n \/ k # j,
                 taken'[children(m)[k]] = taken[children(m)[k]]
          PROVE  Given(m, k)'
      <4>1. k \in Nat /\ Given(m, k)  BY <1>t, Forest
      <4>2. CASE m # n
        <5>1. next'[m] = next[m]  BY <3>5, <4>2
        <5>2. DOMAIN partials'[m] = DOMAIN partials[m]  BY <3>2
        <5>3. QED  BY <2>1, <3>5, <3>7, <4>1, <5>1, <5>2, GivenKept
      <4>3. CASE m = n
        <5>1. k # j /\ next'[n] = next[n] + 1 /\ pc'[n] = "decrement"
          BY <1>t, <3>j, <3>1, <3>2, <3>5, <3>7, <4>3 DEF TypeOK
        <5>2. k < next'[n] <=> k < next[n]  BY <2>n, <3>j, <4>1, <5>1
        <5>3. QED  BY <2>1, <3>2, <3>7, <4>1, <4>3, <5>1, <5>2 DEF Given
      <4>4. QED  BY <4>2, <4>3
    <3>8. QED  BY <2>3, <3>1, <3>2, <3>6, <3>7
  <2>8. CASE Rest(n)
    <3>a. next[n] <= Len(children(n)) /\ next[n] \in Nat /\ next[n] >= 2
      BY <1>t, <2>8, <2>n DEF Rest, TypeOK
    <3>j. PICK j \in DOMAIN children(n) : j = next[n]
      BY <1>t, <3>a, Forest
    <3> DEFINE x == children(n)[j]
    <3>1. x \in Nodes /\ j > 1 /\ j \in Nat
      BY <1>t, <3>a, <3>j, Forest
    <3>2. /\ pc' = pc /\ pc[n] = "rest"
          /\ next' = [next EXCEPT ![n] = @ + 1] /\ Take(n, j)
      BY <2>8, <3>j DEF Rest
    <3>3. taken'[x] = taken[x] + 1 /\ taken[x] = 0
      BY <1>t, <3>j, <3>1, <3>2, TakeCounts DEF Given
    <3>4. next'[n] = j + 1 /\ \A m \in Nodes : m # n => next'[m] = next[m]
      BY <1>t, <3>j, <3>2 DEF TypeOK
    <3>5. Given(n, j)'  BY <2>1, <3>1, <3>3, <3>4 DEF Given
    <3>6. \A m \in Nodes : DOMAIN partials'[m] = DOMAIN partials[m]
      BY <1>t, <2>8 DEF Rest, TypeOK
    <3>7. ASSUME NEW m \in Nodes, NEW k \in DOMAIN children(m), m # n \/ k # j,
                 taken'[children(m)[k]] = taken[children(m)[k]]
          PROVE  Given(m, k)'
      <4>1. k \in Nat /\ Given(m, k)  BY <1>t, Forest
      <4>2. CASE m # n
        <5>1. next'[m] = next[m]  BY <3>4, <4>2
        <5>2. QED  BY <2>1, <3>2, <3>6, <3>7, <4>1, <5>1, GivenKept
      <4>3. CASE m = n
        <5>1. k < next'[n] <=> k < next[n]  BY <2>n, <3>j, <3>4, <3>7, <4>1, <4>3
        <5>2. QED  BY <2>1, <3>2, <3>7, <4>1, <4>3, <5>1 DEF Given
      <4>4. QED  BY <4>2, <4>3
    <3>8. QED  BY <2>3, <3>1, <3>2, <3>5, <3>7
  <2>9. CASE First(n) \/ FirstSequential(n)
    <3> DEFINE x == children(n)[1]
    <3>1. x \in Nodes /\ x # n /\ pc[x] = "none" /\ 1 \in DOMAIN children(n)
      BY <2>9, FreshFirst DEF First, FirstSequential
    <3>2. /\ \E l \in {"call", "done"} : pc' = [pc EXCEPT ![n] = "first", ![x] = l]
          /\ pc[n] = "rest" /\ Take(n, 1) /\ UNCHANGED <<next, partials>>
      BY <2>9 DEF First, FirstSequential
    <3>3. taken'[x] = 1  BY <1>t, <3>1, <3>2, TakeCounts DEF Given
    <3>4. pc'[n] = "first"  BY <1>t, <3>1, <3>2 DEF TypeOK
    <3>5. Given(n, 1)'  BY <2>1, <3>1, <3>3, <3>4 DEF Given
    <3>6. \A m \in Nodes : m # n /\ m # x => pc'[m] = pc[m]
      BY <1>t, <3>1, <3>2 DEF TypeOK
    <3>7. DOMAIN partials[x] = {}  BY <1>t, <3>1 DEF CallPhase, Phase, Untouched
    <3>8. ASSUME NEW m \in Nodes, NEW k \in DOMAIN children(m), m # n \/ k # 1,
                 taken'[children(m)[k]] = taken[children(m)[k]]
          PROVE  Given(m, k)'
      <4>1. k \in Nat /\ Given(m, k)  BY <1>t, Forest
      <4>2. CASE k # 1  BY <2>1, <3>2, <3>8, <4>1, <4>2 DEF Given
      <4>3. CASE m # n /\ m # x  BY <2>1, <3>2, <3>6, <3>8, <4>1, <4>3, GivenKept
      <4>4. CASE m = x /\ k = 1
        <5>1. pc'[x] \in {"call", "done"}  BY <1>t, <3>1, <3>2 DEF TypeOK
        <5>2. taken[children(m)[k]] = 0  BY <3>1, <4>1, <4>4 DEF Given
        <5>3. QED  BY <2>1, <3>2, <3>7, <3>8, <4>4, <5>1, <5>2 DEF Given
      <4>5. QED  BY <3>8, <4>2, <4>3, <4>4
    <3>9. QED  BY <2>3, <3>1, <3>2, <3>5, <3>8
  <2>10. CASE Join(n)  BY <2>f, <2>10 DEF Join
  <2>11. QED  BY <1>2, <2>4, <2>5, <2>6, <2>7, <2>8, <2>9, <2>10 DEF Step
<1>3. QED  BY StepCases, <1>1, <1>2

-----------------------------------------------------------------------------
(* The invariant and what follows from it. *)

\* The invariant is inductive.
LEMMA NextIInv == IInv /\ [Next]_vars => IInv'
BY NextType, NextCallPhase, NextGivenOut, NextCallsBelow DEF IInv

\* In every execution the indices stay within partials, each call has set up what
\* its place requires, and the subproblems given out and the calls below a call are
\* what its iterator and its division say.
THEOREM Invariance == Spec => []IInv
BY InitIInv, NextIInv, PTL DEF Spec

\* However the shared budget is tested and decremented: no subproblem is given out
\* twice, and a call that divides has given out all when it returns.
THEOREM SolvedOnce == Spec => []EachSubproblemOnce
<1>1. IInv => EachSubproblemOnce
  <2> SUFFICES ASSUME IInv, NEW n \in Nodes
               PROVE  /\ taken[n] <= 1
                      /\ (pc[n] = "done" /\ DOMAIN partials[n] # {}) =>
                           \A k \in DOMAIN children(n) : taken[children(n)[k]] = 1
    BY DEF EachSubproblemOnce
  <2>t. /\ TypeOK /\ CallPhase
        /\ \A m \in Nodes : \A k \in DOMAIN children(m) : Given(m, k)
        /\ taken[1] = 1 /\ \A c \in Nodes \ {1} : ~IsSubproblem(c) => taken[c] = 0
    BY DEF IInv, GivenOut
  <2>1. taken[n] <= 1
    <3>1. CASE n = 1  BY <2>t, <3>1
    <3>2. CASE n # 1 /\ ~IsSubproblem(n)  BY <2>t, <3>2
    <3>3. CASE IsSubproblem(n)
      <4>1. PICK m \in Nodes : \E k \in DOMAIN children(m) : children(m)[k] = n
        BY <3>3 DEF IsSubproblem
      <4>2. PICK k \in DOMAIN children(m) : children(m)[k] = n  BY <4>1
      <4>3. Given(m, k)  BY <2>t
      <4>4. k \in Nat /\ k >= 1  BY <2>t, Forest
      <4>5. pc[m] \in Pc  BY <2>t DEF TypeOK
      <4>6. QED  BY <4>2, <4>3, <4>4, <4>5 DEF Given, Pc
    <3>4. QED  BY <3>1, <3>2, <3>3
  <2>2. ASSUME pc[n] = "done", DOMAIN partials[n] # {}, NEW k \in DOMAIN children(n)
        PROVE  taken[children(n)[k]] = 1
    <3>1. next[n] = Len(children(n)) + 1
      BY <2>t, <2>2 DEF CallPhase, Phase, Untouched, HandedOut
    <3>2. k \in Nat /\ k >= 1 /\ k <= Len(children(n)) /\ Len(children(n)) \in Nat
      BY <2>t, Forest
    <3>3. Given(n, k) /\ k < next[n]  BY <2>t, <3>1, <3>2
    <3>4. QED  BY <2>2, <3>2, <3>3 DEF Given
  <2>3. QED  BY <2>1, <2>2
<1>2. QED  BY <1>1, Invariance, PTL

\* No call outlives the one that made it, whose partials it writes.
THEOREM NoneOutlives == Spec => []NoOrphans
<1>1. IInv => NoOrphans  BY DEF IInv, CallsBelow, Below, NoOrphans
<1>2. QED  BY <1>1, Invariance, PTL

-----------------------------------------------------------------------------
(* The result, for problems divided in two. *)

\* No subproblem is divided into more than two.
Binary == \A p \in Problems : \A n \in DOMAIN p.children : Len(p.children[n]) <= 2

\* The elements of partials are those of a function, and the second subproblem's
\* is its solution once that has been solved; and so is what a call returns.
PartialsFunctions ==
  \A n \in Nodes : partials[n] = [k \in DOMAIN partials[n] |-> partials[n][k]]

SecondStored ==
  \A n \in Nodes :
    (Len(children(n)) = 2 /\ next[n] = 3 /\ (division[n] = 1 => pc[children(n)[2]] = "done"))
      => partials[n][1] = solution(children(n)[2])

RightResults == PartialsFunctions /\ SecondStored /\ SameAsSequential

\* What an elemental problem, one with one subproblem and one with two combine to.
LEMMA Solutions ==
  ASSUME TypeOK, NEW n \in Nodes
  PROVE  /\ children(n) = <<>> => solution(n) = Combination(n, <<>>)
         /\ Len(children(n)) = 1 => solution(n) = Combination(n, <<solution(children(n)[1])>>)
         /\ Len(children(n)) = 2 =>
              solution(n) = Combination(n, <<solution(children(n)[1]), solution(children(n)[2])>>)
<1> DEFINE s == [j \in DOMAIN children(n) |-> solution(children(n)[j])]
<1>1. IsProblem(conf.problem)  BY ProblemsAssumption DEF TypeOK
<1>2. solution(n) = Combination(n, s)
  BY <1>1 DEF IsProblem, Nodes, children, solution
<1>3. DOMAIN children(n) = 1 .. Len(children(n))  BY Forest
<1>4. children(n) = <<>> => s = <<>>
  <2>1. SUFFICES ASSUME children(n) = <<>> PROVE s = <<>>  OBVIOUS
  <2>2. DOMAIN children(n) = {}  BY <2>1
  <2>3. s = [j \in {} |-> solution(children(n)[j])]  BY <2>2
  <2>4. QED  BY <2>3
<1>5. Len(children(n)) = 1 => s = <<solution(children(n)[1])>>
  <2>1. SUFFICES ASSUME Len(children(n)) = 1 PROVE s = <<solution(children(n)[1])>>  OBVIOUS
  <2>2. s = [j \in 1 .. 1 |-> solution(children(n)[j])]  BY <1>3, <2>1
  <2>3. QED  BY <2>2
<1>6. Len(children(n)) = 2 =>
        s = <<solution(children(n)[1]), solution(children(n)[2])>>
  <2>1. SUFFICES ASSUME Len(children(n)) = 2
                 PROVE  s = <<solution(children(n)[1]), solution(children(n)[2])>>
    OBVIOUS
  <2>2. s = [j \in 1 .. 2 |-> solution(children(n)[j])]  BY <1>3, <2>1
  <2>3. QED  BY <2>2
<1>7. QED  BY <1>2, <1>4, <1>5, <1>6

\* The results of one and of two subproblems, one after the other.
LEMMA ResultsInOrder ==
  ASSUME NEW f, f = [k \in DOMAIN f |-> f[k]], NEW a
  PROVE  /\ DOMAIN f = 1 .. 0 => <<a>> \o f = <<a>>
         /\ DOMAIN f = 1 .. 1 => <<a>> \o f = <<a, f[1]>>
<1>1. ASSUME DOMAIN f = 1 .. 0 PROVE <<a>> \o f = <<a>>
  <2>1. f = [k \in 1 .. 0 |-> f[k]]  BY <1>1
  <2>2. f = <<>>  BY <2>1
  <2>3. <<a>> \in Seq({a})  OBVIOUS
  <2>4. QED  BY <2>2, <2>3, ConcatEmptySeq
<1>2. ASSUME DOMAIN f = 1 .. 1 PROVE <<a>> \o f = <<a, f[1]>>
  <2>1. f = [k \in 1 .. 1 |-> f[k]]  BY <1>2
  <2>2. f = <<f[1]>>  BY <2>1
  <2> DEFINE b == f[1]
  <2>3. <<a>> \in Seq({a, b}) /\ <<b>> \in Seq({a, b})  OBVIOUS
  <2>4. /\ <<a>> \o <<b>> \in Seq({a, b}) /\ Len(<<a>> \o <<b>>) = 2
        /\ \A i \in 1 .. 2 : (<<a>> \o <<b>>)[i] = IF i <= 1 THEN <<a>>[i] ELSE <<b>>[i - 1]
    BY <2>3, ConcatProperties
  <2>5. (<<a>> \o <<b>>)[1] = a /\ (<<a>> \o <<b>>)[2] = b  BY <2>4
  <2>6. <<a>> \o <<b>> = <<a, b>>
    <3> DEFINE s == <<a>> \o <<b>>
               t == <<a, b>>
    <3>1. s \in Seq({a, b}) /\ t \in Seq({a, b})  BY <2>4
    <3>2. Len(s) = Len(t) /\ Len(s) = 2  BY <2>4
    <3>3. s[1] = t[1] /\ s[2] = t[2]  BY <2>5
    <3> HIDE DEF s, t
    <3>4. \A i \in 1 .. Len(s) : s[i] = t[i]  BY <3>2, <3>3
    <3>5. s = t  BY <3>1, <3>2, <3>4, SeqEqual
    <3>6. QED  BY <3>5 DEF s, t
  <2>7. QED  BY <2>2, <2>6
<1>3. QED  BY <1>1, <1>2

\* When a call combines, its subproblems have been solved.
LEMMA JoinRight ==
  ASSUME Binary, IInv, RightResults, NEW n \in Nodes, Join(n)
  PROVE  Combination(n, <<result[children(n)[1]]>> \o partials[n]) = solution(n)
<1> DEFINE c == children(n)
<1>t. TypeOK  BY DEF IInv
<1>1. /\ Divided(n) /\ ~Elemental(n) /\ next[n] = Len(c) + 1
      /\ pc[c[1]] = "done" /\ \A x \in Launched(n) : pc[x] = "done"
  BY DEF Join, IInv, CallPhase, Phase, HandedOut
<1>2. Len(c) \in Nat /\ Len(c) >= 1 /\ 1 \in DOMAIN c  BY <1>t, <1>1, HasFirst, Forest
<1>3. Len(c) <= 2  BY <1>t DEF Binary, TypeOK, Nodes, children
<1>4. result[c[1]] = solution(c[1])
  BY <1>t, <1>1, <1>2, Forest DEF RightResults, SameAsSequential
<1>5. /\ DOMAIN partials[n] = 1 .. Len(c) - 1
      /\ partials[n] = [k \in DOMAIN partials[n] |-> partials[n][k]]
  BY <1>1 DEF Divided, RightResults, PartialsFunctions
<1>6. CASE Len(c) = 1
  <2>0. DOMAIN partials[n] = 1 .. 0  BY <1>5, <1>6
  <2>1. <<result[c[1]]>> \o partials[n] = <<result[c[1]]>>
    BY <1>5, <2>0, ResultsInOrder
  <2>2. QED  BY <1>t, <1>4, <1>6, <2>1, Solutions
<1>7. CASE Len(c) = 2
  <2>1. division[n] = 1 => pc[c[2]] = "done"  BY <1>1 DEF Launched
  <2>2. partials[n][1] = solution(c[2])
    BY <1>1, <1>7, <2>1 DEF RightResults, SecondStored
  <2>3. <<result[c[1]]>> \o partials[n] = <<result[c[1]], partials[n][1]>>
    <3>1. DOMAIN partials[n] = 1 .. 1  BY <1>5, <1>7
    <3>2. QED  BY <1>5, <3>1, ResultsInOrder
  <2>4. QED  BY <1>t, <1>4, <1>7, <2>2, <2>3, Solutions
<1> DEFINE l == Len(c)
<1>8. l = 1 \/ l = 2
  <2>1. l \in Nat /\ l >= 1 /\ l <= 2  BY <1>2, <1>3
  <2> HIDE DEF l
  <2>2. QED  BY <2>1
<1>9. QED  BY <1>6, <1>7, <1>8

\* Every step keeps the results right.
LEMMA NextRight ==
  ASSUME Binary, IInv, RightResults, [Next]_vars
  PROVE  RightResults'
<1>t. TypeOK /\ CallPhase /\ PartialsFunctions /\ SecondStored /\ SameAsSequential
  BY DEF IInv, RightResults
<1>1. CASE UNCHANGED vars
  BY <1>1, <1>t DEF vars, RightResults, PartialsFunctions, SecondStored, SameAsSequential,
                    Nodes, children, solution
<1>2. ASSUME NEW n \in Nodes, Step(n) PROVE RightResults'
  <2>1. /\ Nodes' = Nodes
        /\ \A m : children(m)' = children(m) /\ solution(m)' = solution(m)
    BY <1>2, SameForest
  <2>n. \A m \in Nodes :
          /\ next[m] \in Nat /\ division[m] \in Nat /\ Len(children(m)) \in Nat
          /\ Len(children(m)) <= 2 /\ division[m] <= next[m] - 2 /\ next[m] >= 2
          /\ Len(children(m)) = 2 => children(m)[2] \in Nodes
    BY <1>t, Forest DEF TypeOK, Binary, Nodes, children
  \* A step that stores nothing and ends no call.
  <2>2. ASSUME UNCHANGED <<result, partials>>,
               \A m \in Nodes : pc'[m] = "done" => pc[m] = "done",
               \A m \in Nodes : Len(children(m)) = 2 /\ next'[m] = 3 =>
                 \/ next[m] = 3 /\ division'[m] = division[m]
                 \/ division'[m] = 1 /\ pc'[children(m)[2]] # "done"
        PROVE  RightResults'
    <3>1. PartialsFunctions' /\ SameAsSequential'
      BY <1>t, <2>1, <2>2 DEF PartialsFunctions, SameAsSequential
    <3>2. SecondStored'
      <4> SUFFICES ASSUME NEW m \in Nodes, Len(children(m)) = 2, next'[m] = 3,
                          division'[m] = 1 => pc'[children(m)[2]] = "done"
                   PROVE  partials'[m][1] = solution(children(m)[2])
        BY <2>1 DEF SecondStored
      <4>1. next[m] = 3 /\ division'[m] = division[m]  BY <2>2
      <4>2. division[m] = 1 => pc[children(m)[2]] = "done"  BY <2>2, <2>n, <4>1
      <4>3. QED  BY <1>t, <2>2, <4>1, <4>2 DEF SecondStored
    <3>3. QED  BY <3>1, <3>2 DEF RightResults
  \* A call that returns its solution.
  <2>f. ASSUME Finish(n, solution(n)), UNCHANGED <<next, division>>,
               pc[n] = "call" \/ pc[n] = "first"
        PROVE  RightResults'
    <3>1. /\ pc'[n] = "done" /\ \A m \in Nodes : m # n => pc'[m] = pc[m]
          /\ result'[n] = solution(n) /\ \A m \in Nodes : m # n => result'[m] = result[m]
          /\ partials' = [m \in Nodes |->
               [k \in DOMAIN partials[m] |->
                  IF IsChild(n, m, k + 1) THEN solution(n) ELSE partials[m][k]]]
      BY <1>t, <2>f DEF Finish, TypeOK
    <3>2. PartialsFunctions'  BY <2>1, <3>1 DEF PartialsFunctions
    <3>3. SameAsSequential'  BY <1>t, <2>1, <3>1 DEF SameAsSequential
    <3>4. SecondStored'
      <4> SUFFICES ASSUME NEW m \in Nodes, Len(children(m)) = 2, next'[m] = 3,
                          division'[m] = 1 => pc'[children(m)[2]] = "done"
                   PROVE  partials'[m][1] = solution(children(m)[2])
        BY <2>1 DEF SecondStored
      <4>1. next[m] = 3 /\ division'[m] = division[m]  BY <2>f
      <4>2. pc[m] # "none" /\ pc[m] # "call" /\ DOMAIN partials[m] = 1 .. 1
        <5>1. pc[m] \in Pc /\ Phase(m)  BY <1>t DEF TypeOK, CallPhase
        <5>2. pc[m] # "none" /\ pc[m] # "call" /\ ~Untouched(m)
          BY <4>1, <5>1 DEF Phase, Untouched
        <5>3. Divided(m)  BY <5>1, <5>2 DEF Pc, Phase, HandedOut
        <5>4. QED  BY <5>2, <5>3 DEF Divided
      <4>3. partials'[m][1]
              = IF IsChild(n, m, 2) THEN solution(n) ELSE partials[m][1]
        BY <3>1, <4>2
      <4>4. CASE IsChild(n, m, 2)  BY <4>3, <4>4 DEF IsChild
      <4>5. CASE ~IsChild(n, m, 2)
        <5>1. children(m)[2] # n  BY <1>t, <4>5, Forest DEF IsChild
        <5>2. pc'[children(m)[2]] = pc[children(m)[2]]  BY <2>n, <3>1, <5>1
        <5>3. partials[m][1] = solution(children(m)[2])
          BY <1>t, <4>1, <5>2 DEF SecondStored
        <5>4. QED  BY <4>3, <4>5, <5>3
      <4>6. QED  BY <4>4, <4>5
    <3>5. QED  BY <3>2, <3>3, <3>4 DEF RightResults
  <2>4. CASE CallSequential(n)  BY <2>f, <2>4 DEF CallSequential
  <2>5. CASE CallSolve(n)
    <3>1. Combination(n, <<>>) = solution(n)
      BY <1>t, <2>5, Solutions DEF CallSolve, Elemental
    <3>2. QED  BY <2>f, <2>5, <3>1 DEF CallSolve
  <2>6. CASE CallDivide(n)
    <3>1. /\ partials' = [partials EXCEPT ![n] = [k \in 1 .. Len(children(n)) - 1 |-> NoResult]]
          /\ pc' = [pc EXCEPT ![n] = "launch"] /\ pc[n] = "call"
          /\ UNCHANGED <<next, division, result>>
      BY <2>6 DEF CallDivide
    <3>2. PartialsFunctions'
      <4>1. \A m \in Nodes : \/ partials'[m] = partials[m]
                             \/ partials'[m] = [k \in 1 .. Len(children(n)) - 1 |-> NoResult]
        BY <1>t, <3>1 DEF TypeOK
      <4>2. QED  BY <1>t, <2>1, <4>1 DEF PartialsFunctions
    <3>3. \A m \in Nodes : pc'[m] = "done" => pc[m] = "done"  BY <1>t, <3>1 DEF TypeOK
    <3>4. SameAsSequential'  BY <1>t, <2>1, <3>1, <3>3 DEF SameAsSequential
    <3>5. next[n] = 2  BY <1>t, <3>1 DEF CallPhase, Phase, Untouched
    <3>6. \A m \in Nodes : next[m] = 3 => partials'[m] = partials[m]
      BY <1>t, <3>1, <3>5 DEF TypeOK
    <3>7. SecondStored'
      BY <1>t, <2>1, <2>n, <3>1, <3>3, <3>6 DEF SecondStored
    <3>8. QED  BY <3>2, <3>4, <3>7 DEF RightResults
  <2>7. CASE Launch(n)
    <3> DEFINE x == children(n)[next[n]]
    <3>1. /\ x \in Nodes /\ x # n /\ next[n] = division[n] + 2
      BY <2>7, FreshNext DEF Launch
    <3>2. /\ pc' = [pc EXCEPT ![n] = "decrement", ![x] = "call"]
          /\ next' = [next EXCEPT ![n] = @ + 1] /\ division' = [division EXCEPT ![n] = @ + 1]
          /\ UNCHANGED <<result, partials>>
      BY <2>7 DEF Launch
    <3>3. next[n] = 2 => x = children(n)[2]  OBVIOUS
    <3> HIDE DEF x
    <3>4. /\ pc'[n] = "decrement" /\ pc'[x] = "call"
          /\ \A y \in Nodes : y # n /\ y # x => pc'[y] = pc[y]
          /\ next'[n] = next[n] + 1 /\ division'[n] = division[n] + 1
          /\ \A y \in Nodes : y # n => next'[y] = next[y] /\ division'[y] = division[y]
      BY <1>t, <3>1, <3>2 DEF TypeOK
    <3>5. \A m \in Nodes : pc'[m] = "done" => pc[m] = "done"  BY <3>4
    <3>6. \A m \in Nodes : Len(children(m)) = 2 /\ next'[m] = 3 =>
            \/ next[m] = 3 /\ division'[m] = division[m]
            \/ division'[m] = 1 /\ pc'[children(m)[2]] # "done"
      <4> SUFFICES ASSUME NEW m \in Nodes, Len(children(m)) = 2, next'[m] = 3
                   PROVE  \/ next[m] = 3 /\ division'[m] = division[m]
                          \/ division'[m] = 1 /\ pc'[children(m)[2]] # "done"
        OBVIOUS
      <4>1. CASE m # n  BY <3>4, <4>1
      <4>2. CASE m = n
        <5>1. next[n] \in Nat /\ division[n] \in Nat  BY <2>n
        <5>2. next[n] = 2  BY <3>4, <4>2, <5>1
        <5>3. division'[n] = 1  BY <3>1, <3>4, <5>1, <5>2
        <5>4. pc'[children(n)[2]] # "done"  BY <3>3, <3>4, <5>2
        <5>5. QED  BY <4>2, <5>3, <5>4
      <4>3. QED  BY <4>1, <4>2
    <3>7. QED  BY <2>2, <3>2, <3>5, <3>6
  <2>8. CASE Decrement(n) \/ LaunchEnd(n)
    <3>1. /\ \E l \in {"launch", "rest"} : pc' = [pc EXCEPT ![n] = l]
          /\ UNCHANGED <<next, division, partials, result>>
      BY <2>8 DEF Decrement, LaunchEnd
    <3>2. \A m \in Nodes : pc'[m] = "done" => pc[m] = "done"  BY <1>t, <3>1 DEF TypeOK
    <3>3. QED  BY <2>2, <3>1, <3>2
  <2>9. CASE Rest(n)
    <3>1. /\ partials' = [partials EXCEPT ![n][division[n] + 1] = solution(children(n)[next[n]])]
          /\ next' = [next EXCEPT ![n] = @ + 1] /\ next[n] <= Len(children(n))
          /\ UNCHANGED <<pc, division, result>>
      BY <2>9 DEF Rest
    <3> DEFINE l == Len(children(n))
    <3>2. next[n] = 2 /\ division[n] = 0 /\ l = 2
      <4>1. /\ next[n] \in Nat /\ division[n] \in Nat /\ l \in Nat /\ l <= 2
            /\ division[n] <= next[n] - 2 /\ next[n] >= 2 /\ next[n] <= l
        BY <2>n, <3>1
      <4> HIDE DEF l
      <4>2. QED  BY <4>1
    <3>3. DOMAIN partials[n] = 1 .. 1
      <4>1. Phase(n) /\ pc[n] = "rest"  BY <1>t, <2>9 DEF Rest, CallPhase
      <4>2. Divided(n)  BY <4>1 DEF Phase
      <4>3. QED  BY <3>2, <4>2 DEF Divided
    <3>4. /\ partials'[n] = [partials[n] EXCEPT ![1] = solution(children(n)[2])]
          /\ \A m \in Nodes : m # n => partials'[m] = partials[m] /\ next'[m] = next[m]
      BY <1>t, <3>1, <3>2 DEF TypeOK
    <3>5. partials'[n][1] = solution(children(n)[2])  BY <3>3, <3>4
    <3>6. PartialsFunctions'  BY <1>t, <2>1, <3>4 DEF PartialsFunctions
    <3>7. SameAsSequential'  BY <1>t, <2>1, <3>1 DEF SameAsSequential
    <3>8. SecondStored'  BY <1>t, <2>1, <3>1, <3>4, <3>5 DEF SecondStored
    <3>9. QED  BY <3>6, <3>7, <3>8 DEF RightResults
  <2>10. CASE First(n)
    <3> DEFINE x == children(n)[1]
    <3>1. x \in Nodes /\ x # n  BY <2>10, FreshFirst DEF First
    <3>2. /\ pc' = [pc EXCEPT ![n] = "first", ![x] = "call"]
          /\ UNCHANGED <<next, division, partials, result>>
      BY <2>10 DEF First
    <3> HIDE DEF x
    <3>3. \A m \in Nodes : pc'[m] = "done" => pc[m] = "done"  BY <1>t, <3>1, <3>2 DEF TypeOK
    <3>4. QED  BY <2>2, <3>2, <3>3
  <2>11. CASE FirstSequential(n)
    <3> DEFINE x == children(n)[1]
    <3>1. x \in Nodes /\ x # n /\ 1 \in DOMAIN children(n)
      BY <2>11, FreshFirst DEF FirstSequential
    <3>2. /\ pc' = [pc EXCEPT ![n] = "first", ![x] = "done"]
          /\ result' = [result EXCEPT ![x] = solution(x)]
          /\ UNCHANGED <<next, division, partials>>
      BY <2>11 DEF FirstSequential
    <3>a. \A m \in Nodes : Len(children(m)) = 2 => children(m)[2] # x
      BY <1>t, <3>1, Forest
    <3> HIDE DEF x
    <3>3. /\ \A m \in Nodes : m # x => (pc'[m] = "done" => pc[m] = "done")
          /\ \A m \in Nodes : m # x => result'[m] = result[m]
          /\ result'[x] = solution(x)
      BY <1>t, <3>1, <3>2 DEF TypeOK
    <3>4. PartialsFunctions'  BY <1>t, <2>1, <3>2 DEF PartialsFunctions
    <3>5. SameAsSequential'  BY <1>t, <2>1, <3>3 DEF SameAsSequential
    <3>6. SecondStored'  BY <1>t, <2>1, <2>n, <3>2, <3>3, <3>a DEF SecondStored
    <3>7. QED  BY <3>4, <3>5, <3>6 DEF RightResults
  <2>12. CASE Join(n)
    <3>1. Combination(n, <<result[children(n)[1]]>> \o partials[n]) = solution(n)
      BY <2>12, JoinRight
    <3>2. QED  BY <2>12, <2>f, <3>1 DEF Join
  <2>13. QED  BY <1>2, <2>4, <2>5, <2>6, <2>7, <2>8, <2>9, <2>10, <2>11, <2>12 DEF Step
<1>3. QED  BY StepCases, <1>1, <1>2

\* For problems divided in at most two, whatever threads are created and in whatever
\* order they run, every call returns what the sequential execution returns: a call
\* then has at most one subproblem left over, and its result its own element.
THEOREM BinaryRight == Binary /\ Spec => []SameAsSequential
<1> SUFFICES ASSUME Binary PROVE Spec => []SameAsSequential  OBVIOUS
<1>1. Init => RightResults
  <2> SUFFICES ASSUME Init PROVE RightResults  OBVIOUS
  <2>1. /\ \A n \in Nodes : pc[n] # "done" /\ next[n] = 2 /\ partials[n] = <<>>
    BY DEF Init, Nodes
  <2>2. <<>> = [k \in DOMAIN <<>> |-> <<>>[k]]  OBVIOUS
  <2>3. QED
    BY <2>1, <2>2 DEF RightResults, PartialsFunctions, SecondStored, SameAsSequential
<1>2. IInv /\ RightResults /\ [Next]_vars => RightResults'  BY NextRight
<1>3. RightResults => SameAsSequential  BY DEF RightResults
<1>4. QED  BY <1>1, <1>2, <1>3, Invariance, PTL DEF Spec

=============================================================================
