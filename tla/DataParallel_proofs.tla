-------------------------- MODULE DataParallel_proofs --------------------------
(***************************************************************************)
(* For every length of the input and every concurrency degree, the chunks  *)
(* of the data-parallel patterns partition the input, and what the call    *)
(* returns is what the sequential execution returns.                       *)
(***************************************************************************)
EXTENDS DataParallel, SequenceLemmas

\* A product of natural numbers is one.
LEMMA ProductType ==
  ASSUME NEW c \in Nat, NEW e \in Nat
  PROVE  c * e \in Nat
OBVIOUS

\* Multiplication by a number of elements keeps the order of chunk indices.
LEMMA ProductOrder ==
  ASSUME NEW c \in Nat, NEW i \in Nat, NEW j \in Nat, i < j
  PROVE  c * i + c <= c * j
<1> DEFINE e == j - i - 1
<1>1. e \in Nat  OBVIOUS
<1>2. c * e \in Nat  BY <1>1, ProductType
<1>3. j = i + 1 + e  OBVIOUS
<1> HIDE DEF e
<1>4. c * (i + 1 + e) = c * i + c + c * e  BY <1>1
<1> QED  BY <1>2, <1>3, <1>4, ProductType

\* What the integer division of the length by the degree means.
LEMMA ChunkSize ==
  ASSUME NEW n \in Nat, NEW d \in Nat \ {0}
  PROVE  n \div d \in Nat /\ (n \div d) * d <= n
OBVIOUS

\* Every position lies in a stretch of c positions that starts at a multiple of c.
LEMMA Quotient ==
  ASSUME NEW k \in Nat, NEW c \in Nat \ {0}
  PROVE  /\ k \div c \in Nat
         /\ c * (k \div c) <= k
         /\ k < c * (k \div c) + c
OBVIOUS

-----------------------------------------------------------------------------
(* The chunks of one call. *)

\* A call divides an input of some length into at least one chunk.
ConfType == /\ conf.size \in Nat
            /\ conf.degree \in Nat \ {0}

\* Type correctness gives the length and the degree their types.
LEMMA ConfTypeFact == TypeOK => ConfType
BY SizesAssumption, DegreesAssumption DEF TypeOK, ConfType

\* Every chunk lies within the input.
LEMMA ChunkWithin ==
  ASSUME ConfType, NEW i \in Chunks
  PROVE  /\ chunk_size \in Nat /\ Main \in Nat /\ Main \in Chunks
         /\ i \in Nat
         /\ delta(i) \in Nat /\ ChunkLen(i) \in Nat
         /\ delta(i) + ChunkLen(i) <= conf.size
<1> USE DEF ConfType
<1>1. chunk_size \in Nat /\ chunk_size * conf.degree <= conf.size
  BY ChunkSize DEF chunk_size
<1>2. Main \in Nat /\ Main \in Chunks /\ i \in Nat /\ i <= Main
  BY DEF Main, Chunks
<1>3. delta(i) \in Nat  BY <1>1, <1>2, ProductType DEF delta
<1>4. delta(i) + chunk_size <= conf.size
  <2>1. chunk_size * i + chunk_size <= chunk_size * conf.degree
    BY <1>1, <1>2, ProductOrder DEF Main
  <2>2. chunk_size * i \in Nat /\ chunk_size * conf.degree \in Nat
    BY <1>1, <1>2, ProductType
  <2>3. QED  BY <1>1, <2>1, <2>2 DEF delta
<1>5. QED  BY <1>1, <1>2, <1>3, <1>4 DEF ChunkLen

\* A chunk ends where the next begins, or before: no two chunks share an element.
LEMMA ChunksDisjoint ==
  ASSUME ConfType, NEW i \in Chunks, NEW j \in Chunks, i < j
  PROVE  delta(i) + ChunkLen(i) <= delta(j)
<1>1. /\ chunk_size \in Nat /\ i \in Nat /\ j \in Nat
  BY ChunkWithin
<1>2. i # Main  BY <1>1 DEF Chunks, Main, ConfType
<1>3. QED  BY <1>1, <1>2, ProductOrder DEF delta, ChunkLen

\* The chunks leave no element out.
LEMMA ChunksCover ==
  ASSUME ConfType, NEW k \in Positions
  PROVE  \E i \in Chunks : delta(i) <= k /\ k < delta(i) + ChunkLen(i)
<1>1. /\ chunk_size \in Nat /\ Main \in Nat /\ Main \in Chunks
      /\ delta(Main) \in Nat /\ ChunkLen(Main) = conf.size - delta(Main)
  <2>1. Main \in Chunks  BY DEF Main, Chunks, ConfType
  <2>2. QED  BY <2>1, ChunkWithin DEF ChunkLen
<1>2. k \in Nat /\ k < conf.size /\ conf.size \in Nat
  BY DEF Positions, ConfType
<1>3. CASE delta(Main) <= k  BY <1>1, <1>2, <1>3
<1>4. CASE k < delta(Main)
  <2>1. chunk_size # 0  BY <1>1, <1>2, <1>4 DEF delta
  <2> DEFINE i == k \div chunk_size
  <2>2. i \in Nat /\ chunk_size * i <= k /\ k < chunk_size * i + chunk_size
    BY <1>1, <1>2, <2>1, Quotient
  <2> HIDE DEF i
  <2>3. i < Main
    <3>1. SUFFICES ASSUME Main <= i PROVE FALSE  BY <1>1, <2>2
    <3>2. CASE Main = i  BY <1>1, <1>2, <1>4, <2>2, <3>2 DEF delta
    <3>3. CASE Main < i
      <4>1. chunk_size * Main + chunk_size <= chunk_size * i
        BY <1>1, <2>2, <3>3, ProductOrder
      <4>2. chunk_size * i \in Nat  BY <1>1, <2>2, ProductType
      <4>3. QED  BY <1>1, <1>2, <1>4, <2>2, <4>1, <4>2 DEF delta
    <3>4. QED  BY <1>1, <2>2, <3>1, <3>2, <3>3
  <2>4. i \in Chunks  BY <1>1, <2>2, <2>3 DEF Main, Chunks, ConfType
  <2>5. QED  BY <2>2, <2>3, <2>4 DEF delta, ChunkLen
<1>5. QED  BY <1>1, <1>2, <1>3, <1>4

-----------------------------------------------------------------------------
(* The combination of the chunks. *)

\* Reducing with concatenation concatenates.
LEMMA ReduceConcat ==
  ASSUME NEW S, NEW base \in Seq(S), NEW s \in Seq(Seq(S))
  PROVE  SeqReduce(base, s) = base \o FlattenSeq(s)
BY FoldConcat DEF SeqReduce

\* Reducing a sequence of sequences from the identity.
LEMMA ReduceIdentity ==
  ASSUME NEW S, NEW s \in Seq(Seq(S))
  PROVE  SeqReduce(Identity, s) = FlattenSeq(s)
<1> DEFINE f == FlattenSeq(s)
<1>1. f \in Seq(S)  BY FlattenType
<1>2. Identity \in Seq(S)  BY DEF Identity
<1>3. SeqReduce(Identity, s) = Identity \o f  BY <1>2, ReduceConcat
<1> HIDE DEF f
<1>4. <<>> \o f = f  BY <1>1, ConcatEmpty
<1> QED  BY <1>3, <1>4 DEF f, Identity

\* Stretches of the input that follow on each other.
LEMMA ElementsConcat ==
  ASSUME NEW a \in Nat, NEW m \in Nat, NEW n \in Nat
  PROVE  /\ Elements(a, m) \in Seq(Seq(Nat)) /\ Elements(a + m, n) \in Seq(Seq(Nat))
         /\ Elements(a, m + n) = Elements(a, m) \o Elements(a + m, n)
<1> DEFINE e(j) == <<Image(a + j - 1)>>
           Q == Seq(Nat)
<1>1. \A j \in 1 .. m + n : e(j) \in Q  BY DEF Image
<1>2. \A j \in 1 .. n : e(m + j) = <<Image((a + m) + j - 1)>> /\ m + j \in 1 .. m + n
  <2> TAKE j \in 1 .. n
  <2>1. a + (m + j) - 1 = (a + m) + j - 1  OBVIOUS
  <2> QED  BY <2>1
<1>3. Elements(a, m + n) = [j \in 1 .. m + n |-> e(j)] /\ Elements(a, m) = [j \in 1 .. m |-> e(j)]
  BY DEF Elements
<1>4. Elements(a + m, n) = [j \in 1 .. n |-> e(m + j)]  BY <1>2 DEF Elements
<1> HIDE DEF e, Q
<1> DEFINE s == [j \in 1 .. m |-> e(j)]
           t == [j \in 1 .. n |-> e(m + j)]
           u == [j \in 1 .. m + n |-> e(j)]
           c == s \o t
<1>5. /\ s \in Seq(Q) /\ Len(s) = m /\ \A j \in 1 .. m : s[j] = e(j)
      /\ t \in Seq(Q) /\ Len(t) = n /\ \A j \in 1 .. n : t[j] = e(m + j)
      /\ u \in Seq(Q) /\ Len(u) = m + n /\ \A j \in 1 .. m + n : u[j] = e(j)
  BY <1>1, <1>2
<1> HIDE DEF s, t, u
<1>6. /\ c \in Seq(Q) /\ Len(c) = Len(s) + Len(t)
      /\ \A j \in 1 .. Len(s) : c[j] = s[j]
      /\ \A j \in 1 .. Len(t) : c[Len(s) + j] = t[j]
  <2>1. s \in Seq(Q) /\ t \in Seq(Q)  BY <1>5
  <2> QED  BY ONLY <2>1, ConcatElements
<1> HIDE DEF c
<1>7. ASSUME NEW j \in 1 .. m + n PROVE u[j] = c[j]
  <2>1. CASE j \in 1 .. m  BY <1>5, <1>6, <2>1
  <2>2. CASE j \notin 1 .. m
    <3> DEFINE i == j - m
    <3>1. i \in 1 .. n /\ j = m + i  BY <2>2
    <3> HIDE DEF i
    <3> QED  BY <1>5, <1>6, <3>1
  <2> QED  BY <2>1, <2>2
<1>8. u = c  BY <1>5, <1>6, <1>7, SameElements
<1> QED  BY <1>3, <1>4, <1>5, <1>8 DEF s, t, u, c, Q

\* What the sequential execution returns for a stretch of the input.
Combination(a, n) == FlattenSeq(Elements(a, n))

\* It is what it returns for a first part of the stretch and for the rest.
LEMMA CombinationConcat ==
  ASSUME NEW a \in Nat, NEW m \in Nat, NEW n \in Nat
  PROVE  /\ Combination(a, m) \in Seq(Nat) /\ Combination(a + m, n) \in Seq(Nat)
         /\ Combination(a, m + n) = Combination(a, m) \o Combination(a + m, n)
         /\ SeqReduce(Identity, Elements(a, m)) = Combination(a, m)
<1> DEFINE s == Elements(a, m)
           t == Elements(a + m, n)
<1>1. s \in Seq(Seq(Nat)) /\ t \in Seq(Seq(Nat)) /\ Elements(a, m + n) = s \o t
  BY ElementsConcat
<1> HIDE DEF s, t
<1>2. FlattenSeq(s) \in Seq(Nat) /\ FlattenSeq(t) \in Seq(Nat)  BY <1>1, FlattenType
<1>3. FlattenSeq(s \o t) = FlattenSeq(s) \o FlattenSeq(t)  BY <1>1, FlattenConcat
<1>4. SeqReduce(Identity, s) = FlattenSeq(s)  BY <1>1, ReduceIdentity
<1> QED  BY <1>1, <1>2, <1>3, <1>4 DEF Combination, s, t

\* The partial results of the first k chunks, when these are finished.
Partials(k) == [j \in 1 .. k |-> partial_results[j - 1]]
PartialsKnown == \A i \in Chunks : partial_results[i] = Combination(delta(i), ChunkLen(i))

\* One more partial result.
LEMMA PartialsStep ==
  ASSUME ConfType, PartialsKnown, NEW k \in Chunks
  PROVE  /\ k \in Nat
         /\ Partials(k) \in Seq(Seq(Nat)) /\ partial_results[k] \in Seq(Nat)
         /\ Partials(k + 1) = Append(Partials(k), partial_results[k])
<1> DEFINE Q == Seq(Nat)
           p(j) == partial_results[j - 1]
<1>1. k \in Nat  BY DEF Chunks, ConfType
<1>2. \A i \in Chunks : partial_results[i] \in Q
  <2> TAKE i \in Chunks
  <2>1. delta(i) \in Nat /\ ChunkLen(i) \in Nat  BY ChunkWithin
  <2>2. Combination(delta(i), ChunkLen(i)) \in Q  BY <2>1, CombinationConcat
  <2> QED  BY <2>2 DEF PartialsKnown
<1>3. \A j \in 1 .. k + 1 : p(j) \in Q
  <2> TAKE j \in 1 .. k + 1
  <2>1. j - 1 \in Chunks  BY DEF Chunks, ConfType
  <2> QED  BY <1>2, <2>1
<1>4. p(k + 1) = partial_results[k]
  <2>1. (k + 1) - 1 = k  BY <1>1
  <2> QED  BY <2>1
<1> HIDE DEF p, Q
<1>5. /\ [j \in 1 .. k |-> p(j)] \in Seq(Q)
      /\ [j \in 1 .. k + 1 |-> p(j)] = Append([j \in 1 .. k |-> p(j)], p(k + 1))
  BY <1>1, <1>3
<1> QED  BY <1>1, <1>2, <1>4, <1>5 DEF Partials, p, Q

\* Concatenating one more partial result.
LEMMA PartialsFlatten ==
  ASSUME ConfType, PartialsKnown, NEW k \in Chunks
  PROVE  FlattenSeq(Partials(k + 1)) = FlattenSeq(Partials(k)) \o partial_results[k]
<1> DEFINE r == Partials(k)
           x == partial_results[k]
<1>1. r \in Seq(Seq(Nat)) /\ x \in Seq(Nat) /\ Partials(k + 1) = Append(r, x)
  BY PartialsStep
<1> HIDE DEF r, x
<1>2. FlattenSeq(Append(r, x)) = FlattenSeq(r) \o x  BY <1>1, FlattenAppend
<1> QED  BY <1>1, <1>2 DEF r, x

\* The chunks before k combine to the elements before the first of chunk k.
LEMMA FirstChunks ==
  ASSUME ConfType, PartialsKnown
  PROVE  \A k \in Chunks : FlattenSeq(Partials(k)) = Combination(0, delta(k))
<1> DEFINE D == {k \in Nat : k \in Chunks => FlattenSeq(Partials(k)) = Combination(0, delta(k))}
<1>0. chunk_size \in Nat /\ Main \in Nat /\ Main \in Chunks
  <2>1. Main \in Chunks  BY DEF Main, Chunks, ConfType
  <2> QED  BY <2>1, ChunkWithin
<1>1. 0 \in D
  <2>1. Partials(0) = <<>> /\ Elements(0, 0) = <<>>  BY DEF Partials, Elements
  <2>2. delta(0) = 0  BY <1>0 DEF delta
  <2>3. FlattenSeq(Partials(0)) = Combination(0, delta(0))
    BY <2>1, <2>2, FlattenEmpty DEF Combination
  <2> QED  BY <2>3
<1>2. ASSUME NEW k \in Nat, k \in D PROVE k + 1 \in D
  <2> SUFFICES ASSUME k + 1 \in Chunks
               PROVE  FlattenSeq(Partials(k + 1)) = Combination(0, delta(k + 1))
    OBVIOUS
  <2>1. k \in Chunks /\ k # Main  BY DEF Chunks, ConfType, Main
  <2>2. FlattenSeq(Partials(k)) = Combination(0, delta(k))  BY <1>2, <2>1
  <2>3. partial_results[k] = Combination(delta(k), chunk_size)
    BY <2>1 DEF PartialsKnown, ChunkLen
  <2>4. delta(k) \in Nat /\ 0 + delta(k) = delta(k)  BY <2>1, ChunkWithin
  <2>5. delta(k + 1) = delta(k) + chunk_size  BY <1>0 DEF delta
  <2> DEFINE d == delta(k)
             e == chunk_size
  <2>6. Combination(0, d + e) = Combination(0, d) \o Combination(0 + d, e)
    <3>1. 0 \in Nat /\ d \in Nat /\ e \in Nat  BY <1>0, <2>4
    <3> HIDE DEF d, e
    <3> QED  BY <3>1, CombinationConcat
  <2>7. FlattenSeq(Partials(k + 1)) = FlattenSeq(Partials(k)) \o partial_results[k]
    BY <2>1, PartialsFlatten
  <2> QED  BY <2>2, <2>3, <2>4, <2>5, <2>6, <2>7
<1> HIDE DEF D
<1>3. Nat \subseteq D  BY <1>1, <1>2, SetInduction
<1>4. \A k \in Chunks : k \in Nat  BY DEF Chunks, ConfType
<1> QED  BY <1>3, <1>4 DEF D

\* All chunks combine to the whole of the input.
LEMMA AllChunks ==
  ASSUME ConfType, PartialsKnown
  PROVE  FlattenSeq(Partials(conf.degree)) = Combination(0, conf.size)
<1>1. Main \in Chunks /\ conf.degree = Main + 1  BY DEF Main, Chunks, ConfType
<1> DEFINE d == delta(Main)
           e == ChunkLen(Main)
<1>2. d \in Nat /\ e \in Nat /\ 0 + d = d /\ d + e = conf.size
  <2>1. d \in Nat /\ e \in Nat  BY <1>1, ChunkWithin
  <2>2. e = conf.size - d  BY DEF ChunkLen
  <2> HIDE DEF d, e
  <2> QED  BY <2>1, <2>2 DEF ConfType
<1>3. FlattenSeq(Partials(Main)) = Combination(0, d)  BY <1>1, FirstChunks
<1>4. partial_results[Main] = Combination(d, e)  BY <1>1 DEF PartialsKnown
<1> HIDE DEF d, e
<1>5. Combination(0, d + e) = Combination(0, d) \o Combination(0 + d, e)
  BY <1>2, CombinationConcat
<1>6. FlattenSeq(Partials(Main + 1)) = FlattenSeq(Partials(Main)) \o partial_results[Main]
  BY <1>1, PartialsFlatten
<1> QED  BY <1>1, <1>2, <1>3, <1>4, <1>5, <1>6

\* What reduce and map_reduce return when all chunks are finished.
LEMMA CombinedAll ==
  ASSUME ConfType, PartialsKnown, conf.call \in ChunkedCalls, ~Elementwise
  PROVE  Combined = SeqReduce(Identity, Elements(0, conf.size))
<1>1. conf.call.pattern \in {"reduce", "map_reduce"}
  BY DEF ChunkedCalls, Elementwise, NativeMap, NativeReduce, NativeMapReduce, NativeStencil,
         OmpReduce, OmpMapReduce, OmpStencil, TbbMapReduce, TbbStencil
<1>2. SeqReduce(Identity, Elements(0, conf.size)) = Combination(0, conf.size)
  BY CombinationConcat DEF ConfType
<1>3. FlattenSeq(Partials(conf.degree)) = Combination(0, conf.size)  BY AllChunks
<1>4. Main \in Chunks /\ conf.degree = Main + 1 /\ Main \in Nat /\ 0 \in Chunks
  BY DEF Main, Chunks, ConfType
<1>5. Partials(conf.degree) \in Seq(Seq(Nat))
  <2>1. Partials(Main) \in Seq(Seq(Nat)) /\ partial_results[Main] \in Seq(Nat)
        /\ Partials(Main + 1) = Append(Partials(Main), partial_results[Main])
    BY <1>4, PartialsStep
  <2> DEFINE Q == Seq(Nat)
             r == Partials(Main)
             x == partial_results[Main]
  <2>2. r \in Seq(Q) /\ x \in Q  BY <2>1
  <2> HIDE DEF Q, r, x
  <2>3. Append(r, x) \in Seq(Q)  BY <2>2
  <2> QED  BY <1>4, <2>1, <2>3 DEF Q, r, x
<1>6. CASE conf.call.pattern = "map_reduce"
  <2>1. Combined = SeqReduce(Identity, Partials(conf.degree))
    BY <1>6 DEF Combined, Partials
  <2> DEFINE r == Partials(conf.degree)
  <2>2. r \in Seq(Seq(Nat))  BY <1>5
  <2> HIDE DEF r
  <2>3. SeqReduce(Identity, r) = FlattenSeq(r)  BY <2>2, ReduceIdentity
  <2> QED  BY <1>2, <1>3, <2>1, <2>3 DEF r
<1>7. CASE conf.call.pattern = "reduce"
  <2> DEFINE p == partial_results[0]
             r == [i \in 1 .. Main |-> partial_results[i]]
             w == Partials(conf.degree)
  <2>1. Combined = SeqReduce(p, r)  BY <1>7 DEF Combined
  <2>2. \A i \in Chunks : partial_results[i] \in Seq(Nat)  BY PartialsStep
  <2>3. p \in Seq(Nat) /\ r \in Seq(Seq(Nat)) /\ Len(r) = Main /\ <<p>> \in Seq(Seq(Nat))
    <3> DEFINE Q == Seq(Nat)
               v(i) == partial_results[i]
    <3>1. p \in Q /\ \A i \in 1 .. Main : v(i) \in Q  BY <1>4, <2>2 DEF Chunks, Main
    <3> HIDE DEF Q, v, p
    <3>2. [i \in 1 .. Main |-> v(i)] \in Seq(Q) /\ Len([i \in 1 .. Main |-> v(i)]) = Main
      BY <1>4, <3>1
    <3>3. <<p>> \in Seq(Q)  BY <3>1
    <3> QED  BY <3>1, <3>2, <3>3 DEF Q, v
  <2>4. w = <<p>> \o r
    <3> DEFINE Q == Seq(Nat)
               c == <<p>> \o r
    <3>1. w = [j \in 1 .. Main + 1 |-> partial_results[j - 1]]  BY <1>4 DEF Partials
    <3>2. w \in Seq(Q) /\ Len(w) = Main + 1  BY <1>4, <1>5, <3>1
    <3>3. r \in Seq(Q) /\ <<p>> \in Seq(Q) /\ Len(<<p>>) = 1 /\ <<p>>[1] = p  BY <2>3
    <3>4. \A j \in 1 .. Main : r[j] = partial_results[j]  OBVIOUS
    <3>5. w[1] = p /\ \A j \in 1 .. Main : w[1 + j] = partial_results[j]
      <4>1. w[1] = p
        <5>1. 1 \in 1 .. Main + 1 /\ 1 - 1 = 0  BY <1>4
        <5> HIDE DEF w
        <5> QED  BY <3>1, <5>1
      <4>2. ASSUME NEW j \in 1 .. Main PROVE w[1 + j] = partial_results[j]
        <5>1. 1 + j \in 1 .. Main + 1 /\ (1 + j) - 1 = j  BY <1>4
        <5> HIDE DEF w
        <5> QED  BY <3>1, <5>1
      <4> QED  BY <4>1, <4>2
    <3> DEFINE one == <<p>>
    <3>6. one \in Seq(Q) /\ Len(one) = 1 /\ one[1] = p  BY <3>3
    <3> HIDE DEF Q, p, r, w, one
    <3> DEFINE z == one \o r
    <3>7. /\ z \in Seq(Q) /\ Len(z) = Len(one) + Len(r)
          /\ \A j \in 1 .. Len(one) : z[j] = one[j]
          /\ \A j \in 1 .. Len(r) : z[Len(one) + j] = r[j]
      <4>1. one \in Seq(Q) /\ r \in Seq(Q)  BY <3>3, <3>6
      <4> QED  BY ONLY <4>1, ConcatElements
    <3> HIDE DEF z
    <3>8. Len(r) = Main  BY <2>3
    <3>9. ASSUME NEW j \in 1 .. Main + 1 PROVE w[j] = z[j]
      <4>1. CASE j = 1  BY <3>5, <3>6, <3>7, <4>1
      <4>2. CASE j # 1
        <5> DEFINE i == j - 1
        <5>1. i \in 1 .. Main /\ j = 1 + i  BY <1>4, <4>2
        <5> HIDE DEF i
        <5>2. z[1 + i] = r[i]  BY <3>6, <3>7, <3>8, <5>1
        <5>3. w[1 + i] = partial_results[i]  BY <3>5, <5>1
        <5> QED  BY <3>4, <5>1, <5>2, <5>3
      <4> QED  BY <4>1, <4>2
    <3>10. Len(z) = Main + 1  BY <1>4, <3>6, <3>7, <3>8
    <3>11. w = z  BY <3>2, <3>7, <3>9, <3>10, SameElements
    <3> QED  BY <3>11 DEF z, one
  <2> DEFINE one == <<p>>
  <2>5. one \in Seq(Seq(Nat)) /\ r \in Seq(Seq(Nat)) /\ p \in Seq(Nat)  BY <2>3
  <2>6. FlattenSeq(one) = p  BY FlattenOne
  <2> HIDE DEF p, r, w, one
  <2>7. FlattenSeq(one \o r) = FlattenSeq(one) \o FlattenSeq(r)  BY <2>5, FlattenConcat
  <2>8. SeqReduce(p, r) = p \o FlattenSeq(r)  BY <2>5, ReduceConcat
  <2> QED  BY <1>2, <1>3, <2>1, <2>4, <2>6, <2>7, <2>8 DEF w, one
<1> QED  BY <1>1, <1>6, <1>7

-----------------------------------------------------------------------------
(* Type correctness. *)

\* A call that has just begun has processed nothing.
LEMMA InitIInv == Init => IInv
<1> SUFFICES ASSUME Init PROVE IInv  OBVIOUS
<1>1. PICK c \in Calls, n \in Sizes, d \in Degrees :
        /\ conf = [call |-> c, size |-> n, degree |-> d]
        /\ partial_results = [i \in 0 .. d - 1 |-> Identity]
        /\ pc = "launch"
        /\ launched = 0
        /\ work = [i \in 0 .. d - 1 |-> "none"]
        /\ done = [i \in 0 .. d - 1 |-> 0]
        /\ out = [k \in 0 .. n - 1 |-> 0]
        /\ handled = [k \in 0 .. n - 1 |-> 0]
  BY DEF Init
<1>2. conf.size = n /\ conf.degree = d  BY <1>1
<1>3. ConfType  BY <1>2, SizesAssumption, DegreesAssumption DEF ConfType
<1>4. TypeOK
  <2>1. \A i \in Chunks : done[i] <= ChunkLen(i) /\ delta(i) + ChunkLen(i) <= conf.size
    BY <1>1, <1>2, <1>3, ChunkWithin DEF Chunks
  <2>2. launched \in 0 .. Main  BY <1>1, <1>3 DEF Main, ConfType
  <2>3. QED  BY <1>1, <1>2, <1>3, <2>1, <2>2 DEF TypeOK, Chunks, Positions, ConfType
<1>5. \A k \in Positions : ~Processed(k)
  <2> SUFFICES ASSUME NEW k \in Positions, NEW i \in Chunks,
                      delta(i) <= k, k < delta(i) + done[i]
               PROVE  FALSE
    BY DEF Processed
  <2>1. done[i] = 0  BY <1>1, <1>2 DEF Chunks
  <2>2. delta(i) \in Nat  BY <1>3, ChunkWithin
  <2>3. k \in Nat  BY <1>3 DEF Positions, ConfType
  <2>4. QED  BY <2>1, <2>2, <2>3
<1>6. ResultsCombined
  BY <1>1, <1>2 DEF ResultsCombined, Chunks
<1>7. QED
  BY <1>1, <1>2, <1>4, <1>5, <1>6
  DEF IInv, HandledOnce, WrittenWhenProcessed, ChunksFinished, Chunks, Positions

\* A step of the caller processes no element.
CallerStep == Launch \/ OwnChunk \/ Return \/ Returned

\* A step is one of the caller, or it processes an element or ends a chunk.
LEMMA StepCases ==
  ASSUME [Next]_vars
  PROVE  UNCHANGED vars \/ CallerStep \/ \E i \in Chunks : Element(i) \/ ChunkEnd(i)
BY DEF Next, CallerStep

\* Processing an element of a chunk stays within the chunk and the input.
LEMMA ElementPlace ==
  ASSUME IInv, NEW i \in Chunks, Element(i)
  PROVE  /\ delta(i) + done[i] \in Positions
         /\ delta(i) \in Nat /\ done[i] \in Nat /\ ChunkLen(i) \in Nat
         /\ done[i] < ChunkLen(i)
<1>1. TypeOK /\ ConfType  BY ConfTypeFact DEF IInv
<1>2. done[i] \in Nat  BY <1>1 DEF TypeOK
<1>3. done[i] < ChunkLen(i)  BY DEF Element
<1>4. QED  BY <1>1, <1>2, <1>3, ChunkWithin DEF Positions, ConfType

\* The loops over a chunk end where the chunk ends.
LEMMA NextType ==
  ASSUME IInv, [Next]_vars
  PROVE  TypeOK'
<1> USE DEF IInv
<1>1. TypeOK /\ ConfType  BY ConfTypeFact
<1>2. CASE UNCHANGED vars
  BY <1>1, <1>2 DEF TypeOK, vars, Chunks, Main, Positions, delta, chunk_size, ChunkLen
<1>3. CASE CallerStep
  <2>1. conf' = conf /\ done' = done /\ out' = out /\ handled' = handled
    BY <1>3 DEF CallerStep, Launch, OwnChunk, Return, Returned, vars
  <2>2. /\ pc' \in {"launch", "own", "returned"}
        /\ work' \in [Chunks -> {"none", "running", "done"}]
    BY <1>1, <1>3 DEF TypeOK, CallerStep, Launch, OwnChunk, Return, Returned, vars
  <2>3. launched' \in 0 .. Main
    BY <1>1, <1>3, ChunkWithin
    DEF TypeOK, CallerStep, Launch, OwnChunk, Return, Returned, vars, Main, ConfType
  <2>4. QED
    BY <1>1, <2>1, <2>2, <2>3
    DEF TypeOK, Chunks, Main, Positions, delta, chunk_size, ChunkLen
<1>4. ASSUME NEW i \in Chunks, Element(i) PROVE TypeOK'
  <2>1. UNCHANGED <<conf, pc, launched, work>>  BY <1>4 DEF Element
  <2>2. /\ delta(i) + done[i] \in Positions /\ done[i] \in Nat
        /\ ChunkLen(i) \in Nat /\ done[i] < ChunkLen(i)
    BY <1>4, ElementPlace
  <2>3. /\ done' \in [Chunks -> Nat]
        /\ \A j \in Chunks : done'[j] <= ChunkLen(j)
    BY <1>1, <1>4, <2>2 DEF TypeOK, Element
  <2>4. handled' \in [Positions -> Nat]  BY <1>1, <1>4, <2>2 DEF TypeOK, Element
  <2>5. out' \in [Positions -> 0 .. conf.size]
    <3>1. Image(delta(i) + done[i]) \in 0 .. conf.size
      BY <1>1, <2>2 DEF Image, Positions, ConfType
    <3>2. QED  BY <1>1, <1>4, <2>2, <3>1 DEF TypeOK, Element
  <2>6. QED
    BY <1>1, <2>1, <2>3, <2>4, <2>5
    DEF TypeOK, Chunks, Main, Positions, delta, chunk_size, ChunkLen
<1>5. ASSUME NEW i \in Chunks, ChunkEnd(i) PROVE TypeOK'
  <2>1. UNCHANGED <<conf, pc, launched, done, out, handled>>  BY <1>5 DEF ChunkEnd
  <2>2. work' \in [Chunks -> {"none", "running", "done"}]
    BY <1>1, <1>5 DEF TypeOK, ChunkEnd
  <2>3. QED
    BY <1>1, <2>1, <2>2
    DEF TypeOK, Chunks, Main, Positions, delta, chunk_size, ChunkLen
<1>6. QED  BY StepCases, <1>2, <1>3, <1>4, <1>5

\* A step that processes no element leaves what has been processed as it is.
LEMMA QuietProcessed ==
  ASSUME conf' = conf, done' = done, NEW k
  PROVE  Processed(k)' <=> Processed(k)
BY DEF Processed, Chunks, delta, chunk_size

\* The element a step processes is one that no chunk has processed before; it is
\* the only one the step adds.
LEMMA ElementProcessed ==
  ASSUME IInv, NEW i \in Chunks, Element(i)
  PROVE  LET p == delta(i) + done[i]
         IN /\ ~Processed(p)
            /\ \A k \in Positions : Processed(k)' <=> (Processed(k) \/ k = p)
<1> DEFINE p == delta(i) + done[i]
<1>1. TypeOK /\ ConfType  BY ConfTypeFact DEF IInv
<1>2. /\ p \in Positions /\ delta(i) \in Nat /\ done[i] \in Nat
      /\ ChunkLen(i) \in Nat /\ done[i] < ChunkLen(i)
  BY ElementPlace
<1>3. \A j \in Chunks : /\ j \in Nat /\ delta(j) \in Nat /\ ChunkLen(j) \in Nat
                         /\ done[j] \in Nat /\ done[j] <= ChunkLen(j)
  BY <1>1, ChunkWithin DEF TypeOK
<1>4. ~Processed(p)
  <2> SUFFICES ASSUME NEW j \in Chunks, delta(j) <= p, p < delta(j) + done[j]
               PROVE  FALSE
    BY DEF Processed
  <2>1. j # i  BY <1>2
  <2>2. CASE j < i
    <3>1. delta(j) + ChunkLen(j) <= delta(i)  BY <1>1, <2>2, ChunksDisjoint
    <3>2. QED  BY <1>2, <1>3, <3>1
  <2>3. CASE i < j
    <3>1. delta(i) + ChunkLen(i) <= delta(j)  BY <1>1, <2>3, ChunksDisjoint
    <3>2. QED  BY <1>2, <1>3, <3>1
  <2>4. QED  BY <1>3, <2>1, <2>2, <2>3
<1>5. ASSUME NEW k \in Positions
      PROVE  Processed(k)' <=> (Processed(k) \/ k = p)
  <2>1. conf' = conf /\ done' = [done EXCEPT ![i] = @ + 1]  BY DEF Element
  <2>2. k \in Nat  BY <1>1 DEF Positions, ConfType
  <2>3. \A j \in Chunks : done'[j] = IF j = i THEN done[i] + 1 ELSE done[j]
    BY <1>1, <2>1 DEF TypeOK
  <2>4. Processed(k)' <=> \E j \in Chunks : delta(j) <= k /\ k < delta(j) + done'[j]
    BY <2>1 DEF Processed, Chunks, delta, chunk_size
  <2>5. ASSUME Processed(k)' PROVE Processed(k) \/ k = p
    <3>1. PICK j \in Chunks : delta(j) <= k /\ k < delta(j) + done'[j]
      BY <2>4, <2>5
    <3>2. CASE j # i  BY <2>3, <3>1, <3>2 DEF Processed
    <3>3. CASE j = i
      <4>1. delta(i) <= k /\ k < delta(i) + done[i] + 1  BY <1>2, <2>3, <3>1, <3>3
      <4>2. k = p \/ k < delta(i) + done[i]  BY <1>2, <2>2, <4>1
      <4>3. QED  BY <4>1, <4>2 DEF Processed
    <3>4. QED  BY <3>2, <3>3
  <2>6. ASSUME Processed(k) PROVE Processed(k)'
    <3>1. PICK j \in Chunks : delta(j) <= k /\ k < delta(j) + done[j]
      BY <2>6 DEF Processed
    <3>2. k < delta(j) + done'[j]  BY <1>2, <1>3, <2>2, <2>3, <3>1
    <3>3. QED  BY <2>4, <3>1, <3>2
  <2>7. ASSUME k = p PROVE Processed(k)'
    <3>1. delta(i) <= k /\ k < delta(i) + done'[i]  BY <1>2, <2>3, <2>7
    <3>2. QED  BY <2>4, <3>1
  <2>8. QED  BY <2>5, <2>6, <2>7
<1>6. QED  BY <1>4, <1>5

\* No element is processed a second time.
LEMMA NextHandledOnce ==
  ASSUME IInv, [Next]_vars
  PROVE  HandledOnce'
<1>1. TypeOK /\ ConfType /\ HandledOnce  BY ConfTypeFact DEF IInv
<1>2. ASSUME conf' = conf, done' = done, handled' = handled PROVE HandledOnce'
  BY <1>1, <1>2, QuietProcessed DEF HandledOnce, Positions
<1>3. CASE UNCHANGED vars  BY <1>2, <1>3 DEF vars
<1>4. CASE CallerStep
  BY <1>2, <1>4 DEF CallerStep, Launch, OwnChunk, Return, Returned, vars
<1>5. ASSUME NEW i \in Chunks, Element(i) PROVE HandledOnce'
  <2> DEFINE p == delta(i) + done[i]
  <2>1. p \in Positions  BY <1>5, ElementPlace
  <2>2. ~Processed(p) /\ \A k \in Positions : Processed(k)' <=> (Processed(k) \/ k = p)
    BY <1>5, ElementProcessed
  <2>3. conf' = conf /\ handled' = [handled EXCEPT ![p] = @ + 1]
    BY <1>5 DEF Element
  <2> HIDE DEF p
  <2>4. \A k \in Positions : handled'[k] = IF k = p THEN handled[k] + 1 ELSE handled[k]
    BY <1>1, <2>1, <2>3 DEF TypeOK
  <2>5. \A k \in Positions : handled'[k] = IF Processed(k)' THEN 1 ELSE 0
    BY <1>1, <2>1, <2>2, <2>4 DEF HandledOnce
  <2>6. QED  BY <2>3, <2>5 DEF HandledOnce, Positions
<1>6. ASSUME NEW i \in Chunks, ChunkEnd(i) PROVE HandledOnce'
  BY <1>2, <1>6 DEF ChunkEnd
<1>7. QED  BY StepCases, <1>3, <1>4, <1>5, <1>6

\* A processed element of map or stencil has its image in the output.
LEMMA NextWritten ==
  ASSUME IInv, [Next]_vars
  PROVE  WrittenWhenProcessed'
<1>1. TypeOK /\ ConfType /\ WrittenWhenProcessed  BY ConfTypeFact DEF IInv
<1>2. ASSUME conf' = conf, done' = done, out' = out PROVE WrittenWhenProcessed'
  BY <1>1, <1>2, QuietProcessed DEF WrittenWhenProcessed, Positions, Elementwise
<1>3. CASE UNCHANGED vars  BY <1>2, <1>3 DEF vars
<1>4. CASE CallerStep
  BY <1>2, <1>4 DEF CallerStep, Launch, OwnChunk, Return, Returned, vars
<1>5. ASSUME NEW i \in Chunks, Element(i) PROVE WrittenWhenProcessed'
  <2> DEFINE p == delta(i) + done[i]
  <2>1. p \in Positions  BY <1>5, ElementPlace
  <2>2. \A k \in Positions : Processed(k)' <=> (Processed(k) \/ k = p)
    BY <1>5, ElementProcessed
  <2>3. conf' = conf /\ (Elementwise => out' = [out EXCEPT ![p] = Image(p)])
    BY <1>5 DEF Element
  <2> HIDE DEF p
  <2>4. Elementwise =>
          \A k \in Positions : out'[k] = IF k = p THEN Image(k) ELSE out[k]
    BY <1>1, <2>1, <2>3 DEF TypeOK
  <2>5. Elementwise => \A k \in Positions : Processed(k)' => out'[k] = Image(k)
    BY <1>1, <2>2, <2>4 DEF WrittenWhenProcessed
  <2>6. QED  BY <2>3, <2>5 DEF WrittenWhenProcessed, Positions, Elementwise
<1>6. ASSUME NEW i \in Chunks, ChunkEnd(i) PROVE WrittenWhenProcessed'
  BY <1>2, <1>6 DEF ChunkEnd
<1>7. QED  BY StepCases, <1>3, <1>4, <1>5, <1>6

\* The call returns only when all its chunks are finished.
LEMMA NextFinished ==
  ASSUME IInv, [Next]_vars
  PROVE  ChunksFinished'
<1>1. TypeOK /\ ChunksFinished  BY DEF IInv
<1>2. ASSUME conf' = conf
      PROVE  Chunks' = Chunks /\ \A i : ChunkLen(i)' = ChunkLen(i)
  BY <1>2 DEF Chunks, ChunkLen, Main, delta, chunk_size
<1>3. CASE UNCHANGED vars  BY <1>1, <1>2, <1>3 DEF vars, ChunksFinished
<1>4. CASE CallerStep
  <2>1. CASE Launch  BY <1>1, <1>2, <2>1 DEF Launch, ChunksFinished, TypeOK
  <2>2. CASE OwnChunk  BY <1>1, <1>2, <2>2 DEF OwnChunk, ChunksFinished, TypeOK
  <2>3. CASE Return  BY <1>1, <1>2, <2>3 DEF Return, ChunksFinished
  <2>4. CASE Returned  BY <1>1, <1>2, <2>4 DEF Returned, vars, ChunksFinished
  <2>5. QED  BY <1>4, <2>1, <2>2, <2>3, <2>4 DEF CallerStep
<1>5. ASSUME NEW i \in Chunks, Element(i) PROVE ChunksFinished'
  BY <1>1, <1>2, <1>5 DEF Element, ChunksFinished, TypeOK
<1>6. ASSUME NEW i \in Chunks, ChunkEnd(i) PROVE ChunksFinished'
  BY <1>1, <1>2, <1>6 DEF ChunkEnd, ChunksFinished, TypeOK
<1>7. QED  BY StepCases, <1>3, <1>4, <1>5, <1>6

\* The combination of a chunk depends on the configuration only, that of all chunks
\* on their partial results too.
LEMMA SameCombinations ==
  ASSUME conf' = conf
  PROVE  /\ Chunks' = Chunks /\ (Elementwise' <=> Elementwise)
         /\ \A i : SeqReduce(Identity, Elements(delta(i), ChunkLen(i)))'
                    = SeqReduce(Identity, Elements(delta(i), ChunkLen(i)))
         /\ partial_results' = partial_results => Combined' = Combined
<1>1. Chunks' = Chunks /\ (Elementwise' <=> Elementwise) /\ Main' = Main
  BY DEF Chunks, Elementwise, Main
<1>2. \A i : delta(i)' = delta(i) /\ ChunkLen(i)' = ChunkLen(i)
  BY DEF delta, ChunkLen, Main, chunk_size
<1>3. \A i : Elements(delta(i), ChunkLen(i))' = Elements(delta(i), ChunkLen(i))
  BY <1>2 DEF Elements, Image
<1>4. \A i : SeqReduce(Identity, Elements(delta(i), ChunkLen(i)))'
              = SeqReduce(Identity, Elements(delta(i), ChunkLen(i)))
  BY <1>3
<1>5. partial_results' = partial_results => Combined' = Combined
  BY <1>1 DEF Combined
<1> QED  BY <1>1, <1>4, <1>5

\* A chunk stores its combination when it is finished, and the call returns the
\* combination of what is stored then.
LEMMA NextCombined ==
  ASSUME IInv, [Next]_vars
  PROVE  ResultsCombined'
<1> DEFINE own(i) == SeqReduce(Identity, Elements(delta(i), ChunkLen(i)))
<1>1. /\ TypeOK
      /\ DOMAIN partial_results = Chunks
      /\ ~Elementwise => \A i \in Chunks : work[i] = "done" => partial_results[i] = own(i)
      /\ pc = "returned" => result = Combined
  BY DEF IInv, ResultsCombined
<1>2. conf' = conf
  BY DEF Next, vars, Launch, OwnChunk, Return, Returned, Element, ChunkEnd
<1>3. /\ Chunks' = Chunks /\ (Elementwise' <=> Elementwise) /\ \A i : own(i)' = own(i)
      /\ partial_results' = partial_results => Combined' = Combined
  BY <1>2, SameCombinations
<1>4. ASSUME partial_results' = partial_results,
             \A i \in Chunks : work'[i] = "done" => work[i] = "done",
             pc' = "returned" => result' = Combined
      PROVE  ResultsCombined'
  <2>1. DOMAIN partial_results' = Chunks'  BY <1>1, <1>3, <1>4
  <2>2. ~Elementwise' => \A i \in Chunks' : work'[i] = "done" => partial_results'[i] = own(i)'
    BY <1>1, <1>3, <1>4
  <2>3. pc' = "returned" => result' = Combined'  BY <1>3, <1>4
  <2> QED  BY <2>1, <2>2, <2>3 DEF ResultsCombined
<1> HIDE DEF own
<1>5. CASE UNCHANGED vars  BY <1>1, <1>4, <1>5 DEF vars
<1>6. CASE CallerStep
  <2>1. CASE Launch  BY <1>1, <1>4, <2>1 DEF Launch, TypeOK
  <2>2. CASE OwnChunk  BY <1>1, <1>4, <2>2 DEF OwnChunk, TypeOK
  <2>3. CASE Return  BY <1>4, <2>3 DEF Return
  <2>4. CASE Returned  BY <1>1, <1>4, <2>4 DEF Returned, vars
  <2> QED  BY <1>6, <2>1, <2>2, <2>3, <2>4 DEF CallerStep
<1>7. ASSUME NEW i \in Chunks, Element(i) PROVE ResultsCombined'
  <2>1. UNCHANGED <<pc, work, partial_results, result>>  BY <1>7 DEF Element
  <2> QED  BY <1>1, <1>4, <2>1
<1>8. ASSUME NEW i \in Chunks, ChunkEnd(i) PROVE ResultsCombined'
  <2>1. /\ work' = [work EXCEPT ![i] = "done"] /\ pc' = pc /\ result' = result
        /\ work[i] = "running"
        /\ partial_results' = IF Elementwise THEN partial_results
                              ELSE [partial_results EXCEPT ![i] = own(i)]
    BY <1>8 DEF ChunkEnd, own
  <2>2. pc # "returned"
    BY <2>1 DEF IInv, ChunksFinished
  <2>3. \A j \in Chunks : work'[j] = "done" => (work[j] = "done" \/ j = i)
    BY <1>1, <2>1 DEF TypeOK
  <2>4. DOMAIN partial_results' = Chunks'  BY <1>1, <1>3, <2>1
  <2>5. ~Elementwise => \A j \in Chunks :
          partial_results'[j] = IF j = i THEN own(j) ELSE partial_results[j]
    BY <1>1, <2>1
  <2>6. ~Elementwise' => \A j \in Chunks' : work'[j] = "done" => partial_results'[j] = own(j)'
    BY <1>1, <1>3, <2>3, <2>5
  <2> QED  BY <2>1, <2>2, <2>4, <2>6 DEF ResultsCombined, own
<1> QED  BY StepCases, <1>5, <1>6, <1>7, <1>8

-----------------------------------------------------------------------------
(* The theorems. *)

\* The inductive invariant: every element is processed at most once, by the loop
\* over its own chunk, and what map and stencil have processed is written.
THEOREM Invariance == Spec => []IInv
<1>1. IInv /\ [Next]_vars => IInv'
  BY NextType, NextHandledOnce, NextWritten, NextFinished, NextCombined DEF IInv
<1>2. QED  BY InitIInv, <1>1, PTL DEF Spec

\* Type correctness: no loop over a chunk leaves the chunk or the input.
THEOREM TypeCorrect == Spec => []TypeOK
<1>1. IInv => TypeOK  BY DEF IInv
<1>2. QED  BY <1>1, Invariance, PTL

\* When the call has returned, all of the input has been processed.
LEMMA ReturnedAll ==
  ASSUME IInv, pc = "returned", NEW k \in Positions
  PROVE  Processed(k)
<1>1. ConfType  BY ConfTypeFact DEF IInv
<1>2. PICK i \in Chunks : delta(i) <= k /\ k < delta(i) + ChunkLen(i)
  BY <1>1, ChunksCover
<1>3. done[i] = ChunkLen(i)  BY DEF IInv, ChunksFinished
<1>4. QED  BY <1>2, <1>3 DEF Processed

\* The chunks partition the input, for every length and degree: no element is
\* processed twice, and none is left when the call returns.
THEOREM ElementsOnce == Spec => []EachElementOnce
<1>1. IInv => EachElementOnce
  BY ReturnedAll DEF IInv, HandledOnce, EachElementOnce
<1>2. QED  BY <1>1, Invariance, PTL

\* map and stencil leave the output the sequential execution leaves, for every
\* length and degree.
THEOREM OutputComplete ==
  Spec => [](pc = "returned" /\ Elementwise => \A k \in Positions : out[k] = Image(k))
<1>1. IInv => (pc = "returned" /\ Elementwise
                 => \A k \in Positions : out[k] = Image(k))
  BY ReturnedAll DEF IInv, WrittenWhenProcessed
<1>2. QED  BY <1>1, Invariance, PTL

\* The call returns what the sequential execution does, for every length of the
\* input and every degree: map and stencil write the same output, reduce and
\* map_reduce return the same combination, in the order of the input.
THEOREM SequentialResult == Spec => []SameAsSequential
<1>1. IInv => SameAsSequential
  <2> SUFFICES ASSUME IInv, pc = "returned", ~Elementwise
               PROVE  result = SeqReduce(Identity, Elements(0, conf.size))
    BY ReturnedAll DEF IInv, WrittenWhenProcessed, SameAsSequential
  <2>1. ConfType /\ conf.call \in ChunkedCalls
    BY ConfTypeFact, CallsAssumption DEF IInv, TypeOK
  <2>2. result = Combined  BY DEF IInv, ResultsCombined
  <2>3. PartialsKnown
    <3> SUFFICES ASSUME NEW i \in Chunks
                 PROVE  partial_results[i] = Combination(delta(i), ChunkLen(i))
      BY DEF PartialsKnown
    <3>1. partial_results[i] = SeqReduce(Identity, Elements(delta(i), ChunkLen(i)))
      BY DEF IInv, ResultsCombined, ChunksFinished
    <3>2. delta(i) \in Nat /\ ChunkLen(i) \in Nat  BY <2>1, ChunkWithin
    <3> QED  BY <3>1, <3>2, CombinationConcat
  <2> QED  BY <2>1, <2>2, <2>3, CombinedAll
<1>2. QED  BY <1>1, Invariance, PTL

=============================================================================
