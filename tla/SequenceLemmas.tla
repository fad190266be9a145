---------------------------- MODULE SequenceLemmas ----------------------------
(***************************************************************************)
(* Facts about the sequences that the models build element by element:     *)
(* what FlattenSeq returns, for sequences of every length.  They are       *)
(* proved by induction, which is stated for a set of numbers: a set that   *)
(* holds 0 and with each number the next holds all of them.  And the slots *)
(* of a ring, in which the queues keep a sequence.                         *)
(***************************************************************************)
EXTENDS Integers, Sequences, SequencesExt, WellFoundedInduction, TLAPS

\* Induction over the natural numbers: a number outside S that is less than all
\* others outside S cannot be 0, and cannot have a predecessor.
LEMMA SetInduction ==
  ASSUME NEW S, 0 \in S, \A n \in Nat : n \in S => n + 1 \in S
  PROVE  Nat \subseteq S
<1> DEFINE T == Nat \ S
           R == {ss \in Nat \X Nat : ss[1] < ss[2]}
<1>1. IsWellFoundedOn(R, Nat)  BY NatLessThanWellFounded DEF OpToRel
<1>2. T \subseteq Nat  OBVIOUS
<1>3. ASSUME T # {} PROVE FALSE
  <2>1. PICK x \in T : \A y \in T : <<y, x>> \notin R
    <3> HIDE DEF T, R
    <3> QED  BY <1>1, <1>2, <1>3, WFMin
  <2>2. x - 1 \in Nat /\ x - 1 < x  OBVIOUS
  <2>3. x - 1 \in T
    <3>1. x - 1 \in S => (x - 1) + 1 \in S  BY <2>2
    <3>2. (x - 1) + 1 = x  BY <2>2
    <3> QED  BY <2>2, <3>1, <3>2
  <2>4. <<x - 1, x>> \in R  BY <2>2
  <2> QED  BY <2>1, <2>3, <2>4
<1> QED  BY <1>3

-----------------------------------------------------------------------------
(* Concatenation. *)

\* The empty sequence and concatenation.
LEMMA ConcatEmpty ==
  ASSUME NEW S, NEW s \in Seq(S)
  PROVE  s \o <<>> = s /\ <<>> \o s = s
OBVIOUS

\* Concatenation is associative.
LEMMA ConcatAssoc ==
  ASSUME NEW S, NEW s \in Seq(S), NEW t \in Seq(S), NEW u \in Seq(S)
  PROVE  (s \o t) \o u = s \o (t \o u)
OBVIOUS

\* The elements of a concatenation.
LEMMA ConcatElements ==
  ASSUME NEW S, NEW s \in Seq(S), NEW t \in Seq(S)
  PROVE  /\ s \o t \in Seq(S)
         /\ Len(s) \in Nat /\ Len(t) \in Nat /\ Len(s \o t) = Len(s) + Len(t)
         /\ \A m \in 1 .. Len(s) : (s \o t)[m] = s[m]
         /\ \A m \in 1 .. Len(t) : (s \o t)[Len(s) + m] = t[m]
OBVIOUS

\* Sequences of the same length with the same elements are equal.
LEMMA SameElements ==
  ASSUME NEW S, NEW s \in Seq(S), NEW t \in Seq(S), Len(s) = Len(t),
         \A m \in 1 .. Len(s) : s[m] = t[m]
  PROVE  s = t
OBVIOUS

\* The first elements of a sequence behind another: none, all.
LEMMA ConcatFirst ==
  ASSUME NEW S, NEW s \in Seq(S), NEW t \in Seq(S)
  PROVE  /\ s \o SubSeq(t, 1, 0) = s
         /\ s \o SubSeq(t, 1, Len(t)) = s \o t
<1>1. s \o SubSeq(t, 1, 0) = s
  <2>1. SubSeq(t, 1, 0) = <<>>  OBVIOUS
  <2> QED  BY <2>1, ConcatEmpty
<1>2. SubSeq(t, 1, Len(t)) = t  OBVIOUS
<1> QED  BY <1>1, <1>2

\* And one more.
LEMMA ConcatFirstStep ==
  ASSUME NEW S, NEW s \in Seq(S), NEW t \in Seq(S), NEW k \in 0 .. Len(t) - 1
  PROVE  Append(s \o SubSeq(t, 1, k), t[k + 1]) = s \o SubSeq(t, 1, k + 1)
OBVIOUS

\* A first part of a concatenation is a prefix of it.
LEMMA ConcatPrefix ==
  ASSUME NEW S, NEW s \in Seq(S), NEW t \in Seq(S)
  PROVE  IsPrefix(s, s \o t)
BY DEF IsPrefix

\* So is a first part of it with the beginning of what comes next.
LEMMA ConcatFirstPrefix ==
  ASSUME NEW S, NEW s \in Seq(S), NEW t \in Seq(S), NEW u \in Seq(S), NEW k \in 0 .. Len(t)
  PROVE  IsPrefix(s \o SubSeq(t, 1, k), (s \o t) \o u)
<1> DEFINE x == SubSeq(t, 1, k)
           y == SubSeq(t, k + 1, Len(t))
<1>1. x \in Seq(S) /\ y \in Seq(S) /\ t = x \o y
  <2>1. /\ x \in Seq(S) /\ Len(x) = k /\ \A m \in 1 .. k : x[m] = t[m]
        /\ y \in Seq(S) /\ Len(y) = Len(t) - k
        /\ \A m \in 1 .. Len(t) - k : y[m] = t[k + m]
    OBVIOUS
  <2> HIDE DEF x, y
  <2>2. Len(t) \in Nat /\ k \in Nat  OBVIOUS
  <2> DEFINE c == x \o y
  <2>3. /\ c \in Seq(S) /\ Len(c) = Len(x) + Len(y)
        /\ \A m \in 1 .. Len(x) : c[m] = x[m]
        /\ \A m \in 1 .. Len(y) : c[Len(x) + m] = y[m]
    BY ONLY <2>1, ConcatElements
  <2> HIDE DEF c
  <2>4. Len(c) = Len(t)  BY <2>1, <2>2, <2>3
  <2>5. ASSUME NEW m \in 1 .. Len(t) PROVE t[m] = c[m]
    <3>1. CASE m \in 1 .. k  BY <2>1, <2>3, <3>1
    <3>2. CASE m \notin 1 .. k
      <4> DEFINE i == m - k
      <4>1. i \in 1 .. Len(t) - k /\ m = k + i  BY <2>2, <3>2
      <4> HIDE DEF i
      <4> QED  BY <2>1, <2>3, <4>1
    <3> QED  BY <3>1, <3>2
  <2>6. t = c  BY <2>3, <2>4, <2>5, SameElements
  <2> QED  BY <2>1, <2>6 DEF c
<1> HIDE DEF x, y
<1>2. s \o (x \o y) = (s \o x) \o y
  <2>1. x \in Seq(S) /\ y \in Seq(S)  BY <1>1
  <2> QED  BY ONLY <2>1, s \in Seq(S), ConcatAssoc, SMTT(30)
<1> DEFINE w == s \o x
           v == y \o u
<1>3. w \in Seq(S) /\ v \in Seq(S)  BY <1>1, ConcatElements
<1> HIDE DEF w
<1>4. (w \o y) \o u = w \o v  BY ONLY <1>1, <1>3, u \in Seq(S), ConcatAssoc, SMTT(30) DEF v
<1> HIDE DEF v
<1>5. IsPrefix(w, w \o v)  BY ONLY <1>3, ConcatPrefix
<1> QED  BY <1>1, <1>2, <1>4, <1>5 DEF w, x

-----------------------------------------------------------------------------
(* FlattenSeq. *)

\* g concatenates the first n sequences of s, step by step.
Flattens(g, s, n) ==
  g = [i \in 1 .. n |-> IF i = 1 THEN s[i] ELSE g[i - 1] \o s[i]]

\* The function that FlattenSeq defines exists.
LEMMA FlattensExists ==
  ASSUME NEW s, NEW n \in Nat
  PROVE  \E g : Flattens(g, s, n)
<1> DEFINE D == {k \in Nat : \E g : Flattens(g, s, k)}
<1>1. 0 \in D
  <2> DEFINE e == [i \in 1 .. 0 |-> s[i]]
  <2>1. Flattens(e, s, 0)  BY DEF Flattens
  <2> QED  BY <2>1
<1>2. ASSUME NEW k \in Nat, k \in D PROVE k + 1 \in D
  <2>1. PICK g : Flattens(g, s, k)  BY <1>2
  <2> DEFINE last == IF k = 0 THEN s[1] ELSE g[k] \o s[k + 1]
             h == [i \in 1 .. k + 1 |-> IF i = k + 1 THEN last ELSE g[i]]
             r == [i \in 1 .. k + 1 |-> IF i = 1 THEN s[i] ELSE h[i - 1] \o s[i]]
  <2>2. ASSUME NEW i \in 1 .. k + 1 PROVE h[i] = r[i]
    <3>1. CASE i = k + 1
      <4>1. i = 1 \/ (i - 1 \in 1 .. k + 1 /\ i - 1 # k + 1 /\ i - 1 = k)  BY <3>1
      <4> QED  BY <3>1, <4>1
    <3>2. CASE i # k + 1
      <4>1. i \in 1 .. k  BY <3>2
      <4>2. i = 1 \/ (i - 1 \in 1 .. k + 1 /\ i - 1 # k + 1)  BY <4>1
      <4>3. g[i] = IF i = 1 THEN s[i] ELSE g[i - 1] \o s[i]  BY <2>1, <4>1 DEF Flattens
      <4> QED  BY <3>2, <4>2, <4>3
    <3> QED  BY <3>1, <3>2
  <2>3. h = r
    <3>1. \A i \in 1 .. k + 1 : h[i] = r[i]  BY <2>2
    <3> HIDE DEF last
    <3> QED  BY <3>1
  <2>4. Flattens(h, s, k + 1)  BY <2>3 DEF Flattens
  <2> QED  BY <2>4
<1> HIDE DEF D
<1>3. Nat \subseteq D  BY <1>1, <1>2, SetInduction
<1> QED  BY <1>3 DEF D

\* What FlattenSeq returns is the last value of such a function.
LEMMA FlattenDef ==
  ASSUME NEW s, Len(s) \in Nat \ {0}
  PROVE  \E g : Flattens(g, s, Len(s)) /\ FlattenSeq(s) = g[Len(s)]
<1> DEFINE g == CHOOSE f : Flattens(f, s, Len(s))
<1>1. Flattens(g, s, Len(s))  BY FlattensExists
<1>2. FlattenSeq(s) = g[Len(s)]  BY DEF FlattenSeq, Flattens
<1> QED  BY <1>1, <1>2

\* Two such functions agree on the sequences that theirs have in common.
LEMMA FlattensUnique ==
  ASSUME NEW s, NEW t, NEW m \in Nat, NEW n \in Nat, m <= n,
         \A i \in 1 .. m : s[i] = t[i],
         NEW g, Flattens(g, s, m), NEW h, Flattens(h, t, n)
  PROVE  \A i \in 1 .. m : g[i] = h[i]
<1> DEFINE D == {k \in Nat : k \in 1 .. m => g[k] = h[k]}
<1>1. 0 \in D  OBVIOUS
<1>2. ASSUME NEW k \in Nat, k \in D PROVE k + 1 \in D
  <2> SUFFICES ASSUME k + 1 \in 1 .. m PROVE g[k + 1] = h[k + 1]  OBVIOUS
  <2> DEFINE j == k + 1
  <2>1. j \in 1 .. m /\ j \in 1 .. n /\ (j # 1 => k \in 1 .. m) /\ j - 1 = k  OBVIOUS
  <2> HIDE DEF j
  <2>2. g[j] = IF j = 1 THEN s[j] ELSE g[j - 1] \o s[j]  BY <2>1 DEF Flattens
  <2>3. h[j] = IF j = 1 THEN t[j] ELSE h[j - 1] \o t[j]  BY <2>1 DEF Flattens
  <2>4. s[j] = t[j] /\ (j # 1 => g[k] = h[k])  BY <1>2, <2>1
  <2>5. g[j] = h[j]  BY <2>1, <2>2, <2>3, <2>4
  <2> QED  BY <2>5 DEF j
<1> HIDE DEF D
<1>3. Nat \subseteq D  BY <1>1, <1>2, SetInduction
<1> QED  BY <1>3 DEF D

\* With one more sequence, what has been concatenated before is the same.
LEMMA FlattensOneMore ==
  ASSUME NEW s, NEW t, NEW m \in Nat \ {0}, \A i \in 1 .. m : s[i] = t[i],
         NEW g, Flattens(g, s, m), NEW h, Flattens(h, t, m + 1)
  PROVE  g[m] = h[m]
<1>1. m \in Nat /\ m + 1 \in Nat /\ m <= m + 1 /\ m \in 1 .. m  OBVIOUS
<1> DEFINE n == m + 1
<1>2. m \in Nat /\ n \in Nat /\ m <= n /\ Flattens(h, t, n)  BY <1>1
<1> HIDE DEF n
<1>3. \A i \in 1 .. m : g[i] = h[i]  BY <1>2, FlattensUnique
<1> QED  BY <1>1, <1>3

\* The last sequence is concatenated behind what the others give.
LEMMA FlattenLonger ==
  ASSUME NEW s, NEW t, NEW m \in Nat \ {0}, Len(s) = m, Len(t) = m + 1,
         \A i \in 1 .. m : s[i] = t[i]
  PROVE  FlattenSeq(t) = FlattenSeq(s) \o t[m + 1]
<1>1. PICK g : Flattens(g, s, m) /\ FlattenSeq(s) = g[m]
  BY FlattenDef
<1> DEFINE n == m + 1
<1>2. n \in Nat \ {0} /\ n # 1 /\ n - 1 = m /\ n \in 1 .. n /\ Len(t) = n  OBVIOUS
<1>3. PICK h : Flattens(h, t, n) /\ FlattenSeq(t) = h[n]
  <2> HIDE DEF n
  <2> QED  BY <1>2, FlattenDef
<1>4. g[m] = h[m]
  BY <1>1, <1>3, FlattensOneMore
<1>5. h[n] = h[m] \o t[n]
  <2> HIDE DEF n
  <2>1. h[n] = IF n = 1 THEN t[n] ELSE h[n - 1] \o t[n]  BY <1>2, <1>3 DEF Flattens
  <2> QED  BY <1>2, <2>1
<1> QED  BY <1>1, <1>3, <1>4, <1>5

\* A single sequence.
LEMMA FlattenOne ==
  ASSUME NEW x
  PROVE  FlattenSeq(<<x>>) = x
<1> DEFINE s == <<x>>
<1>1. Len(s) = 1 /\ s[1] = x /\ Len(s) \in Nat \ {0}  OBVIOUS
<1> HIDE DEF s
<1>2. PICK h : Flattens(h, s, Len(s)) /\ FlattenSeq(s) = h[Len(s)]
  BY <1>1, FlattenDef, Zenon
<1>3. FlattenSeq(s) = x  BY <1>1, <1>2 DEF Flattens
<1> QED  BY <1>3 DEF s

\* One more sequence is concatenated behind the others.
LEMMA FlattenAppend ==
  ASSUME NEW S, NEW s \in Seq(Seq(S)), NEW x \in Seq(S)
  PROVE  FlattenSeq(Append(s, x)) = FlattenSeq(s) \o x
<1> DEFINE m == Len(s)
           t == Append(s, x)
<1>1. /\ m \in Nat /\ Len(t) = m + 1
      /\ \A i \in 1 .. m : s[i] = t[i]
      /\ t[m + 1] = x
  OBVIOUS
<1>2. CASE m = 0
  <2>1. s = <<>> /\ t = <<x>> /\ <<>> \o x = x  BY <1>2
  <2>2. FlattenSeq(<<>>) = <<>>  BY DEF FlattenSeq
  <2>3. FlattenSeq(<<x>>) = x  BY FlattenOne
  <2> QED  BY <2>1, <2>2, <2>3
<1>3. CASE m # 0
  <2>1. m \in Nat \ {0}  BY <1>1, <1>3
  <2>2. Len(s) = m  OBVIOUS
  <2> HIDE DEF m, t
  <2>3. FlattenSeq(t) = FlattenSeq(s) \o t[m + 1]
    BY ONLY <1>1, <2>1, <2>2, FlattenLonger
  <2> QED  BY <1>1, <2>3 DEF t
<1> QED  BY <1>2, <1>3

\* Nothing to concatenate.
LEMMA FlattenEmpty == FlattenSeq(<<>>) = <<>>
BY DEF FlattenSeq

\* A sequence of sequences is what comes before its last, and its last.
LEMMA ButLast ==
  ASSUME NEW S, NEW s \in Seq(S), NEW k \in Nat, Len(s) = k + 1
  PROVE  /\ SubSeq(s, 1, k) \in Seq(S) /\ Len(SubSeq(s, 1, k)) = k
         /\ s[k + 1] \in S
         /\ s = Append(SubSeq(s, 1, k), s[k + 1])
OBVIOUS

\* Concatenating sequences over S gives a sequence over S.
LEMMA FlattenType ==
  ASSUME NEW S, NEW s \in Seq(Seq(S))
  PROVE  FlattenSeq(s) \in Seq(S)
<1> DEFINE D == {k \in Nat : \A t \in Seq(Seq(S)) : Len(t) = k => FlattenSeq(t) \in Seq(S)}
<1>1. 0 \in D
  <2>1. \A t \in Seq(Seq(S)) : Len(t) = 0 => t = <<>>  OBVIOUS
  <2> QED  BY <2>1, FlattenEmpty
<1>2. ASSUME NEW k \in Nat, k \in D PROVE k + 1 \in D
  <2> SUFFICES ASSUME NEW t \in Seq(Seq(S)), Len(t) = k + 1 PROVE FlattenSeq(t) \in Seq(S)
    OBVIOUS
  <2>1. /\ SubSeq(t, 1, k) \in Seq(Seq(S)) /\ Len(SubSeq(t, 1, k)) = k
        /\ t[k + 1] \in Seq(S) /\ t = Append(SubSeq(t, 1, k), t[k + 1])
    BY ButLast
  <2>2. FlattenSeq(SubSeq(t, 1, k)) \in Seq(S)  BY <1>2, <2>1
  <2>3. FlattenSeq(t) = FlattenSeq(SubSeq(t, 1, k)) \o t[k + 1]  BY <2>1, FlattenAppend
  <2> QED  BY <2>1, <2>2, <2>3
<1> HIDE DEF D
<1>3. Nat \subseteq D  BY <1>1, <1>2, SetInduction
<1> QED  BY <1>3 DEF D

\* Concatenating is the same in one go and in two.
LEMMA FlattenConcat ==
  ASSUME NEW S, NEW s \in Seq(Seq(S)), NEW t \in Seq(Seq(S))
  PROVE  FlattenSeq(s \o t) = FlattenSeq(s) \o FlattenSeq(t)
<1> DEFINE D == {k \in Nat : \A u \in Seq(Seq(S)) :
                   Len(u) = k => FlattenSeq(s \o u) = FlattenSeq(s) \o FlattenSeq(u)}
<1>0. FlattenSeq(s) \in Seq(S)  BY FlattenType
<1>1. 0 \in D
  <2>1. \A u \in Seq(Seq(S)) : Len(u) = 0 => u = <<>> /\ s \o u = s  OBVIOUS
  <2>2. FlattenSeq(s) \o <<>> = FlattenSeq(s)  BY <1>0
  <2> QED  BY <2>1, <2>2, FlattenEmpty
<1>2. ASSUME NEW k \in Nat, k \in D PROVE k + 1 \in D
  <2> SUFFICES ASSUME NEW u \in Seq(Seq(S)), Len(u) = k + 1
               PROVE  FlattenSeq(s \o u) = FlattenSeq(s) \o FlattenSeq(u)
    OBVIOUS
  <2> DEFINE v == SubSeq(u, 1, k)
             x == u[k + 1]
  <2>1. v \in Seq(Seq(S)) /\ Len(v) = k /\ x \in Seq(S) /\ u = Append(v, x)
    BY ButLast
  <2> HIDE DEF v, x
  <2>2. s \o Append(v, x) = Append(s \o v, x) /\ s \o v \in Seq(Seq(S))  BY <2>1
  <2>3. FlattenSeq(s \o v) = FlattenSeq(s) \o FlattenSeq(v)  BY <1>2, <2>1
  <2>4. FlattenSeq(Append(s \o v, x)) = FlattenSeq(s \o v) \o x  BY <2>1, <2>2, FlattenAppend
  <2>5. FlattenSeq(Append(v, x)) = FlattenSeq(v) \o x  BY <2>1, FlattenAppend
  <2>6. FlattenSeq(v) \in Seq(S)  BY <2>1, FlattenType
  <2>7. (FlattenSeq(s) \o FlattenSeq(v)) \o x = FlattenSeq(s) \o (FlattenSeq(v) \o x)
    <3> DEFINE a == FlattenSeq(s)
               b == FlattenSeq(v)
    <3>1. a \in Seq(S) /\ b \in Seq(S) /\ x \in Seq(S)  BY <1>0, <2>1, <2>6
    <3> HIDE DEF a, b
    <3> HIDE DEF D
    <3>2. (a \o b) \o x = a \o (b \o x)  BY <3>1, ConcatAssoc, SMTT(30)
    <3> QED  BY <3>2 DEF a, b
  <2> QED  BY <2>1, <2>2, <2>3, <2>4, <2>5, <2>7
<1> HIDE DEF D
<1>3. Nat \subseteq D  BY <1>1, <1>2, SetInduction
<1> QED  BY <1>3 DEF D

-----------------------------------------------------------------------------
(* FoldLeft, for concatenation. *)

\* g folds the elements of s at the positions in a subset of 1 .. n, from the last
\* back to the first.
Folds(g, base, s, n) ==
  g = [d \in SUBSET (1 .. n) |-> IF d = {} THEN base ELSE g[d \ {Max(d)}] \o s[Max(d)]]

\* The last position of a set that holds the last of all.
LEMMA LastPosition ==
  ASSUME NEW n \in Nat, NEW d \in SUBSET (1 .. n + 1), n + 1 \in d
  PROVE  Max(d) = n + 1
<1>1. n + 1 \in d /\ \A y \in d : n + 1 >= y  OBVIOUS
<1>2. \A x \in d : (\A y \in d : x >= y) => x = n + 1  OBVIOUS
<1> DEFINE m == CHOOSE x \in d : \A y \in d : x >= y
<1>3. m \in d /\ \A y \in d : m >= y  BY <1>1
<1> QED  BY <1>2, <1>3 DEF Max

\* The function that FoldLeft defines exists.
LEMMA FoldsExists ==
  ASSUME NEW base, NEW s, NEW n \in Nat
  PROVE  \E g : Folds(g, base, s, n)
<1> DEFINE D == {k \in Nat : \E g : Folds(g, base, s, k)}
<1>1. 0 \in D
  <2> DEFINE e == [d \in SUBSET (1 .. 0) |-> base]
  <2>1. SUBSET (1 .. 0) = {{}}  OBVIOUS
  <2>2. e = [d \in SUBSET (1 .. 0) |-> IF d = {} THEN base ELSE e[d \ {Max(d)}] \o s[Max(d)]]
    BY <2>1
  <2>3. Folds(e, base, s, 0)  BY <2>2 DEF Folds
  <2> QED  BY <2>3
<1>2. ASSUME NEW k \in Nat, k \in D PROVE k + 1 \in D
  <2>1. PICK g : Folds(g, base, s, k)  BY <1>2
  <2> DEFINE T == SUBSET (1 .. k + 1)
             h == [d \in T |-> IF k + 1 \in d THEN g[d \ {k + 1}] \o s[k + 1] ELSE g[d]]
             r == [d \in T |-> IF d = {} THEN base ELSE h[d \ {Max(d)}] \o s[Max(d)]]
  <2>2. ASSUME NEW d \in T PROVE h[d] = r[d]
    <3>1. CASE k + 1 \in d
      <4>1. Max(d) = k + 1  BY <3>1, LastPosition
      <4>2. d \ {k + 1} \in T /\ k + 1 \notin d \ {k + 1} /\ d # {}  BY <3>1
      <4>3. h[d \ {k + 1}] = g[d \ {k + 1}]  BY <4>2
      <4> QED  BY <3>1, <4>1, <4>2, <4>3
    <3>2. CASE k + 1 \notin d
      <4>1. d \in SUBSET (1 .. k)
        <5>1. \A x \in 1 .. k + 1 : x # k + 1 => x \in 1 .. k  OBVIOUS
        <5> QED  BY <3>2, <5>1
      <4>2. g[d] = IF d = {} THEN base ELSE g[d \ {Max(d)}] \o s[Max(d)]
        BY <2>1, <4>1 DEF Folds
      <4>3. d \ {Max(d)} \in T /\ k + 1 \notin d \ {Max(d)}  BY <3>2
      <4>4. h[d] = g[d] /\ h[d \ {Max(d)}] = g[d \ {Max(d)}]  BY <3>2, <4>3
      <4> QED  BY <4>2, <4>4
    <3> QED  BY <3>1, <3>2
  <2>3. h = r
    <3> DEFINE v(d) == IF k + 1 \in d THEN g[d \ {k + 1}] \o s[k + 1] ELSE g[d]
               w(d) == IF d = {} THEN base ELSE h[d \ {Max(d)}] \o s[Max(d)]
    <3>1. \A d \in T : v(d) = w(d)  BY <2>2
    <3>2. h = [d \in T |-> v(d)] /\ r = [d \in T |-> w(d)]  OBVIOUS
    <3> HIDE DEF v, w, h, r, T
    <3> QED  BY <3>1, <3>2
  <2>4. Folds(h, base, s, k + 1)  BY <2>3 DEF Folds
  <2> QED  BY <2>4
<1> HIDE DEF D
<1>3. Nat \subseteq D  BY <1>1, <1>2, SetInduction
<1> QED  BY <1>3 DEF D

\* One position after another, such a function concatenates behind base.
LEMMA FoldsFirst ==
  ASSUME NEW S, NEW base \in Seq(S), NEW s \in Seq(Seq(S)),
         NEW g, Folds(g, base, s, Len(s))
  PROVE  g[1 .. Len(s)] = base \o FlattenSeq(s)
<1> DEFINE L == Len(s)
           D == {k \in Nat : k <= L => g[1 .. k] = base \o FlattenSeq(SubSeq(s, 1, k))}
<1>0. L \in Nat  OBVIOUS
<1>1. 0 \in D
  <2>1. SubSeq(s, 1, 0) = <<>> /\ 1 .. 0 = {}  OBVIOUS
  <2>2. g[{}] = base  BY DEF Folds
  <2>3. base \o <<>> = base  BY ConcatEmpty
  <2>4. g[1 .. 0] = base \o FlattenSeq(SubSeq(s, 1, 0))  BY <2>1, <2>2, <2>3, FlattenEmpty
  <2> QED  BY <2>4
<1>2. ASSUME NEW k \in Nat, k \in D PROVE k + 1 \in D
  <2> SUFFICES ASSUME k + 1 <= L PROVE g[1 .. k + 1] = base \o FlattenSeq(SubSeq(s, 1, k + 1))
    OBVIOUS
  <2> DEFINE d == 1 .. k + 1
             a == SubSeq(s, 1, k)
             x == s[k + 1]
  <2>1. d \in SUBSET (1 .. k + 1) /\ d \in SUBSET (1 .. L) /\ k + 1 \in d
        /\ d \ {k + 1} = 1 .. k /\ d # {}
    <3>1. \A y : y \in d <=> (y \in 1 .. k \/ y = k + 1)  OBVIOUS
    <3>2. \A y \in d : y \in 1 .. L  BY <1>0
    <3>3. k + 1 \notin 1 .. k  OBVIOUS
    <3>4. d \in SUBSET (1 .. k + 1)  OBVIOUS
    <3> HIDE DEF d, L
    <3> QED  BY <3>1, <3>2, <3>3, <3>4
  <2>2. Max(d) = k + 1  BY <2>1, LastPosition
  <2>3. g[d] = g[1 .. k] \o x
    <3> HIDE DEF d
    <3>1. g[d] = IF d = {} THEN base ELSE g[d \ {Max(d)}] \o s[Max(d)]  BY <2>1 DEF Folds
    <3> QED  BY <2>1, <2>2, <3>1
  <2>4. g[1 .. k] = base \o FlattenSeq(a)  BY <1>0, <1>2
  <2>5. a \in Seq(Seq(S)) /\ x \in Seq(S) /\ SubSeq(s, 1, k + 1) = Append(a, x)
    <3> DEFINE Q == Seq(S)
    <3>1. s \in Seq(Q)  OBVIOUS
    <3> HIDE DEF Q
    <3>2. a \in Seq(Q) /\ x \in Q /\ SubSeq(s, 1, k + 1) = Append(a, x)  BY <1>0, <3>1
    <3> QED  BY <3>2 DEF Q
  <2> HIDE DEF a, x, d, D, L
  <2>6. FlattenSeq(Append(a, x)) = FlattenSeq(a) \o x  BY ONLY <2>5, FlattenAppend
  <2>7. FlattenSeq(a) \in Seq(S)  BY ONLY <2>5, FlattenType
  <2> DEFINE f == FlattenSeq(a)
  <2>8. f \in Seq(S) /\ base \in Seq(S) /\ x \in Seq(S)  BY <2>5, <2>7
  <2> HIDE DEF f
  <2>9. (base \o f) \o x = base \o (f \o x)  BY ONLY <2>8, ConcatAssoc
  <2> QED  BY <2>3, <2>4, <2>5, <2>6, <2>9 DEF f, d
<1> HIDE DEF D
<1>3. Nat \subseteq D  BY <1>1, <1>2, SetInduction
<1>4. g[1 .. L] = base \o FlattenSeq(SubSeq(s, 1, L))  BY <1>0, <1>3 DEF D
<1>5. SubSeq(s, 1, L) = s
  <2> DEFINE Q == Seq(S)
  <2>1. s \in Seq(Q)  OBVIOUS
  <2> HIDE DEF Q
  <2> QED  BY <2>1
<1> QED  BY <1>4, <1>5

\* Folding with concatenation concatenates all elements behind base.
LEMMA FoldConcat ==
  ASSUME NEW S, NEW base \in Seq(S), NEW s \in Seq(Seq(S))
  PROVE  FoldLeft(LAMBDA x, y : x \o y, base, s) = base \o FlattenSeq(s)
<1> DEFINE n == Len(s)
           g == CHOOSE f : Folds(f, base, s, n)
<1>1. n \in Nat /\ DOMAIN s = 1 .. n  OBVIOUS
<1>2. Folds(g, base, s, n)  BY <1>1, FoldsExists
<1>3. FoldLeft(LAMBDA x, y : x \o y, base, s) = g[1 .. n]
  BY <1>1 DEF FoldLeft, MapThenFoldSet, Folds
<1> HIDE DEF g
<1>4. g[1 .. n] = base \o FlattenSeq(s)  BY <1>2, FoldsFirst
<1> QED  BY <1>3, <1>4

-----------------------------------------------------------------------------
(* Rings: in a ring of N slots, index k has slot k % N.  Both queues of      *)
(* common/mpmc_queue.h address their buffer that way.                        *)

\* Indices less than a turn of the ring apart have different slots.
LEMMA RingDistinct ==
  ASSUME NEW N \in Nat \ {0}, NEW a \in Nat, NEW b \in Nat, a < b, b < a + N
  PROVE  a % N # b % N
<1>1. a = N * (a \div N) + (a % N) /\ b = N * (b \div N) + (b % N)  OBVIOUS
<1>2. /\ a \div N \in Int /\ b \div N \in Int
      /\ a % N \in Nat /\ b % N \in Nat
  OBVIOUS
<1>3. ASSUME a % N = b % N PROVE FALSE
  <2> DEFINE q == (b \div N) - (a \div N)
  <2>1. b - a = N * q  BY <1>1, <1>2, <1>3
  <2>2. q \in Int  BY <1>2
  <2> HIDE DEF q
  <2>3. CASE q <= 0
    <3>1. N * q <= 0  BY <2>2, <2>3
    <3>2. QED  BY <2>1, <3>1
  <2>4. CASE q >= 1
    <3>1. N * q >= N  BY <2>2, <2>4
    <3>2. QED  BY <2>1, <3>1
  <2>5. QED  BY <2>2, <2>3, <2>4
<1>4. QED  BY <1>3

\* Different indices within one turn that starts at index p have different slots.
LEMMA RingWindow ==
  ASSUME NEW N \in Nat \ {0}, NEW p \in Nat, NEW a \in Nat, NEW b \in Nat, a # b,
         p <= a, a < p + N, p <= b, b < p + N
  PROVE  a % N # b % N
<1>1. b < a + N /\ a < b + N /\ (a < b \/ b < a)  OBVIOUS
<1>2. a < b => a % N # b % N  BY <1>1, RingDistinct, Zenon
<1>3. b < a => b % N # a % N  BY <1>1, RingDistinct, Zenon
<1>4. QED  BY <1>1, <1>2, <1>3, Zenon

=============================================================================
