------------------------- MODULE StreamAccount_proofs -------------------------
(***************************************************************************)
(* The elements of the stream in the native pipelines, and the OpenMP      *)
(* pipelines.  For every regular pipeline, of any length and with queues   *)
(* of any size: each element is in one place (Account), what the user is   *)
(* given is what the sequential execution gives (DeliversStream), and an   *)
(* ordering loop behind the end marker finds its next item (Passed,        *)
(* DrainFindsNext).                                                        *)
(*                                                                         *)
(* First what the steps of the loops do to the account: a step moves the   *)
(* elements between the places of one thread, pushes one into a queue, or  *)
(* calls the user.  Then the end of the stream: a queue whose markers have *)
(* been taken is dry, and so are those in front of it (DryUpstream), which *)
(* gives the refinement.                                                   *)
(*                                                                         *)
(* The OpenMP tasks come next: a step of a task is a step of a thread, or  *)
(* one of the two of the filter that differ.  For these the invariant of   *)
(* the end markers has more to say of the queue between a filter and its   *)
(* ordering task (FilterEnds).                                             *)
(*                                                                         *)
(* Then the ordering loops of both: what one has released, and what is     *)
(* still in front of it, are separated by the number it waits for.         *)
(*                                                                         *)
(* Last the bounds of the two type invariants (Bounded): what a queue      *)
(* holds, the orders within the stream, the rounds of an iteration, and of *)
(* the OpenMP team the threads its tasks occupy (TeamHolds).               *)
(***************************************************************************)
EXTENDS StreamAccount, OmpPipeline, NativePipeline_proofs

-----------------------------------------------------------------------------
(* Where the elements are: what does not change. *)

\* The operators over the connections keep their values.
LEMMA AccountStays ==
  ASSUME conf' = conf
  PROVE  /\ \A th : /\ (IsReorder(th)' <=> IsReorder(th)) /\ (CallsUser(th)' <=> CallsUser(th))
                    /\ (OrderingLoop(th)' <=> OrderingLoop(th))
         /\ \A x, q : (Behind(x, q)' <=> Behind(x, q)) /\ (InFront(x, q)' <=> InFront(x, q))
         /\ \A q : (Late(q)' <=> Late(q)) /\ Late(q)' = Late(q)
         /\ \A W : Upstream(W)' <=> Upstream(W)
         /\ Chosen' = Chosen
         /\ \A e : Rank(e)' = Rank(e)
         /\ \A late, e : Number(late, e)' = Number(late, e)
<1>1. \A th : /\ (IsReorder(th)' <=> IsReorder(th)) /\ (CallsUser(th)' <=> CallsUser(th))
              /\ (OrderingLoop(th)' <=> OrderingLoop(th))
  BY RolesStay DEF IsReorder, CallsUser, OrderingLoop
<1>2. \A x, q : (Behind(x, q)' <=> Behind(x, q)) /\ (InFront(x, q)' <=> InFront(x, q))
  BY <1>1, RolesStay DEF Behind, InFront
<1>3. \A q : (Late(q)' <=> Late(q)) /\ Late(q)' = Late(q)  BY <1>1, <1>2, RolesStay DEF Late
<1>4. \A W : Upstream(W)' <=> Upstream(W)  BY RolesStay DEF Upstream
<1>5. Chosen' = Chosen  BY <1>1, RolesStay DEF Chosen
<1>6. \A e : Rank(e)' = Rank(e)  BY DEF Rank
<1>7. \A late, e : Number(late, e)' = Number(late, e)  BY <1>6 DEF Number
<1> QED  BY <1>1, <1>2, <1>3, <1>4, <1>5, <1>6, <1>7

\* So a straight pipeline stays one, and no other becomes one.
LEMMA StraightStays ==
  ASSUME conf' = conf, DOMAIN queue' = DOMAIN queue
  PROVE  Straight' <=> Straight
<1>1. Threads' = Threads /\ Queues' = Queues  BY RolesStay DEF Queues
<1>2. Filters' <=> Filters  BY <1>1, RolesStay, AccountStays DEF Filters
<1>3. Leads' <=> Leads  BY <1>1, RolesStay, AccountStays DEF Leads
<1>4. Enumerates(conf.expected)' <=> Enumerates(conf.expected)
  <2>1. (\E x \in Threads : IsReorder(x))' <=> \E x \in Threads : IsReorder(x)
    BY <1>1, AccountStays
  <2>2. Chosen' = Chosen /\ \A late, e : Number(late, e)' = Number(late, e)  BY AccountStays
  <2>3. Enumerates(conf.expected) => Enumerates(conf.expected)'
    BY <1>1, <2>1, <2>2 DEF Enumerates
  <2>4. Enumerates(conf.expected)' => Enumerates(conf.expected)
    BY <1>1, <2>1, <2>2 DEF Enumerates
  <2> QED  BY <2>3, <2>4
<1>5. \A th : /\ kind(th)' = kind(th) /\ (OnlyWaits(th)' <=> OnlyWaits(th))
              /\ (IsSequential(th)' <=> IsSequential(th)) /\ input_queue(th)' = input_queue(th)
              /\ (CallsUser(th)' <=> CallsUser(th))
  BY RolesStay, AccountStays
<1> QED  BY <1>1, <1>2, <1>3, <1>4, <1>5 DEF Straight

-----------------------------------------------------------------------------
(* Orders behind a filter: an element has the number of those kept before it. *)

\* The number of kept elements before one, as the elements go by.
LEMMA RankSteps ==
  ASSUME Straight, conf.length \in Nat
  PROVE  /\ \A e \in Nat : Rank(e) \in Nat
         /\ Rank(1) = 0
         /\ \A e \in Nat : Rank(e + 1) = IF e \in conf.keep THEN Rank(e) + 1 ELSE Rank(e)
         /\ \A e, f \in Nat : e <= f => Rank(e) <= Rank(f)
         /\ \A e \in conf.keep : \A f \in Nat : e < f => Rank(e) < Rank(f)
<1> DEFINE K == conf.keep
           B(e) == {y \in K : y < e}
<1>1. IsFiniteSet(K) /\ K \subseteq Nat \ {0}
  <2>1. IsFiniteSet(1 .. conf.length)  BY FS_Interval
  <2>2. K \subseteq 1 .. conf.length  BY DEF Straight
  <2> QED  BY <2>1, <2>2, FS_Subset
<1>2. \A e : Rank(e) = Cardinality(B(e))  BY DEF Rank
<1>3. \A e : IsFiniteSet(B(e)) /\ Cardinality(B(e)) \in Nat
  <2>1. \A e : B(e) \subseteq K  OBVIOUS
  <2> HIDE DEF B
  <2>2. \A e : IsFiniteSet(B(e))  BY <1>1, <2>1, FS_Subset
  <2> QED  BY <2>2, FS_CardinalityType
<1>4. Rank(1) = 0
  <2>1. B(1) = {}  BY <1>1
  <2> QED  BY <1>2, <2>1, FS_EmptySet
<1>5. ASSUME NEW e \in Nat
      PROVE  Rank(e + 1) = IF e \in conf.keep THEN Rank(e) + 1 ELSE Rank(e)
  <2>1. CASE e \in K
    <3>1. B(e + 1) = B(e) \cup {e} /\ e \notin B(e)  BY <1>1, <2>1
    <3> HIDE DEF B
    <3>2. Cardinality(B(e) \cup {e}) = Cardinality(B(e)) + 1  BY <1>3, <3>1, FS_AddElement
    <3> QED  BY <1>2, <2>1, <3>1, <3>2
  <2>2. CASE e \notin K
    <3>1. B(e + 1) = B(e)  BY <1>1, <2>2
    <3> HIDE DEF B
    <3> QED  BY <1>2, <2>2, <3>1
  <2> QED  BY <2>1, <2>2
<1>6. ASSUME NEW e \in Nat, NEW f \in Nat, e <= f PROVE Rank(e) <= Rank(f)
  <2>1. B(e) \subseteq B(f)  BY <1>1, <1>6
  <2> HIDE DEF B
  <2>2. Cardinality(B(e)) <= Cardinality(B(f))  BY <1>3, <2>1, FS_Subset
  <2> QED  BY <1>2, <2>2
<1>7. ASSUME NEW e \in conf.keep, NEW f \in Nat, e < f PROVE Rank(e) < Rank(f)
  <2>1. e \in Nat /\ e + 1 \in Nat /\ e + 1 <= f  BY <1>1, <1>7
  <2>2. Rank(e + 1) = Rank(e) + 1 /\ Rank(e + 1) <= Rank(f)  BY <1>5, <1>6, <2>1
  <2>3. Rank(e) \in Nat /\ Rank(f) \in Nat  BY <1>2, <1>3
  <2> QED  BY <2>2, <2>3
<1>8. \A e \in Nat : Rank(e) \in Nat  BY <1>2, <1>3
<1> QED  BY <1>4, <1>5, <1>6, <1>7, <1>8

-----------------------------------------------------------------------------
(* Sequences of items. *)

\* One more.
LEMMA StandsAppend ==
  ASSUME NEW S, NEW s \in Seq(S), NEW x \in S
  PROVE  /\ Append(s, x) \in Seq(S)
         /\ Stands(Append(s, x)) = Stands(s) \cup {Element(x)}
         /\ (OnceIn(s) /\ Element(x) \notin Stands(s)) => OnceIn(Append(s, x))
         /\ \A k \in DOMAIN Append(s, x) :
              Append(s, x)[k] = x \/ \E j \in DOMAIN s : Append(s, x)[k] = s[j]
<1> DEFINE t == Append(s, x)
           n == Len(s)
<1>1. /\ t \in Seq(S) /\ n \in Nat /\ DOMAIN t = 1 .. n + 1 /\ DOMAIN s = 1 .. n
      /\ \A k \in 1 .. n : t[k] = s[k]
      /\ t[n + 1] = x
  OBVIOUS
<1> HIDE DEF t, n
<1>2. Stands(t) = Stands(s) \cup {Element(x)}
  <2>1. \A k \in DOMAIN s : k \in DOMAIN t /\ t[k] = s[k]  BY <1>1
  <2>2. n + 1 \in DOMAIN t  BY <1>1
  <2>3. \A k \in DOMAIN t : k = n + 1 \/ k \in DOMAIN s  BY <1>1
  <2> QED  BY <1>1, <2>1, <2>2, <2>3 DEF Stands
<1>3. ASSUME OnceIn(s), Element(x) \notin Stands(s),
             NEW k \in DOMAIN t, NEW l \in DOMAIN t, Element(t[k]) = Element(t[l])
      PROVE  k = l
  <2>1. \A j \in DOMAIN t : j = n + 1 \/ (j \in DOMAIN s /\ t[j] = s[j])  BY <1>1
  <2>2. CASE k = n + 1 /\ l # n + 1  BY <1>1, <1>3, <2>1, <2>2 DEF Stands
  <2>3. CASE k # n + 1 /\ l = n + 1  BY <1>1, <1>3, <2>1, <2>3 DEF Stands
  <2>4. CASE k # n + 1 /\ l # n + 1  BY <1>3, <2>1, <2>4 DEF OnceIn
  <2> QED  BY <2>2, <2>3, <2>4
<1>4. (OnceIn(s) /\ Element(x) \notin Stands(s)) => OnceIn(t)
  BY <1>3 DEF OnceIn
<1>5. \A k \in DOMAIN t : t[k] = x \/ \E j \in DOMAIN s : t[k] = s[j]
  <2>1. \A k \in DOMAIN t : k = n + 1 \/ (k \in DOMAIN s /\ t[k] = s[k])  BY <1>1
  <2> QED  BY <1>1, <2>1
<1> QED  BY <1>1, <1>2, <1>4, <1>5 DEF t

\* One less.
LEMMA StandsRemove ==
  ASSUME NEW S, NEW s \in Seq(S), NEW i \in DOMAIN s
  PROVE  /\ RemoveAt(s, i) \in Seq(S)
         /\ \A k \in DOMAIN RemoveAt(s, i) : \E j \in DOMAIN s : RemoveAt(s, i)[k] = s[j]
         /\ OnceIn(s) => /\ OnceIn(RemoveAt(s, i))
                         /\ Stands(RemoveAt(s, i)) = Stands(s) \ {Element(s[i])}
                         /\ Element(s[i]) \in Stands(s)
<1> DEFINE t == RemoveAt(s, i)
           n == Len(s)
           from == [k \in 1 .. n - 1 |-> IF k < i THEN k ELSE k + 1]
<1>1. /\ n \in Nat /\ i \in 1 .. n /\ DOMAIN s = 1 .. n
      /\ SubSeq(s, 1, i - 1) \in Seq(S) /\ SubSeq(s, i + 1, n) \in Seq(S)
      /\ Len(SubSeq(s, 1, i - 1)) = i - 1 /\ Len(SubSeq(s, i + 1, n)) = n - i
      /\ \A k \in 1 .. i - 1 : SubSeq(s, 1, i - 1)[k] = s[k]
      /\ \A k \in 1 .. n - i : SubSeq(s, i + 1, n)[k] = s[i + k]
  OBVIOUS
<1>2. /\ t \in Seq(S) /\ DOMAIN t = 1 .. n - 1
      /\ \A k \in 1 .. n - 1 : t[k] = s[from[k]]
  <2> DEFINE a == SubSeq(s, 1, i - 1)
             b == SubSeq(s, i + 1, n)
  <2>1. a \in Seq(S) /\ b \in Seq(S) /\ Len(a) = i - 1 /\ Len(b) = n - i  BY <1>1
  <2>2. t = a \o b  BY DEF RemoveAt
  <2>3. /\ \A k \in 1 .. i - 1 : a[k] = s[k]
        /\ \A k \in 1 .. n - i : b[k] = s[i + k]
    BY <1>1
  <2> HIDE DEF a, b, t
  <2>4. /\ t \in Seq(S) /\ Len(t) = Len(a) + Len(b)
        /\ \A k \in 1 .. Len(a) : t[k] = a[k]
        /\ \A k \in 1 .. Len(b) : t[Len(a) + k] = b[k]
    <3>1. /\ a \o b \in Seq(S) /\ Len(a \o b) = Len(a) + Len(b)
          /\ \A k \in 1 .. Len(a) : (a \o b)[k] = a[k]
          /\ \A k \in 1 .. Len(b) : (a \o b)[Len(a) + k] = b[k]
      <4>1. a \in Seq(S) /\ b \in Seq(S)  BY <2>1
      <4> QED  BY ONLY <4>1
    <3> QED  BY <2>2, <3>1
  <2>5. Len(t) = n - 1  BY <1>1, <2>1, <2>4
  <2>6. DOMAIN t = 1 .. n - 1  BY <2>4, <2>5
  <2>7. ASSUME NEW k \in 1 .. n - 1 PROVE t[k] = s[from[k]]
    <3>1. CASE k < i
      <4>1. k \in 1 .. i - 1 /\ k \in 1 .. Len(a)  BY <1>1, <2>1, <2>7, <3>1
      <4> QED  BY <2>3, <2>4, <3>1, <4>1
    <3>2. CASE ~(k < i)
      <4> DEFINE m == k - (i - 1)
      <4>1. m \in 1 .. n - i /\ m \in 1 .. Len(b) /\ Len(a) + m = k /\ i + m = k + 1
        <5>1. /\ n \in Nat /\ i \in 1 .. n /\ k \in 1 .. n - 1 /\ ~(k < i)
              /\ Len(a) = i - 1 /\ Len(b) = n - i
          BY <1>1, <2>1, <2>7, <3>2
        <5> HIDE DEF n
        <5> QED  BY ONLY <5>1
      <4> HIDE DEF m
      <4>2. t[k] = b[m] /\ b[m] = s[k + 1]  BY <2>3, <2>4, <4>1
      <4> QED  BY <3>2, <4>2
    <3> QED  BY <3>1, <3>2
  <2> QED  BY <2>4, <2>6, <2>7
<1> HIDE DEF t
<1>3. /\ \A k \in 1 .. n - 1 : from[k] \in DOMAIN s /\ from[k] # i
      /\ \A k, l \in 1 .. n - 1 : from[k] = from[l] => k = l
      /\ \A j \in DOMAIN s : j # i => \E k \in 1 .. n - 1 : from[k] = j
  <2>1. \A k \in 1 .. n - 1 : from[k] \in DOMAIN s /\ from[k] # i  BY <1>1
  <2>2. \A k, l \in 1 .. n - 1 : from[k] = from[l] => k = l  BY <1>1
  <2>3. ASSUME NEW j \in DOMAIN s, j # i PROVE \E k \in 1 .. n - 1 : from[k] = j
    <3>1. CASE j < i
      <4>1. j \in 1 .. n - 1 /\ from[j] = j  BY <1>1, <2>3, <3>1
      <4> QED  BY <4>1
    <3>2. CASE ~(j < i)
      <4>1. j - 1 \in 1 .. n - 1 /\ from[j - 1] = j  BY <1>1, <2>3, <3>2
      <4> QED  BY <4>1
    <3> QED  BY <3>1, <3>2
  <2> QED  BY <2>1, <2>2, <2>3
<1> HIDE DEF from, n
<1>4. ASSUME OnceIn(s) PROVE OnceIn(t)
  <2>1. SUFFICES ASSUME NEW k \in DOMAIN t, NEW l \in DOMAIN t, Element(t[k]) = Element(t[l])
                 PROVE  k = l
    BY DEF OnceIn
  <2>2. from[k] = from[l]  BY <1>2, <1>3, <1>4, <2>1 DEF OnceIn
  <2> QED  BY <1>2, <1>3, <2>2
<1>5. ASSUME OnceIn(s) PROVE Stands(t) = Stands(s) \ {Element(s[i])}
  <2>1. \A e \in Stands(t) : e \in Stands(s) /\ e # Element(s[i])
    BY <1>2, <1>3, <1>5 DEF Stands, OnceIn
  <2>2. \A e \in Stands(s) : e # Element(s[i]) => e \in Stands(t)
    BY <1>2, <1>3 DEF Stands
  <2> QED  BY <2>1, <2>2
<1>6. Element(s[i]) \in Stands(s)  BY DEF Stands
<1> QED  BY <1>2, <1>3, <1>4, <1>5, <1>6 DEF t

\* One in front.
LEMMA StandsBefore ==
  ASSUME NEW S, NEW s \in Seq(S), NEW x \in S
  PROVE  /\ <<x>> \o s \in Seq(S) /\ Len(<<x>> \o s) = Len(s) + 1
         /\ (<<x>> \o s)[1] = x
         /\ \A k \in DOMAIN (<<x>> \o s) : k # 1 => k - 1 \in DOMAIN s /\ (<<x>> \o s)[k] = s[k - 1]
         /\ Stands(<<x>> \o s) = {Element(x)} \cup Stands(s)
         /\ (OnceIn(s) /\ Element(x) \notin Stands(s)) => OnceIn(<<x>> \o s)
<1> DEFINE t == <<x>> \o s
           n == Len(s)
<1>1. /\ t \in Seq(S) /\ n \in Nat /\ DOMAIN t = 1 .. n + 1 /\ DOMAIN s = 1 .. n
      /\ t[1] = x /\ Len(t) = n + 1
      /\ \A k \in 1 .. n : t[k + 1] = s[k]
  <2> DEFINE o == <<x>>
  <2>1. o \in Seq(S) /\ Len(o) = 1 /\ o[1] = x /\ n \in Nat /\ DOMAIN s = 1 .. n  OBVIOUS
  <2>2. t = o \o s  OBVIOUS
  <2> HIDE DEF o, t, n
  <2>3. /\ o \o s \in Seq(S) /\ Len(o \o s) = Len(o) + n
        /\ \A k \in 1 .. Len(o) : (o \o s)[k] = o[k]
        /\ \A k \in 1 .. n : (o \o s)[Len(o) + k] = s[k]
    <3>1. o \in Seq(S) /\ s \in Seq(S)  BY <2>1
    <3> QED  BY ONLY <3>1, ConcatElements DEF n
  <2>4. t \in Seq(S) /\ Len(t) = n + 1  BY <2>1, <2>2, <2>3
  <2>5. DOMAIN t = 1 .. n + 1  BY <2>4
  <2>6. \A k \in 1 .. n : t[k + 1] = s[k]
    <3>1. \A k \in 1 .. n : k + 1 = Len(o) + k  BY <2>1
    <3> QED  BY <2>2, <2>3, <3>1
  <2>7. t[1] = x  BY <2>1, <2>2, <2>3
  <2> QED  BY <2>1, <2>4, <2>5, <2>6, <2>7
<1> HIDE DEF t, n
<1>2. \A k \in DOMAIN t : k # 1 => k - 1 \in DOMAIN s /\ t[k] = s[k - 1]
  <2>1. SUFFICES ASSUME NEW k \in DOMAIN t, k # 1
                 PROVE  k - 1 \in DOMAIN s /\ t[k] = s[k - 1]
    OBVIOUS
  <2>2. k - 1 \in 1 .. n /\ (k - 1) + 1 = k  BY <1>1, <2>1
  <2> QED  BY <1>1, <2>2
<1>3. Stands(t) = {Element(x)} \cup Stands(s)
  <2>1. 1 \in DOMAIN t  BY <1>1
  <2>2. \A k \in DOMAIN s : k + 1 \in DOMAIN t /\ t[k + 1] = s[k]  BY <1>1
  <2> QED  BY <1>1, <1>2, <2>1, <2>2 DEF Stands
<1>4. ASSUME OnceIn(s), Element(x) \notin Stands(s) PROVE OnceIn(t)
  <2>1. SUFFICES ASSUME NEW k \in DOMAIN t, NEW l \in DOMAIN t, Element(t[k]) = Element(t[l])
                 PROVE  k = l
    BY DEF OnceIn
  <2>2. CASE k = 1 /\ l # 1  BY <1>1, <1>2, <1>4, <2>1, <2>2 DEF Stands
  <2>3. CASE k # 1 /\ l = 1  BY <1>1, <1>2, <1>4, <2>1, <2>3 DEF Stands
  <2>4. CASE k # 1 /\ l # 1
    <3>1. k - 1 = l - 1  BY <1>2, <1>4, <2>1, <2>4 DEF OnceIn
    <3> QED  BY <1>1, <3>1
  <2> QED  BY <2>2, <2>3, <2>4
<1> QED  BY <1>1, <1>2, <1>3, <1>4 DEF t, n

-----------------------------------------------------------------------------
(* Ordering loops: what is released and what is kept. *)

\* Of the items of s, r gives those with the orders from n on and keeps the others.
Splits(s, n, r) ==
  /\ r.given \in Seq(Items) /\ r.held \in HeldTypes /\ Len(r.given) \in 0 .. 2
  /\ OnceIn(r.given) /\ OnceIn(r.held.elements)
  /\ Stands(r.given) \cap Stands(r.held.elements) = {}
  /\ Stands(r.given) \cup Stands(r.held.elements) = Stands(s)
  /\ \A k \in DOMAIN r.given :
       r.given[k].order = n + k - 1 /\ \E j \in DOMAIN s : r.given[k] = s[j]
  /\ \A k \in DOMAIN r.held.elements : \E j \in DOMAIN s : r.held.elements[k] = s[j]
  /\ r.held.current = n + Len(r.given)

\* One item.
LEMMA OneItem ==
  ASSUME NEW x \in Items
  PROVE  /\ <<x>> \in Seq(Items) /\ Len(<<x>>) = 1 /\ DOMAIN <<x>> = {1} /\ <<x>>[1] = x
         /\ Stands(<<x>>) = {Element(x)} /\ OnceIn(<<x>>)
<1>1. <<x>> \in Seq(Items) /\ Len(<<x>>) = 1 /\ DOMAIN <<x>> = {1} /\ <<x>>[1] = x
  OBVIOUS
<1> QED  BY <1>1 DEF Stands, OnceIn

\* None.
LEMMA NoItem ==
  /\ <<>> \in Seq(Items) /\ Len(<<>>) = 0 /\ DOMAIN <<>> = {}
  /\ Stands(<<>>) = {} /\ OnceIn(<<>>)
<1>1. <<>> \in Seq(Items) /\ Len(<<>>) = 0 /\ DOMAIN <<>> = {}
  OBVIOUS
<1> QED  BY <1>1 DEF Stands, OnceIn

\* One look among the elements.
LEMMA ReleaseOneSplits ==
  ASSUME NEW h \in HeldTypes, OnceIn(h.elements)
  PROVE  Splits(h.elements, h.current, ReleaseOne(h)) /\ Len(ReleaseOne(h).given) <= 1
<1> DEFINE r == ReleaseOne(h)
<1>1. /\ r.given \in Seq(Items) /\ r.held \in HeldTypes
      /\ h.elements \in Seq(Items) /\ h.current \in Int
  BY ReleaseOneType DEF HeldTypes
<1>2. CASE Positions(h) = {}
  <2>1. r.given = <<>> /\ r.held = h  BY <1>2 DEF ReleaseOne
  <2> HIDE DEF r
  <2>2. \A k \in DOMAIN r.held.elements : \E j \in DOMAIN h.elements : r.held.elements[k] = h.elements[j]
    BY <2>1
  <2> QED  BY <1>1, <2>1, <2>2, NoItem DEF Splits, r
<1>3. CASE Positions(h) # {}
  <2> DEFINE k == CHOOSE k \in Positions(h) : \A j \in Positions(h) : k <= j
  <2>1. /\ r.given = <<h.elements[k]>>
        /\ r.held = [h EXCEPT !.elements = RemoveAt(@, k), !.current = @ + 1]
    BY <1>3 DEF ReleaseOne
  <2>2. k \in Positions(h)
    <3>1. Positions(h) \subseteq Nat  BY <1>1 DEF Positions
    <3>2. \E n \in Positions(h) : \A m \in Positions(h) : n <= m
      BY <1>3, <3>1, Least
    <3> QED  BY <3>2
  <2>3. k \in DOMAIN h.elements /\ h.elements[k].order = h.current
    BY <2>2 DEF Positions
  <2> HIDE DEF k, r
  <2>4. /\ r.held.elements = RemoveAt(h.elements, k) /\ r.held.current = h.current + 1
    BY <2>1 DEF HeldTypes
  <2> DEFINE x == h.elements[k]
  <2>5. x \in Items  BY <1>1, <2>3
  <2>6. r.given = <<x>>  BY <2>1
  <2>7. /\ Len(r.given) = 1 /\ DOMAIN r.given = {1} /\ r.given[1] = x
        /\ Stands(r.given) = {Element(x)} /\ OnceIn(r.given)
    BY <2>5, <2>6, OneItem
  <2>8. /\ \A i \in DOMAIN r.held.elements : \E j \in DOMAIN h.elements :
             r.held.elements[i] = h.elements[j]
        /\ OnceIn(r.held.elements)
        /\ Stands(r.held.elements) = Stands(h.elements) \ {Element(x)}
        /\ Element(x) \in Stands(h.elements)
    BY <1>1, <2>3, <2>4, StandsRemove
  <2>9. \A i \in DOMAIN r.given : r.given[i].order = h.current + i - 1 /\
                                  \E j \in DOMAIN h.elements : r.given[i] = h.elements[j]
    <3>1. x.order = h.current + 1 - 1  BY <1>1, <2>3
    <3> QED  BY <2>3, <2>7, <3>1
  <2> HIDE DEF x
  <2> QED  BY <1>1, <2>4, <2>7, <2>8, <2>9 DEF Splits, r
<1> QED  BY <1>2, <1>3

\* The body of the loop for an item.
LEMMA ReleaseWithSplits ==
  ASSUME NEW h \in HeldTypes, OnceIn(h.elements), NEW item \in Items,
         Element(item) \notin Stands(h.elements)
  PROVE  Splits(Append(h.elements, item), h.current, ReleaseWith(h, item))
<1> DEFINE s == Append(h.elements, item)
<1>1. /\ h.elements \in Seq(Items) /\ h.current \in Int  BY DEF HeldTypes
<1>2. s \in Seq(Items) /\ Stands(s) = Stands(h.elements) \cup {Element(item)} /\ OnceIn(s)
  BY <1>1, StandsAppend
<1>3. CASE item.order = h.current
  <2> DEFINE next == [h EXCEPT !.current = @ + 1]
             r == ReleaseOne(next)
             w == ReleaseWith(h, item)
  <2>1. next \in HeldTypes /\ next.elements = h.elements /\ next.current = h.current + 1
    BY DEF HeldTypes
  <2>2. w = [r EXCEPT !.given = <<item>> \o @]  BY <1>3 DEF ReleaseWith
  <2>3. r = [given |-> r.given, held |-> r.held]  BY DEF ReleaseOne
  <2>4. Splits(next.elements, next.current, r) /\ Len(r.given) <= 1
    <3> HIDE DEF next
    <3> QED  BY <2>1, ReleaseOneSplits
  <2> HIDE DEF next, r, w
  <2>5. Splits(h.elements, h.current + 1, r)  BY <2>1, <2>4
  <2>6. w.given = <<item>> \o r.given /\ w.held = r.held  BY <2>2, <2>3
  <2>7. r.given \in Seq(Items) /\ Len(r.given) \in Nat  BY <2>5 DEF Splits
  <2>8. /\ w.given \in Seq(Items) /\ Len(w.given) = Len(r.given) + 1
        /\ w.given[1] = item
        /\ \A k \in DOMAIN w.given : k # 1 => k - 1 \in DOMAIN r.given /\ w.given[k] = r.given[k - 1]
        /\ Stands(w.given) = {Element(item)} \cup Stands(r.given)
        /\ Element(item) \notin Stands(r.given) => OnceIn(w.given)
    BY <2>5, <2>6, <2>7, StandsBefore DEF Splits
  <2>9. OnceIn(w.given)  BY <2>5, <2>8 DEF Splits
  <2>10. \A j \in DOMAIN h.elements : \E i \in DOMAIN s : h.elements[j] = s[i]
    BY <1>1
  <2>11. \E i \in DOMAIN s : item = s[i]
    <3>1. Len(h.elements) + 1 \in DOMAIN s /\ s[Len(h.elements) + 1] = item  BY <1>1
    <3> QED  BY <3>1
  <2> HIDE DEF s
  <2>12. ASSUME NEW k \in DOMAIN w.given
         PROVE  w.given[k].order = h.current + k - 1 /\ \E j \in DOMAIN s : w.given[k] = s[j]
    <3>1. k \in Nat  BY <2>8
    <3>2. CASE k = 1  BY <1>1, <1>3, <2>8, <2>11, <3>2
    <3>3. CASE k # 1
      <4>1. k - 1 \in DOMAIN r.given /\ w.given[k] = r.given[k - 1]  BY <2>8, <3>3
      <4>2. r.given[k - 1].order = (h.current + 1) + (k - 1) - 1
        BY <2>5, <4>1 DEF Splits
      <4>3. \E j \in DOMAIN h.elements : r.given[k - 1] = h.elements[j]
        BY <2>5, <4>1 DEF Splits
      <4>4. \E j \in DOMAIN s : w.given[k] = s[j]  BY <2>10, <4>1, <4>3
      <4>5. (h.current + 1) + (k - 1) - 1 = h.current + k - 1  BY <1>1, <3>1
      <4> QED  BY <4>1, <4>2, <4>4, <4>5
    <3> QED  BY <3>2, <3>3
  <2>13. w.held.current = h.current + Len(w.given) /\ Len(w.given) \in 0 .. 2
    BY <1>1, <2>4, <2>5, <2>6, <2>7, <2>8 DEF Splits
  <2>14. /\ w.held \in HeldTypes /\ OnceIn(w.held.elements)
         /\ \A k \in DOMAIN w.held.elements : \E j \in DOMAIN s : w.held.elements[k] = s[j]
    BY <2>5, <2>6, <2>10 DEF Splits
  <2>15. /\ Stands(w.given) \cap Stands(w.held.elements) = {}
         /\ Stands(w.given) \cup Stands(w.held.elements) = Stands(s)
    BY <1>2, <2>5, <2>6, <2>8 DEF Splits
  <2> QED  BY <2>8, <2>9, <2>12, <2>13, <2>14, <2>15 DEF Splits, s, w
<1>4. CASE item.order # h.current
  <2> DEFINE more == [h EXCEPT !.elements = Append(@, item)]
  <2>1. more \in HeldTypes /\ more.elements = s /\ more.current = h.current
    BY <1>1, <1>2 DEF HeldTypes
  <2>2. ReleaseWith(h, item) = ReleaseOne(more)  BY <1>4 DEF ReleaseWith
  <2> HIDE DEF more, s
  <2>3. Splits(more.elements, more.current, ReleaseOne(more))  BY <1>2, <2>1, ReleaseOneSplits
  <2> QED  BY <2>1, <2>2, <2>3 DEF s
<1> QED  BY <1>3, <1>4

-----------------------------------------------------------------------------
(* What the ordering thread of a filter hands on of at most two items. *)

\* How many of them in front of the j-th carry a value, and how many at all.
ValuesUpTo(given, j) ==
  IF j = 0 THEN 0 ELSE
  IF j = 1 THEN (IF Empty(given[1]) THEN 0 ELSE 1)
           ELSE (IF Empty(given[1]) THEN 0 ELSE 1) + (IF Empty(given[2]) THEN 0 ELSE 1)

\* A pair.
LEMMA PairOf ==
  ASSUME NEW S, NEW x \in S, NEW y \in S
  PROVE  <<x>> \o <<y>> = <<x, y>>
<1>1. <<x>> \in Seq(S) /\ <<y>> \in Seq(S) /\ <<x, y>> = Append(<<x>>, y)  OBVIOUS
<1>2. <<x>> \o <<y>> = Append(<<x>>, y)  BY ONLY <1>1
<1> QED  BY <1>1, <1>2

\* Two sequences behind one another.
LEMMA FlattenTwo ==
  ASSUME NEW S, NEW a \in Seq(S), NEW b \in Seq(S)
  PROVE  FlattenSeq(<<a, b>>) = a \o b
<1>1. <<a>> \in Seq(Seq(S)) /\ <<a, b>> = Append(<<a>>, b)  OBVIOUS
<1>2. FlattenSeq(Append(<<a>>, b)) = FlattenSeq(<<a>>) \o b  BY <1>1, FlattenAppend
<1>3. FlattenSeq(<<a>>) = a  BY FlattenOne
<1> QED  BY <1>1, <1>2, <1>3

\* The values among the items.
ValuesOf(given) ==
  FlattenSeq([k \in DOMAIN given |-> IF Empty(given[k]) THEN <<>> ELSE <<given[k]>>])

\* The values among two items at most, written out.
LEMMA ValuesOfTwo ==
  ASSUME NEW given \in Seq(Items), Len(given) \in 0 .. 2
  PROVE  ValuesOf(given) =
           CASE Len(given) = 0 -> <<>>
             [] Len(given) = 1 -> IF Empty(given[1]) THEN <<>> ELSE <<given[1]>>
             [] OTHER -> IF Empty(given[1])
                         THEN IF Empty(given[2]) THEN <<>> ELSE <<given[2]>>
                         ELSE IF Empty(given[2]) THEN <<given[1]>> ELSE <<given[1], given[2]>>
<1> DEFINE W(x) == IF Empty(x) THEN <<>> ELSE <<x>>
           parts == [k \in DOMAIN given |-> W(given[k])]
<1>0. ValuesOf(given) = FlattenSeq(parts)  BY DEF ValuesOf
<1>1. DOMAIN given = 1 .. Len(given)  OBVIOUS
<1>2. \A x \in Items : W(x) \in Seq(Items)  OBVIOUS
<1>3. CASE Len(given) = 0
  <2>1. parts = <<>>  BY <1>1, <1>3
  <2> QED  BY <1>0, <1>3, <2>1, FlattenEmpty
<1>4. CASE Len(given) = 1
  <2>1. given[1] \in Items  BY <1>4
  <2>2. parts = <<W(given[1])>>
    <3>1. DOMAIN given = 1 .. 1  BY <1>1, <1>4
    <3> HIDE DEF W
    <3> QED  BY <3>1
  <2> HIDE DEF parts
  <2>3. FlattenSeq(parts) = W(given[1])  BY <2>2, FlattenOne
  <2> QED  BY <1>0, <1>4, <2>3
<1>5. CASE Len(given) = 2
  <2>1. given[1] \in Items /\ given[2] \in Items  BY <1>5
  <2>2. parts = <<W(given[1]), W(given[2])>>
    <3>1. DOMAIN given = 1 .. 2  BY <1>1, <1>5
    <3> HIDE DEF W
    <3> QED  BY <3>1
  <2>3. W(given[1]) \in Seq(Items) /\ W(given[2]) \in Seq(Items)  BY <1>2, <2>1
  <2> HIDE DEF parts
  <2>4. FlattenSeq(parts) = W(given[1]) \o W(given[2])
    <3> HIDE DEF W
    <3> QED  BY <2>2, <2>3, FlattenTwo
  <2>5. /\ <<>> \o <<>> = <<>>
        /\ <<>> \o <<given[2]>> = <<given[2]>> /\ <<given[1]>> \o <<>> = <<given[1]>>
        /\ <<given[1]>> \o <<given[2]>> = <<given[1], given[2]>>
    <3>1. ASSUME NEW x \in Items, NEW y \in Items
          PROVE  <<>> \o <<x>> = <<x>> /\ <<x>> \o <<>> = <<x>> /\ <<x>> \o <<y>> = <<x, y>>
      <4>1. <<x>> \in Seq(Items) /\ <<y>> \in Seq(Items)  OBVIOUS
      <4>2. <<>> \o <<x>> = <<x>> /\ <<x>> \o <<>> = <<x>>  BY <4>1, ConcatEmpty
      <4>3. <<x>> \o <<y>> = <<x, y>>  BY PairOf
      <4> QED  BY <4>2, <4>3
    <3>2. <<>> \o <<>> = <<>>
      <4>1. <<>> \in Seq(Items)  OBVIOUS
      <4> QED  BY <4>1, ConcatEmpty
    <3> QED  BY <2>1, <3>1, <3>2
  <2>6. ValuesOf(given) = IF Empty(given[1])
                         THEN IF Empty(given[2]) THEN <<>> ELSE <<given[2]>>
                         ELSE IF Empty(given[2]) THEN <<given[1]>> ELSE <<given[1], given[2]>>
    BY <1>0, <2>4, <2>5
  <2> QED  BY <1>5, <2>6
<1> QED  BY <1>3, <1>4, <1>5

\* They are numbered from n on.
LEMMA RenumberedTwo ==
  ASSUME NEW given \in Seq(Items), Len(given) \in 0 .. 2, NEW n \in Nat
  PROVE  LET K == Renumbered(given, n) IN
         /\ Len(K) = ValuesUpTo(given, Len(given))
         /\ \A k \in DOMAIN K : \E j \in DOMAIN given :
              /\ ~Empty(given[j]) /\ k = ValuesUpTo(given, j)
              /\ K[k].value = given[j].value /\ K[k].order = n + ValuesUpTo(given, j - 1)
         /\ \A j \in DOMAIN given : ~Empty(given[j]) =>
              \E k \in DOMAIN K : K[k].value = given[j].value
<1> DEFINE K == Renumbered(given, n)
           V == ValuesOf(given)
           T(x, k) == [x EXCEPT !.order = n + k - 1]
<1>1. K = [k \in DOMAIN V |-> T(V[k], k)]  BY DEF Renumbered, ValuesOf
<1>2. \A x \in Items, k \in {1, 2} : T(x, k).value = x.value /\ T(x, k).order = n + k - 1
  BY DEF Items
<1>3. DOMAIN given = 1 .. Len(given)  OBVIOUS
<1>4. \A j \in DOMAIN given : given[j] \in Items  OBVIOUS
<1> HIDE DEF V, T, K
<1>5. V = CASE Len(given) = 0 -> <<>>
             [] Len(given) = 1 -> IF Empty(given[1]) THEN <<>> ELSE <<given[1]>>
             [] OTHER -> IF Empty(given[1])
                         THEN IF Empty(given[2]) THEN <<>> ELSE <<given[2]>>
                         ELSE IF Empty(given[2]) THEN <<given[1]>> ELSE <<given[1], given[2]>>
  BY ValuesOfTwo DEF V
<1>6. ASSUME NEW x, V = <<x>> PROVE DOMAIN K = 1 .. 1 /\ K[1] = T(x, 1) /\ Len(K) = 1
  <2>1. DOMAIN V = 1 .. 1 /\ V[1] = x  BY <1>6
  <2>2. K = [k \in 1 .. 1 |-> T(V[k], k)]  BY <1>1, <2>1
  <2> QED  BY <2>1, <2>2
<1>7. ASSUME NEW x, NEW y, V = <<x, y>>
      PROVE  DOMAIN K = 1 .. 2 /\ K[1] = T(x, 1) /\ K[2] = T(y, 2) /\ Len(K) = 2
  <2>1. DOMAIN V = 1 .. 2 /\ V[1] = x /\ V[2] = y  BY <1>7
  <2>2. K = [k \in 1 .. 2 |-> T(V[k], k)]  BY <1>1, <2>1
  <2> QED  BY <2>1, <2>2
<1>8. ASSUME V = <<>> PROVE DOMAIN K = {} /\ Len(K) = 0
  <2>1. DOMAIN V = 1 .. 0  BY <1>8
  <2>2. K = [k \in 1 .. 0 |-> T(V[k], k)]  BY <1>1, <2>1
  <2> QED  BY <2>2
<1> DEFINE Goal == /\ Len(K) = ValuesUpTo(given, Len(given))
                   /\ \A k \in DOMAIN K : \E j \in DOMAIN given :
                        /\ ~Empty(given[j]) /\ k = ValuesUpTo(given, j)
                        /\ K[k].value = given[j].value
                        /\ K[k].order = n + ValuesUpTo(given, j - 1)
                   /\ \A j \in DOMAIN given : ~Empty(given[j]) =>
                        \E k \in DOMAIN K : K[k].value = given[j].value
<1>9. CASE Len(given) = 0
  <2>1. V = <<>> /\ DOMAIN given = {}  BY <1>3, <1>5, <1>9
  <2> QED  BY <1>8, <1>9, <2>1 DEF ValuesUpTo, K
<1>10. CASE Len(given) = 1
  <2>1. DOMAIN given = {1} /\ given[1] \in Items  BY <1>3, <1>10
  <2>2. CASE Empty(given[1])
    <3>1. V = <<>>  BY <1>5, <1>10, <2>2
    <3> QED  BY <1>8, <1>10, <2>1, <2>2, <3>1 DEF ValuesUpTo, K
  <2>3. CASE ~Empty(given[1])
    <3>1. V = <<given[1]>>  BY <1>5, <1>10, <2>3
    <3>2. DOMAIN K = {1} /\ K[1] = T(given[1], 1) /\ Len(K) = 1  BY <1>6, <3>1
    <3>3. K[1].value = given[1].value /\ K[1].order = n  BY <1>2, <2>1, <3>2
    <3> QED  BY <1>10, <2>1, <2>3, <3>2, <3>3 DEF ValuesUpTo, K
  <2> QED  BY <2>2, <2>3
<1>11. CASE Len(given) = 2
  <2>1. DOMAIN given = {1, 2} /\ given[1] \in Items /\ given[2] \in Items  BY <1>3, <1>11
  <2>2. CASE Empty(given[1]) /\ Empty(given[2])
    <3>1. V = <<>>  BY <1>5, <1>11, <2>2
    <3> QED  BY <1>8, <1>11, <2>1, <2>2, <3>1 DEF ValuesUpTo, K
  <2>3. CASE Empty(given[1]) /\ ~Empty(given[2])
    <3>1. V = <<given[2]>>  BY <1>5, <1>11, <2>3
    <3>2. DOMAIN K = {1} /\ K[1] = T(given[2], 1) /\ Len(K) = 1  BY <1>6, <3>1
    <3>3. K[1].value = given[2].value /\ K[1].order = n  BY <1>2, <2>1, <3>2
    <3> QED  BY <1>11, <2>1, <2>3, <3>2, <3>3 DEF ValuesUpTo, K
  <2>4. CASE ~Empty(given[1]) /\ Empty(given[2])
    <3>1. V = <<given[1]>>  BY <1>5, <1>11, <2>4
    <3>2. DOMAIN K = {1} /\ K[1] = T(given[1], 1) /\ Len(K) = 1  BY <1>6, <3>1
    <3>3. K[1].value = given[1].value /\ K[1].order = n  BY <1>2, <2>1, <3>2
    <3> QED  BY <1>11, <2>1, <2>4, <3>2, <3>3 DEF ValuesUpTo, K
  <2>5. CASE ~Empty(given[1]) /\ ~Empty(given[2])
    <3>1. V = <<given[1], given[2]>>  BY <1>5, <1>11, <2>5
    <3>2. DOMAIN K = {1, 2} /\ K[1] = T(given[1], 1) /\ K[2] = T(given[2], 2) /\ Len(K) = 2
      BY <1>7, <3>1
    <3>3. /\ K[1].value = given[1].value /\ K[1].order = n
          /\ K[2].value = given[2].value /\ K[2].order = n + 1
      BY <1>2, <2>1, <3>2
    <3> QED  BY <1>11, <2>1, <2>5, <3>2, <3>3 DEF ValuesUpTo, K
  <2> QED  BY <2>2, <2>3, <2>4, <2>5
<1> QED  BY <1>9, <1>10, <1>11 DEF K

-----------------------------------------------------------------------------
(* The elements in a queue and in a hand when a message moves. *)

\* What is said of items has nothing to do with the state.
LEMMA ItemsStay ==
  /\ \A item : (Empty(item)' <=> Empty(item)) /\ Element(item)' = Element(item)
  /\ \A s : Stands(s)' = Stands(s) /\ (OnceIn(s)' <=> OnceIn(s))
BY DEF Empty, Element, Stands, OnceIn, NoValue

\* A queue that is left alone.
LEMMA QueuedSame ==
  ASSUME conf' = conf, NEW q, queue'[q] = queue[q]
  PROVE  /\ OnQueue(q)' = OnQueue(q) /\ Queued(q)' = Queued(q)
         /\ QueuedOnce(q)' <=> QueuedOnce(q)
<1>1. OnQueue(q)' = OnQueue(q)  BY MarkersStay DEF OnQueue
<1> QED  BY <1>1, ItemsStay DEF Queued, QueuedOnce

\* An item is taken.
LEMMA QueuedTaken ==
  ASSUME queue \in [Queues -> Seq(Items)], conf' = conf, NEW th, NEW item, Takes(th, item),
         NEW q \in Queues, q = input_queue(th), QueuedOnce(q)
  PROVE  /\ QueuedOnce(q)'
         /\ Queued(q)' = IF IsMarker(q, item) THEN Queued(q) ELSE Queued(q) \ {Element(item)}
         /\ ~IsMarker(q, item) => /\ Element(item) \in Queued(q)
                                  /\ \E k \in OnQueue(q) : queue[q][k] = item
         /\ \A k \in OnQueue(q)' : \E j \in OnQueue(q) : queue'[q][k] = queue[q][j]
         /\ \A r \in Queues : r # q => queue'[r] = queue[r]
<1>1. queue[q] \in Seq(Items) /\ queue[q] # <<>> /\ queue'[q] = Tail(queue[q]) /\ item = Head(queue[q])
  BY DEF Takes
<1>2. /\ 1 \in DOMAIN queue[q] /\ queue[q][1] = item
      /\ \A k \in DOMAIN queue'[q] : /\ k \in Nat \ {0}
                                     /\ k + 1 \in DOMAIN queue[q] /\ queue'[q][k] = queue[q][k + 1]
      /\ \A k \in DOMAIN queue[q] : k # 1 => k - 1 \in DOMAIN queue'[q] /\ queue'[q][k - 1] = queue[q][k]
      /\ DOMAIN queue[q] \subseteq Nat
  BY <1>1, TailOf
<1>3. OnQueue(q)' = {k \in DOMAIN queue'[q] : ~IsMarker(q, queue'[q][k])}
  BY MarkersStay DEF OnQueue
<1>4. OnQueue(q) = {k \in DOMAIN queue[q] : ~IsMarker(q, queue[q][k])}  BY DEF OnQueue
<1>5. \A k \in OnQueue(q)' : k \in Nat \ {0} /\ k + 1 \in OnQueue(q) /\ queue'[q][k] = queue[q][k + 1]
  BY <1>2, <1>3, <1>4
<1>6. \A k \in OnQueue(q) : /\ k = 1 => ~IsMarker(q, item)
                            /\ k # 1 => k - 1 \in OnQueue(q)' /\ queue'[q][k - 1] = queue[q][k]
  BY <1>2, <1>3, <1>4
<1>7. ~IsMarker(q, item) => 1 \in OnQueue(q)  BY <1>2, <1>4
<1>8. QueuedOnce(q)'
  <2>1. SUFFICES ASSUME NEW k \in OnQueue(q)', NEW l \in OnQueue(q)',
                        Element(queue'[q][k]) = Element(queue'[q][l])
                 PROVE  k = l
    BY ItemsStay DEF QueuedOnce
  <2>2. k + 1 = l + 1  BY <1>5, <2>1 DEF QueuedOnce
  <2> QED  BY <1>5, <2>2
<1>9. Queued(q)' = {Element(queue'[q][k]) : k \in OnQueue(q)'}  BY ItemsStay DEF Queued
<1>10. \A e \in Queued(q)' : e \in Queued(q) /\ (~IsMarker(q, item) => e # Element(item))
  <2>1. SUFFICES ASSUME NEW k \in OnQueue(q)'
                 PROVE  /\ Element(queue'[q][k]) \in Queued(q)
                        /\ ~IsMarker(q, item) => Element(queue'[q][k]) # Element(item)
    BY <1>9
  <2>2. k + 1 \in OnQueue(q) /\ queue'[q][k] = queue[q][k + 1] /\ k + 1 # 1  BY <1>5
  <2>3. ~IsMarker(q, item) => Element(queue[q][k + 1]) # Element(item)
    BY <1>2, <1>7, <2>2 DEF QueuedOnce
  <2> QED  BY <2>2, <2>3 DEF Queued
<1>11. \A e \in Queued(q) : e \in Queued(q)' \/ (~IsMarker(q, item) /\ e = Element(item))
  <2>1. SUFFICES ASSUME NEW k \in OnQueue(q)
                 PROVE  Element(queue[q][k]) \in Queued(q)' \/
                        (~IsMarker(q, item) /\ Element(queue[q][k]) = Element(item))
    BY DEF Queued
  <2>2. CASE k = 1  BY <1>2, <1>6, <2>2
  <2>3. CASE k # 1  BY <1>6, <1>9, <2>3
  <2> QED  BY <2>2, <2>3
<1>12. ~IsMarker(q, item) => Element(item) \in Queued(q)  BY <1>2, <1>7 DEF Queued
<1>13. Queued(q)' = IF IsMarker(q, item) THEN Queued(q) ELSE Queued(q) \ {Element(item)}
  BY <1>10, <1>11
<1>14. \A r \in Queues : r # q => queue'[r] = queue[r]  BY DEF Takes
<1> QED  BY <1>2, <1>5, <1>7, <1>8, <1>12, <1>13, <1>14

\* An item is added.
LEMMA QueuedAdded ==
  ASSUME queue \in [Queues -> Seq(Items)], conf' = conf, NEW q \in Queues, NEW item \in Items,
         queue'[q] = Append(queue[q], item), QueuedOnce(q),
         ~IsMarker(q, item) => Element(item) \notin Queued(q)
  PROVE  /\ QueuedOnce(q)'
         /\ Queued(q)' = IF IsMarker(q, item) THEN Queued(q) ELSE Queued(q) \cup {Element(item)}
         /\ \A k \in OnQueue(q)' : \/ k \in OnQueue(q) /\ queue'[q][k] = queue[q][k]
                                   \/ ~IsMarker(q, item) /\ queue'[q][k] = item
<1> DEFINE n == Len(queue[q])
<1>1. /\ n \in Nat /\ DOMAIN queue'[q] = 1 .. n + 1 /\ DOMAIN queue[q] = 1 .. n
      /\ \A k \in 1 .. n : queue'[q][k] = queue[q][k]
      /\ queue'[q][n + 1] = item
  <2>1. queue[q] \in Seq(Items)  OBVIOUS
  <2> QED  BY <2>1
<1> HIDE DEF n
<1>2. OnQueue(q)' = {k \in DOMAIN queue'[q] : ~IsMarker(q, queue'[q][k])}
  BY MarkersStay DEF OnQueue
<1>3. OnQueue(q) = {k \in DOMAIN queue[q] : ~IsMarker(q, queue[q][k])}  BY DEF OnQueue
<1>4. \A k \in OnQueue(q)' : \/ k \in OnQueue(q) /\ queue'[q][k] = queue[q][k]
                             \/ ~IsMarker(q, item) /\ queue'[q][k] = item /\ k = n + 1
  <2>1. \A k \in DOMAIN queue'[q] : k \in DOMAIN queue[q] \/ k = n + 1  BY <1>1
  <2> QED  BY <1>1, <1>2, <1>3, <2>1
<1>5. \A k \in OnQueue(q) : k \in OnQueue(q)' /\ queue'[q][k] = queue[q][k]
  <2>1. \A k \in DOMAIN queue[q] : k \in DOMAIN queue'[q] /\ queue'[q][k] = queue[q][k]  BY <1>1
  <2> QED  BY <1>2, <1>3, <2>1
<1>6. ~IsMarker(q, item) => n + 1 \in OnQueue(q)' /\ queue'[q][n + 1] = item
  <2>1. n + 1 \in DOMAIN queue'[q]  BY <1>1
  <2> QED  BY <1>1, <1>2, <2>1
<1>7. QueuedOnce(q)'
  <2>1. SUFFICES ASSUME NEW k \in OnQueue(q)', NEW l \in OnQueue(q)',
                        Element(queue'[q][k]) = Element(queue'[q][l])
                 PROVE  k = l
    BY ItemsStay DEF QueuedOnce
  <2>2. CASE k \in OnQueue(q) /\ l \in OnQueue(q)
    BY <1>5, <2>1, <2>2 DEF QueuedOnce
  <2>3. CASE k \in OnQueue(q) /\ l \notin OnQueue(q)
    BY <1>4, <1>5, <2>1, <2>3 DEF Queued
  <2>4. CASE k \notin OnQueue(q) /\ l \in OnQueue(q)
    BY <1>4, <1>5, <2>1, <2>4 DEF Queued
  <2>5. CASE k \notin OnQueue(q) /\ l \notin OnQueue(q)
    BY <1>4, <2>5
  <2> QED  BY <2>2, <2>3, <2>4, <2>5
<1>8. Queued(q)' = {Element(queue'[q][k]) : k \in OnQueue(q)'}  BY ItemsStay DEF Queued
<1>9. \A e \in Queued(q)' : e \in Queued(q) \/ (~IsMarker(q, item) /\ e = Element(item))
  BY <1>4, <1>8 DEF Queued
<1>10. \A e \in Queued(q) : e \in Queued(q)'
  BY <1>5, <1>8 DEF Queued
<1>11. ~IsMarker(q, item) => Element(item) \in Queued(q)'  BY <1>6, <1>8
<1>12. Queued(q)' = IF IsMarker(q, item) THEN Queued(q) ELSE Queued(q) \cup {Element(item)}
  BY <1>9, <1>10, <1>11
<1> QED  BY <1>4, <1>7, <1>12

\* Hands that are left alone, that are empty, and that get one message.
LEMMA HandedSame ==
  ASSUME conf' = conf, NEW th, out'[th] = out[th]
  PROVE  /\ InHand(th)' = InHand(th) /\ Handed(th)' = Handed(th)
         /\ HandedOnce(th)' <=> HandedOnce(th)
<1>1. InHand(th)' = InHand(th)  BY MarkersStay DEF InHand
<1> QED  BY <1>1, ItemsStay DEF Handed, HandedOnce

\* An empty hand.
LEMMA HandedNone ==
  ASSUME NEW th, out[th] = <<>>
  PROVE  InHand(th) = {} /\ Handed(th) = {} /\ HandedOnce(th)
BY DEF InHand, Handed, HandedOnce

\* What a thread has in its hand behind a step.
LEMMA HandedNew ==
  ASSUME conf' = conf, NEW th
  PROVE  /\ InHand(th)' = {k \in DOMAIN out'[th] : ~IsEndMsg(out'[th][k])}
         /\ Handed(th)' = {Element(out'[th][k].item) : k \in InHand(th)'}
         /\ HandedOnce(th)' <=> \A k, l \in InHand(th)' :
              Element(out'[th][k].item) = Element(out'[th][l].item) => k = l
BY MarkersStay, ItemsStay DEF InHand, Handed, HandedOnce

\* One message in a hand that was empty.
LEMMA HandedOne ==
  ASSUME conf' = conf, NEW th, NEW m, out'[th] = <<m>>
  PROVE  /\ InHand(th)' = IF IsEndMsg(m) THEN {} ELSE {1}
         /\ out'[th][1] = m
         /\ Handed(th)' = IF IsEndMsg(m) THEN {} ELSE {Element(m.item)}
         /\ HandedOnce(th)'
<1>1. DOMAIN out'[th] = {1} /\ out'[th][1] = m  OBVIOUS
<1>2. InHand(th)' = IF IsEndMsg(m) THEN {} ELSE {1}  BY <1>1, HandedNew
<1> QED  BY <1>1, <1>2, HandedNew

\* A message leaves the hand.
LEMMA HandedOn ==
  ASSUME NEW th \in Threads, out \in [Threads -> Seq(Messages)], HandsOver(th), HandedOnce(th)
  PROVE  LET m == Head(out[th]) IN
         /\ HandedOnce(th)'
         /\ Handed(th)' = IF IsEndMsg(m) THEN Handed(th) ELSE Handed(th) \ {Element(m.item)}
         /\ ~IsEndMsg(m) => 1 \in InHand(th) /\ Element(m.item) \in Handed(th)
         /\ out[th][1] = m /\ 1 \in DOMAIN out[th]
         /\ \A k \in InHand(th)' : /\ k \in Nat \ {0} /\ k + 1 \in InHand(th)
                                   /\ out'[th][k] = out[th][k + 1]
<1> DEFINE m == Head(out[th])
<1>0. conf' = conf  BY DEF HandsOver, Frame
<1>1. /\ 1 \in DOMAIN out[th] /\ out[th][1] = m
      /\ \A k \in DOMAIN out'[th] : /\ k \in Nat \ {0}
                                     /\ k + 1 \in DOMAIN out[th] /\ out'[th][k] = out[th][k + 1]
      /\ \A k \in DOMAIN out[th] : k # 1 => k - 1 \in DOMAIN out'[th] /\ out'[th][k - 1] = out[th][k]
  BY TailOf DEF HandsOver
<1> HIDE DEF m
<1>3. InHand(th)' = {k \in DOMAIN out'[th] : ~IsEndMsg(out'[th][k])}  BY <1>0, HandedNew
<1>4. InHand(th) = {k \in DOMAIN out[th] : ~IsEndMsg(out[th][k])}  BY DEF InHand
<1>5. \A k \in InHand(th)' : k \in Nat \ {0} /\ k + 1 \in InHand(th) /\ out'[th][k] = out[th][k + 1]
  BY <1>1, <1>3, <1>4
<1>6. \A k \in InHand(th) : /\ k = 1 => ~IsEndMsg(m)
                            /\ k # 1 => k - 1 \in InHand(th)' /\ out'[th][k - 1] = out[th][k]
  BY <1>1, <1>3, <1>4
<1>7. ~IsEndMsg(m) => 1 \in InHand(th)  BY <1>1, <1>4
<1>8. HandedOnce(th)'
  <2>1. SUFFICES ASSUME NEW k \in InHand(th)', NEW l \in InHand(th)',
                        Element(out'[th][k].item) = Element(out'[th][l].item)
                 PROVE  k = l
    BY <1>0, HandedNew
  <2>2. k + 1 = l + 1  BY <1>5, <2>1 DEF HandedOnce
  <2> QED  BY <1>5, <2>2
<1>9. Handed(th)' = {Element(out'[th][k].item) : k \in InHand(th)'}  BY <1>0, HandedNew
<1>10. \A e \in Handed(th)' : e \in Handed(th) /\ (~IsEndMsg(m) => e # Element(m.item))
  <2>1. SUFFICES ASSUME NEW k \in InHand(th)'
                 PROVE  /\ Element(out'[th][k].item) \in Handed(th)
                        /\ ~IsEndMsg(m) => Element(out'[th][k].item) # Element(m.item)
    BY <1>9
  <2>2. k + 1 \in InHand(th) /\ out'[th][k] = out[th][k + 1] /\ k + 1 # 1  BY <1>5
  <2>3. ~IsEndMsg(m) => Element(out[th][k + 1].item) # Element(m.item)
    BY <1>1, <1>7, <2>2 DEF HandedOnce
  <2> QED  BY <2>2, <2>3 DEF Handed
<1>11. \A e \in Handed(th) : e \in Handed(th)' \/ (~IsEndMsg(m) /\ e = Element(m.item))
  <2>1. SUFFICES ASSUME NEW k \in InHand(th)
                 PROVE  Element(out[th][k].item) \in Handed(th)' \/
                        (~IsEndMsg(m) /\ Element(out[th][k].item) = Element(m.item))
    BY DEF Handed
  <2>2. CASE k = 1  BY <1>1, <1>6, <2>2
  <2>3. CASE k # 1  BY <1>6, <1>9, <2>3
  <2> QED  BY <2>2, <2>3
<1>12. ~IsEndMsg(m) => Element(m.item) \in Handed(th)  BY <1>1, <1>7 DEF Handed
<1> QED  BY <1>1, <1>5, <1>7, <1>8, <1>10, <1>11, <1>12 DEF m

-----------------------------------------------------------------------------
(* A step of one thread moves elements between places of its own. *)

\* Sets stay disjoint when only some change, and these among themselves.
LEMMA StillSeparate ==
  ASSUME NEW S, NEW C, NEW D, NEW T \in SUBSET S, NEW fresh,
         \A p, r \in S : p # r => C[p] \cap C[r] = {},
         \A p \in S \ T : D[p] = C[p],
         \A p, r \in T : p # r => D[p] \cap D[r] = {},
         \A p \in T : \A e \in D[p] : e \in fresh \/ \E r \in T : e \in C[r],
         \A p \in S : fresh \cap C[p] = {}
  PROVE  \A p, r \in S : p # r => D[p] \cap D[r] = {}
<1>1. SUFFICES ASSUME NEW p \in S, NEW r \in S, p # r, NEW e, e \in D[p], e \in D[r] PROVE FALSE
  OBVIOUS
<1>2. CASE p \in T /\ r \in T  BY <1>1, <1>2
<1>3. CASE p \notin T /\ r \notin T  BY <1>1, <1>3
<1>4. CASE p \in T /\ r \notin T  BY <1>1, <1>4
<1>5. CASE p \notin T /\ r \in T  BY <1>1, <1>5
<1> QED  BY <1>2, <1>3, <1>4, <1>5

\* The places, and what is in them.
LEMMA SpotsAre ==
  /\ \A q \in Queues : <<"queue", q>> \in Spots /\ Contents(<<"queue", q>>) = Queued(q)
  /\ \A th \in Threads : /\ <<"hand", th>> \in Spots /\ Contents(<<"hand", th>>) = Handed(th)
                         /\ <<"kept", th>> \in Spots /\ Contents(<<"kept", th>>) = KeptBack(th)
  /\ <<"user", User>> \in Spots /\ Contents(<<"user", User>>) = Delivered
  /\ \A p \in Spots : \/ \E q \in Queues : p = <<"queue", q>>
                      \/ \E th \in Threads : p = <<"hand", th>> \/ p = <<"kept", th>>
                      \/ p = <<"user", User>>
BY DEF Spots, Contents

\* The same behind a step.
LEMMA SpotsStay ==
  ASSUME conf' = conf, DOMAIN queue' = DOMAIN queue
  PROVE  /\ Spots' = Spots
         /\ \A q \in Queues : Contents(<<"queue", q>>)' = Queued(q)'
         /\ \A th \in Threads : /\ Contents(<<"hand", th>>)' = Handed(th)'
                                /\ Contents(<<"kept", th>>)' = KeptBack(th)'
         /\ Contents(<<"user", User>>)' = Delivered'
<1>1. Threads' = Threads /\ Queues' = Queues /\ User' = User  BY RolesStay DEF Queues, User
<1> QED  BY <1>1 DEF Spots, Contents

\* So what a place holds stays the same if what is in it does.
LEMMA SpotsSame ==
  ASSUME conf' = conf, DOMAIN queue' = DOMAIN queue
  PROVE  /\ \A q \in Queues : Queued(q)' = Queued(q)
              => Contents(<<"queue", q>>)' = Contents(<<"queue", q>>)
         /\ \A th \in Threads : Handed(th)' = Handed(th)
              => Contents(<<"hand", th>>)' = Contents(<<"hand", th>>)
         /\ \A th \in Threads : KeptBack(th)' = KeptBack(th)
              => Contents(<<"kept", th>>)' = Contents(<<"kept", th>>)
         /\ Delivered' = Delivered => Contents(<<"user", User>>)' = Contents(<<"user", User>>)
<1>1. /\ \A q \in Queues : Contents(<<"queue", q>>)' = Queued(q)'
      /\ \A th \in Threads : /\ Contents(<<"hand", th>>)' = Handed(th)'
                             /\ Contents(<<"kept", th>>)' = KeptBack(th)'
      /\ Contents(<<"user", User>>)' = Delivered'
  BY SpotsStay
<1>2. \A q \in Queues : Queued(q)' = Queued(q)
        => Contents(<<"queue", q>>)' = Contents(<<"queue", q>>)
  BY <1>1, SpotsAre
<1>3. \A th \in Threads : Handed(th)' = Handed(th)
        => Contents(<<"hand", th>>)' = Contents(<<"hand", th>>)
  BY <1>1, SpotsAre
<1>4. \A th \in Threads : KeptBack(th)' = KeptBack(th)
        => Contents(<<"kept", th>>)' = Contents(<<"kept", th>>)
  BY <1>1, SpotsAre
<1>5. Delivered' = Delivered => Contents(<<"user", User>>)' = Contents(<<"user", User>>)
  BY <1>1, SpotsAre
<1> QED  BY <1>2, <1>3, <1>4, <1>5

\* The places of a thread.
Own(th) == {<<"hand", th>>, <<"kept", th>>} \cup
           (IF input_queue(th) = User THEN {} ELSE {<<"queue", input_queue(th)>>})

\* An item in the series stays in it when more is generated.
LEMMA SeriesGrows ==
  ASSUME NEW n \in Nat, NEW m \in Nat, n <= m, NEW q, NEW item, InSeries(n, q, item)
  PROVE  InSeries(m, q, item)
<1>1. Element(item) \in 1 .. n  BY DEF InSeries
<1>2. Element(item) \in 1 .. m  BY <1>1
<1> QED  BY <1>2 DEF InSeries

\* What has to be shown of the items behind a step.
LEMMA NumberedThen ==
  ASSUME conf' = conf, DOMAIN queue' = DOMAIN queue,
         \A q \in Queues : \A k \in OnQueue(q)' : InSeries(produced', q, queue'[q][k]),
         \A th \in Threads : \A k \in InHand(th)' :
           InSeries(produced', Source(th, out'[th][k]), out'[th][k].item),
         \A th \in Threads : \A k \in DOMAIN held'[th].elements :
           InSeries(produced', input_queue(th), held'[th].elements[k]),
         consumed' \in Seq(Seq(Int)),
         \A k \in DOMAIN consumed' : \E e \in Chosen \cap 1 .. produced' : consumed'[k] = <<e>>
  PROVE  Numbered'
<1>1. Threads' = Threads /\ Queues' = Queues /\ Chosen' = Chosen
  BY RolesStay, AccountStays DEF Queues
<1>2. \A n, q, item : InSeries(n, q, item)' <=> InSeries(n, q, item)
  BY ItemsStay, RolesStay, AccountStays DEF InSeries, Sieved
<1>3. \A th, m : Source(th, m)' = Source(th, m)  BY RolesStay DEF Source, User
<1>4. \A q \in Queues' : \A k \in OnQueue(q)' : InSeries(produced, q, queue[q][k])'
  BY <1>1, <1>2
<1>5. \A th \in Threads' : \A k \in InHand(th)' :
        InSeries(produced, Source(th, out[th][k]), out[th][k].item)'
  BY <1>1, <1>2, <1>3
<1>6. \A th \in Threads' : \A k \in DOMAIN held'[th].elements :
        InSeries(produced, input_queue(th), held[th].elements[k])'
  BY <1>1, <1>2, RolesStay
<1> QED  BY <1>1, <1>4, <1>5, <1>6 DEF Numbered

\* What is in the queue a thread pops from.
QueuedIn(th) == IF input_queue(th) = User THEN {} ELSE Queued(input_queue(th))

\* An ordering loop takes from what it has the elements with the next orders.
Releases(th) ==
  LET late == Late(input_queue(th))
      ready == KeptBack(th) \cup QueuedIn(th)
      rest == KeptBack(th)' \cup QueuedIn(th)'
  IN /\ rest \subseteq ready
     /\ held[th].current <= held'[th].current
     /\ \A e \in ready \ rest : Number(late, e) < held'[th].current
     /\ \A n \in held[th].current .. held'[th].current - 1 :
          \E e \in ready \ rest : Number(late, e) = n /\ (late => e \in conf.keep)

\* What a step of thread th, other than a push or a call, does to the elements: it
\* moves some of those it has taken, an ordering thread drops rejected ones, and the
\* generator adds one.
Moved(th) ==
  /\ Frame(th) /\ out[th] = <<>> /\ consumed' = consumed
  /\ produced' \in {produced, produced + 1} /\ produced' <= conf.length
  /\ \A t \in Threads \ {th} : held'[t] = held[t]
  /\ \A r \in Queues : r # input_queue(th) => queue'[r] = queue[r]
  /\ \A p, r \in Own(th) : p # r => Contents(p)' \cap Contents(r)' = {}
  /\ \A p \in Own(th) : \A e \in Contents(p)' :
       (e = produced + 1 /\ produced' = e) \/ \E r \in Own(th) : e \in Contents(r)
  /\ \A p \in Own(th) : \A e \in Contents(p) :
       (\E r \in Own(th) : e \in Contents(r)') \/ (IsReorder(th) /\ e \notin conf.keep)
  /\ produced' # produced => input_queue(th) = User /\ produced' \in Handed(th)'
  /\ HandedOnce(th)' /\ OnceIn(held'[th].elements)
  /\ \A q \in Queues : q = input_queue(th) =>
       /\ QueuedOnce(q)'
       /\ \A k \in OnQueue(q)' : \E j \in OnQueue(q) : queue'[q][k] = queue[q][j]
  /\ \A k \in InHand(th)' :
       InSeries(produced', Source(th, out'[th][k]), out'[th][k].item)
  /\ \A k \in DOMAIN held'[th].elements :
       InSeries(produced', input_queue(th), held'[th].elements[k])
  /\ ReleasedBy(th)' /\ EndsOf(th)'
  /\ OrderingLoop(th) => Releases(th)

\* It leaves the places of the other threads alone.
LEMMA MovedOwn ==
  ASSUME Wired, NEW th \in Threads, Moved(th)
  PROVE  \A p \in Spots \ Own(th) : Contents(p)' = Contents(p)
<1>1. /\ conf' = conf /\ DOMAIN queue' = DOMAIN queue
      /\ \A t \in Threads \ {th} : out'[t] = out[t] /\ held'[t] = held[t]
      /\ consumed' = consumed
  BY DEF Moved, Frame
<1>2. SUFFICES ASSUME NEW p \in Spots \ Own(th) PROVE Contents(p)' = Contents(p)  OBVIOUS
<1>3. ASSUME NEW q \in Queues, p = <<"queue", q>> PROVE Contents(p)' = Contents(p)
  <2>1. q # input_queue(th) \/ q = User  BY <1>2, <1>3 DEF Own
  <2>2. queue'[q] = queue[q]  BY <2>1 DEF Moved, Wired, Connected
  <2>3. Queued(q)' = Queued(q)  BY <1>1, <2>2, QueuedSame
  <2> QED  BY <1>1, <1>3, <2>3, SpotsSame
<1>4. ASSUME NEW t \in Threads, p = <<"hand", t>> PROVE Contents(p)' = Contents(p)
  <2>1. t # th  BY <1>2, <1>4 DEF Own
  <2>2. Handed(t)' = Handed(t)  BY <1>1, <2>1, HandedSame
  <2> QED  BY <1>1, <1>4, <2>2, SpotsSame
<1>5. ASSUME NEW t \in Threads, p = <<"kept", t>> PROVE Contents(p)' = Contents(p)
  <2>1. t # th  BY <1>2, <1>5 DEF Own
  <2>2. held'[t] = held[t]  BY <1>1, <2>1
  <2>3. KeptBack(t)' = KeptBack(t)  BY <1>1, <2>2, ItemsStay DEF KeptBack
  <2> QED  BY <1>1, <1>5, <2>3, SpotsSame
<1>6. CASE p = <<"user", User>>
  <2>1. Delivered' = Delivered  BY <1>1 DEF Delivered
  <2> QED  BY <1>1, <1>6, <2>1, SpotsSame
<1> QED  BY <1>3, <1>4, <1>5, <1>6, SpotsAre

\* The orders grow with the elements.
LEMMA NumberGrows ==
  ASSUME Straight, conf.length \in Nat, NEW e \in Nat \ {0}, NEW f \in Nat \ {0}, e <= f, NEW late
  PROVE  Number(late, e) \in Nat /\ Number(late, e) <= Number(late, f)
<1>1. Rank(e) \in Nat /\ Rank(e) <= Rank(f)  BY RankSteps
<1>2. e - 1 \in Nat /\ e - 1 <= f - 1  OBVIOUS
<1> QED  BY <1>1, <1>2 DEF Number

\* The elements that are somewhere have been produced.
LEMMA ContentsProduced ==
  ASSUME Account, NEW p \in Spots, NEW e \in Contents(p)
  PROVE  e \in 1 .. produced
<1>1. CASE p = <<"user", User>>
  <2>1. PICK k \in DOMAIN consumed : e = consumed[k][1]
    BY <1>1, SpotsAre DEF Delivered
  <2>2. PICK f \in 1 .. produced : consumed[k] = <<f>>  BY DEF Account, Numbered
  <2> QED  BY <2>1, <2>2
<1>2. ASSUME NEW q \in Queues, p = <<"queue", q>> PROVE e \in 1 .. produced
  <2>1. PICK k \in OnQueue(q) : e = Element(queue[q][k])  BY <1>2, SpotsAre DEF Queued
  <2> QED  BY <2>1 DEF Account, Numbered, InSeries
<1>3. ASSUME NEW th \in Threads, p = <<"hand", th>> PROVE e \in 1 .. produced
  <2>1. PICK k \in InHand(th) : e = Element(out[th][k].item)  BY <1>3, SpotsAre DEF Handed
  <2> QED  BY <2>1 DEF Account, Numbered, InSeries
<1>4. ASSUME NEW th \in Threads, p = <<"kept", th>> PROVE e \in 1 .. produced
  <2>1. PICK k \in DOMAIN held[th].elements : e = Element(held[th].elements[k])
    BY <1>4, SpotsAre DEF KeptBack, Stands
  <2> QED  BY <2>1 DEF Account, Numbered, InSeries
<1> QED  BY <1>1, <1>2, <1>3, <1>4, SpotsAre

\* No element is lost, repeated or renumbered by such a step.
LEMMA MovedKeeps ==
  ASSUME Straight, Wired, Typed, Account, NEW th \in Threads, Moved(th)
  PROVE  Account'
<1>1. /\ conf' = conf /\ DOMAIN queue' = DOMAIN queue /\ Threads' = Threads /\ Queues' = Queues
      /\ \A t \in Threads \ {th} : pc'[t] = pc[t] /\ out'[t] = out[t] /\ held'[t] = held[t]
      /\ consumed' = consumed
  BY RolesStay DEF Moved, Frame, Queues
<1>2. produced \in Nat /\ produced' \in Nat /\ produced <= produced' /\ conf.length \in Nat
  BY DEF Typed, Moved
<1>3. \A q, item : InSeries(produced, q, item) => InSeries(produced', q, item)
  BY <1>2, SeriesGrows
<1>4. Account /\ Frame(th) /\ out[th] = <<>> /\ User \notin Queues
  BY DEF Moved, Wired, Connected, Account
<1>5. Numbered'
  <2>1. ASSUME NEW q \in Queues, NEW k \in OnQueue(q)'
        PROVE  InSeries(produced', q, queue'[q][k])
    <3>1. PICK j \in OnQueue(q) : queue'[q][k] = queue[q][j]
      <4>1. CASE q = input_queue(th)  BY <4>1 DEF Moved
      <4>2. CASE q # input_queue(th)
        <5>1. queue'[q] = queue[q]  BY <4>2 DEF Moved
        <5> QED  BY <1>1, <5>1, QueuedSame
      <4> QED  BY <4>1, <4>2
    <3>2. InSeries(produced, q, queue[q][j])  BY DEF Account, Numbered
    <3> QED  BY <1>3, <3>1, <3>2
  <2>2. ASSUME NEW t \in Threads, NEW k \in InHand(t)'
        PROVE  InSeries(produced', Source(t, out'[t][k]), out'[t][k].item)
    <3>1. CASE t = th  BY <3>1 DEF Moved
    <3>2. CASE t # th
      <4>1. out'[t] = out[t] /\ k \in InHand(t)  BY <1>1, <3>2, HandedSame
      <4>2. InSeries(produced, Source(t, out[t][k]), out[t][k].item)
        BY <4>1 DEF Account, Numbered
      <4> QED  BY <1>3, <4>1, <4>2
    <3> QED  BY <3>1, <3>2
  <2>3. ASSUME NEW t \in Threads, NEW k \in DOMAIN held'[t].elements
        PROVE  InSeries(produced', input_queue(t), held'[t].elements[k])
    <3>1. CASE t = th  BY <3>1 DEF Moved
    <3>2. CASE t # th
      <4>1. held'[t] = held[t]  BY <1>1, <3>2
      <4>2. InSeries(produced, input_queue(t), held[t].elements[k])
        BY <4>1 DEF Account, Numbered
      <4> QED  BY <1>3, <4>1, <4>2
    <3> QED  BY <3>1, <3>2
  <2>4. /\ consumed' \in Seq(Seq(Int))
        /\ \A k \in DOMAIN consumed' : \E e \in Chosen \cap 1 .. produced' : consumed'[k] = <<e>>
    <3>1. 1 .. produced \subseteq 1 .. produced'  BY <1>2
    <3> QED  BY <1>1, <3>1 DEF Account, Numbered
  <2> QED  BY <1>1, <2>1, <2>2, <2>3, <2>4, NumberedThen
<1>10. \A p \in Spots \ Own(th) : Contents(p)' = Contents(p)  BY MovedOwn
<1>6. Once'
  <2> DEFINE C == [p \in Spots |-> Contents(p)]
             D == [p \in Spots |-> Contents(p)']
             fresh == IF produced' = produced THEN {} ELSE {produced + 1}
  <2>1. Own(th) \in SUBSET Spots  BY SpotsAre DEF Own, Wired, Connected
  <2>2. \A p \in Spots \ Own(th) : Contents(p)' = Contents(p)  BY <1>10
  <2>3. /\ \A p \in Spots \ Own(th) : D[p] = C[p]
        /\ \A p, r \in Own(th) : p # r => D[p] \cap D[r] = {}
        /\ \A p \in Own(th) : \A e \in D[p] : e \in fresh \/ \E r \in Own(th) : e \in C[r]
    <3>1. \A p, r \in Own(th) : p # r => D[p] \cap D[r] = {}  BY <2>1 DEF Moved
    <3>2. \A p \in Own(th) : \A e \in D[p] : e \in fresh \/ \E r \in Own(th) : e \in C[r]
      BY <1>2, <2>1 DEF Moved
    <3> QED  BY <2>2, <3>1, <3>2
  <2>4. \A p \in Spots : fresh \cap C[p] = {}
    <3>1. \A p \in Spots : \A e \in C[p] : e \in 1 .. produced  BY ContentsProduced
    <3> QED  BY <1>2, <3>1
  <2>5. \A p, r \in Spots : p # r => C[p] \cap C[r] = {}  BY DEF Account, Once, Separate
  <2>6. \A p, r \in Spots : p # r => D[p] \cap D[r] = {}
    <3> HIDE DEF C, D, fresh
    <3> QED  BY <2>1, <2>3, <2>4, <2>5, StillSeparate
  <2>7. Separate'  BY <1>1, <2>6, SpotsStay DEF Separate
  <2>8. ASSUME NEW q \in Queues PROVE QueuedOnce(q)'
    <3>1. CASE q = input_queue(th)  BY <3>1 DEF Moved
    <3>2. CASE q # input_queue(th)
      <4>1. queue'[q] = queue[q]  BY <3>2 DEF Moved
      <4> QED  BY <1>1, <4>1, QueuedSame DEF Account, Once
    <3> QED  BY <3>1, <3>2
  <2>9. ASSUME NEW t \in Threads PROVE HandedOnce(t)' /\ OnceIn(held[t].elements)'
    <3>1. CASE t = th  BY <3>1, ItemsStay DEF Moved
    <3>2. CASE t # th  BY <1>1, <3>2, HandedSame, ItemsStay DEF Account, Once
    <3> QED  BY <3>1, <3>2
  <2>10. \A k, l \in DOMAIN consumed' : consumed'[k] = consumed'[l] => k = l
    BY <1>1 DEF Account, Once
  <2> QED  BY <1>1, <2>7, <2>8, <2>9, <2>10 DEF Once
<1>7. Somewhere'
  <2>1. SUFFICES ASSUME NEW e \in Chosen, e <= produced'
                 PROVE  \E p \in Spots : e \in Contents(p)'
    BY <1>1, SpotsStay, AccountStays DEF Somewhere
  <2>2. Own(th) \in SUBSET Spots /\ <<"hand", th>> \in Spots  BY SpotsAre DEF Own, Wired, Connected
  <2>3. e \in Nat
    <3>1. e \in 1 .. conf.length  BY DEF Chosen, Straight
    <3> QED  BY <3>1
  <2>4. CASE e <= produced
    <3>1. PICK p \in Spots : e \in Contents(p)  BY <2>4 DEF Account, Somewhere
    <3>2. CASE p \in Own(th)
      <4>1. IsReorder(th) => e \in conf.keep  BY DEF Chosen
      <4> QED  BY <2>2, <3>1, <3>2, <4>1 DEF Moved
    <3>3. CASE p \notin Own(th)
      <4>1. Contents(p)' = Contents(p)  BY <1>10, <3>3
      <4> QED  BY <3>1, <4>1
    <3> QED  BY <3>2, <3>3
  <2>5. CASE e > produced
    <3>1. produced' = e /\ produced' # produced  BY <1>2, <2>1, <2>3, <2>5 DEF Moved
    <3>2. e \in Handed(th)'  BY <3>1 DEF Moved
    <3>3. Contents(<<"hand", th>>)' = Handed(th)'  BY <1>1, SpotsStay
    <3> QED  BY <2>2, <3>2, <3>3
  <2> QED  BY <1>2, <2>3, <2>4, <2>5
<1>8. Released'
  <2>1. SUFFICES ASSUME NEW t \in Threads PROVE ReleasedBy(t)'  BY <1>1 DEF Released
  <2>2. CASE t = th  BY <2>2 DEF Moved
  <2>3. CASE t # th
    <3>1. /\ held'[t] = held[t] /\ out'[t] = out[t] /\ pc'[t] = pc[t] /\ consumed' = consumed
          /\ ReleasedBy(t)
      BY <1>1, <2>3 DEF Account, Released
    <3> DEFINE late == Late(input_queue(t))
    <3>2. held[t].current \in Nat /\ Number(late, produced + 1) <= Number(late, produced' + 1)
          /\ Number(late, produced + 1) \in Nat /\ Number(late, produced' + 1) \in Nat
      <4>1. \A n, m \in Nat : n <= m => /\ n + 1 \in Nat \ {0} /\ m + 1 \in Nat \ {0}
                                        /\ n + 1 <= m + 1 /\ m + 1 <= m + 1
        OBVIOUS
      <4>2. /\ Number(late, produced + 1) <= Number(late, produced' + 1)
            /\ Number(late, produced + 1) \in Nat
        BY <1>2, <4>1, NumberGrows
      <4>3. Number(late, produced' + 1) \in Nat  BY <1>2, <4>1, NumberGrows
      <4> QED  BY <3>1, <4>2, <4>3 DEF ReleasedBy
    <3>3. OrderingLoop(t) => held[t].current <= Number(late, produced' + 1)
      BY <3>1, <3>2 DEF ReleasedBy
    <3>4. IsReorder(t)' => held'[t].order = IF Late(input_queue(t)) THEN held'[t].current
                                                                     ELSE Rank(held'[t].current + 1)
      BY <1>1, <3>1, AccountStays DEF ReleasedBy
    <3>5. OrderingLoop(t)' <=> OrderingLoop(t)  BY <1>1, AccountStays
    <3>6. /\ (Late(input_queue(t)))' = late
          /\ \A e : Rank(e)' = Rank(e)
          /\ \A e : Number(late, e)' = Number(late, e)
      BY <1>1, AccountStays, RolesStay
    <3> HIDE DEF late
    <3> QED  BY <1>1, <3>1, <3>3, <3>4, <3>5, <3>6, RolesStay DEF ReleasedBy, late
  <2> QED  BY <2>2, <2>3
<1>9. Ends'
  <2>1. produced' <= conf'.length  BY <1>1 DEF Moved
  <2>2. ASSUME NEW t \in Threads PROVE EndsOf(t)'
    <3>1. CASE t = th  BY <3>1 DEF Moved
    <3>2. CASE t # th
      <4>1. out'[t] = out[t] /\ pc'[t] = pc[t] /\ EndsOf(t)
        BY <1>1, <3>2 DEF Account, Ends
      <4>2. produced = conf.length => produced' = conf'.length  BY <1>1, <1>2 DEF Moved
      <4> QED  BY <1>1, <4>1, <4>2, RolesStay, AccountStays DEF EndsOf, User
    <3> QED  BY <3>1, <3>2
  <2> QED  BY <1>1, <2>1, <2>2 DEF Ends
<1> QED  BY <1>5, <1>6, <1>7, <1>8, <1>9 DEF Account

\* The contents of a thread's own places.
LEMMA OwnContents ==
  ASSUME Wired, conf' = conf, DOMAIN queue' = DOMAIN queue, NEW th \in Threads
  PROVE  /\ <<"hand", th>> \in Own(th) /\ Contents(<<"hand", th>>)' = Handed(th)'
         /\ <<"kept", th>> \in Own(th) /\ Contents(<<"kept", th>>)' = KeptBack(th)'
         /\ Contents(<<"kept", th>>) = KeptBack(th)
         /\ \A q : (q = input_queue(th) /\ q # User) =>
              /\ <<"queue", q>> \in Own(th)
              /\ Contents(<<"queue", q>>) = QueuedIn(th)
              /\ Contents(<<"queue", q>>)' = QueuedIn(th)'
         /\ \A p \in Own(th) :
              \/ p = <<"hand", th>> /\ Contents(p) = Handed(th) /\ Contents(p)' = Handed(th)'
              \/ p = <<"kept", th>> /\ Contents(p) = KeptBack(th) /\ Contents(p)' = KeptBack(th)'
              \/ /\ p = <<"queue", input_queue(th)>> /\ input_queue(th) # User
                 /\ Contents(p) = QueuedIn(th) /\ Contents(p)' = QueuedIn(th)'
<1>1. input_queue(th)' = input_queue(th) /\ User' = User  BY RolesStay DEF User
<1>2. ASSUME NEW q \in Queues, q = input_queue(th), q # User
      PROVE  /\ Contents(<<"queue", q>>) = QueuedIn(th)
             /\ Contents(<<"queue", q>>)' = QueuedIn(th)'
  <2>1. Contents(<<"queue", q>>) = Queued(q) /\ Contents(<<"queue", q>>)' = Queued(q)'
    BY SpotsAre, SpotsStay
  <2>2. QueuedIn(th)' = Queued(input_queue(th))'  BY <1>1, <1>2 DEF QueuedIn
  <2> QED  BY <1>1, <1>2, <2>1, <2>2 DEF QueuedIn
<1>3. input_queue(th) # User => input_queue(th) \in Queues  BY DEF Wired, Connected
<1>4. /\ Contents(<<"hand", th>>) = Handed(th) /\ Contents(<<"hand", th>>)' = Handed(th)'
      /\ Contents(<<"kept", th>>) = KeptBack(th) /\ Contents(<<"kept", th>>)' = KeptBack(th)'
  BY SpotsAre, SpotsStay
<1>5. \A q : (q = input_queue(th) /\ q # User) =>
        /\ <<"queue", q>> \in Own(th)
        /\ Contents(<<"queue", q>>) = QueuedIn(th)
        /\ Contents(<<"queue", q>>)' = QueuedIn(th)'
  BY <1>2, <1>3 DEF Own
<1>6. ASSUME NEW p \in Own(th)
      PROVE  \/ p = <<"hand", th>> /\ Contents(p) = Handed(th) /\ Contents(p)' = Handed(th)'
             \/ p = <<"kept", th>> /\ Contents(p) = KeptBack(th) /\ Contents(p)' = KeptBack(th)'
             \/ /\ p = <<"queue", input_queue(th)>> /\ input_queue(th) # User
                /\ Contents(p) = QueuedIn(th) /\ Contents(p)' = QueuedIn(th)'
  <2>1. CASE p = <<"hand", th>> \/ p = <<"kept", th>>  BY <1>4, <2>1
  <2>2. CASE ~(p = <<"hand", th>> \/ p = <<"kept", th>>)
    <3>1. p = <<"queue", input_queue(th)>> /\ input_queue(th) # User  BY <1>6, <2>2 DEF Own
    <3>2. PICK q \in Queues : q = input_queue(th)  BY <1>3, <3>1
    <3>3. p = <<"queue", q>>  BY <3>1, <3>2
    <3> QED  BY <1>5, <3>1, <3>2, <3>3
  <2> QED  BY <2>1, <2>2
<1>7. <<"hand", th>> \in Own(th) /\ <<"kept", th>> \in Own(th)  BY DEF Own
<1> QED  BY <1>4, <1>5, <1>6, <1>7

\* What has to be shown of them.
LEMMA OwnMoves ==
  ASSUME Wired, conf' = conf, DOMAIN queue' = DOMAIN queue, NEW th \in Threads, out[th] = <<>>,
         Handed(th)' \cap KeptBack(th)' = {},
         Handed(th)' \cap QueuedIn(th)' = {},
         KeptBack(th)' \cap QueuedIn(th)' = {},
         \A e \in Handed(th)' \cup KeptBack(th)' \cup QueuedIn(th)' :
           (e = produced + 1 /\ produced' = e) \/ e \in KeptBack(th) \cup QueuedIn(th),
         \A e \in KeptBack(th) \cup QueuedIn(th) :
           \/ e \in Handed(th)' \cup KeptBack(th)' \cup QueuedIn(th)'
           \/ IsReorder(th) /\ e \notin conf.keep
  PROVE  /\ \A p, r \in Own(th) : p # r => Contents(p)' \cap Contents(r)' = {}
         /\ \A p \in Own(th) : \A e \in Contents(p)' :
              (e = produced + 1 /\ produced' = e) \/ \E r \in Own(th) : e \in Contents(r)
         /\ \A p \in Own(th) : \A e \in Contents(p) :
              (\E r \in Own(th) : e \in Contents(r)') \/ (IsReorder(th) /\ e \notin conf.keep)
<1>1. Handed(th) = {}  BY HandedNone
<1>2. QueuedIn(th)' # {} => input_queue(th) # User
  BY RolesStay DEF QueuedIn, User
<1>3. QueuedIn(th) # {} => input_queue(th) # User  BY DEF QueuedIn
<1> DEFINE H == Handed(th)'
           K == KeptBack(th)'
           Q == QueuedIn(th)'
           hand == <<"hand", th>>
           kept == <<"kept", th>>
<1>0. PICK in : in = <<"queue", input_queue(th)>>  OBVIOUS
<1>4. /\ hand \in Own(th) /\ Contents(hand)' = H
      /\ kept \in Own(th) /\ Contents(kept)' = K /\ Contents(kept) = KeptBack(th)
      /\ input_queue(th) # User =>
           in \in Own(th) /\ Contents(in)' = Q /\ Contents(in) = QueuedIn(th)
  <2>1. PICK q : q = input_queue(th)  OBVIOUS
  <2>2. in = <<"queue", q>>  BY <1>0, <2>1
  <2> QED  BY <2>1, <2>2, OwnContents
<1>5. \A p \in Own(th) :
        \/ p = hand /\ Contents(p)' = H /\ Contents(p) = {}
        \/ p = kept /\ Contents(p)' = K /\ Contents(p) = KeptBack(th)
        \/ p = in /\ Contents(p)' = Q /\ Contents(p) = QueuedIn(th)
  <2>1. SUFFICES ASSUME NEW p \in Own(th)
                 PROVE  \/ p = hand /\ Contents(p)' = H /\ Contents(p) = {}
                        \/ p = kept /\ Contents(p)' = K /\ Contents(p) = KeptBack(th)
                        \/ p = in /\ Contents(p)' = Q /\ Contents(p) = QueuedIn(th)
    OBVIOUS
  <2> QED  BY <1>0, <1>1, OwnContents
<1>6. /\ H \cap K = {} /\ H \cap Q = {} /\ K \cap Q = {}
      /\ \A e \in H \cup K \cup Q :
           (e = produced + 1 /\ produced' = e) \/ e \in KeptBack(th) \cup QueuedIn(th)
      /\ \A e \in KeptBack(th) \cup QueuedIn(th) :
           e \in H \cup K \cup Q \/ (IsReorder(th) /\ e \notin conf.keep)
      /\ Q # {} => input_queue(th) # User
  BY <1>2
<1> HIDE DEF H, K, Q, hand, kept
<1>7. \A p, r \in Own(th) : p # r => Contents(p)' \cap Contents(r)' = {}
  <2>1. SUFFICES ASSUME NEW p \in Own(th), NEW r \in Own(th), p # r
                 PROVE  Contents(p)' \cap Contents(r)' = {}
    OBVIOUS
  <2>2. /\ p = hand \/ p = kept \/ p = in
        /\ r = hand \/ r = kept \/ r = in
    BY <1>5
  <2> QED  BY <1>5, <1>6, <2>1
<1>8. ASSUME NEW p \in Own(th), NEW e \in Contents(p)'
      PROVE  (e = produced + 1 /\ produced' = e) \/ \E r \in Own(th) : e \in Contents(r)
  <2>1. e \in H \cup K \cup Q  BY <1>5, <1>8
  <2>2. (e = produced + 1 /\ produced' = e) \/ e \in KeptBack(th) \/ e \in QueuedIn(th)
    BY <1>6, <2>1
  <2>3. e \in KeptBack(th) => \E r \in Own(th) : e \in Contents(r)  BY <1>4
  <2>4. e \in QueuedIn(th) => \E r \in Own(th) : e \in Contents(r)  BY <1>3, <1>4
  <2> QED  BY <2>2, <2>3, <2>4
<1>9. ASSUME NEW p \in Own(th), NEW e \in Contents(p)
      PROVE  (\E r \in Own(th) : e \in Contents(r)') \/ (IsReorder(th) /\ e \notin conf.keep)
  <2>1. e \in KeptBack(th) \cup QueuedIn(th)  BY <1>5, <1>9
  <2>2. e \in H \/ e \in K \/ e \in Q \/ (IsReorder(th) /\ e \notin conf.keep)  BY <1>6, <2>1
  <2>3. e \in H => \E r \in Own(th) : e \in Contents(r)'  BY <1>4
  <2>4. e \in K => \E r \in Own(th) : e \in Contents(r)'  BY <1>4
  <2>5. e \in Q => \E r \in Own(th) : e \in Contents(r)'
    <3>1. e \in Q => input_queue(th) # User  BY <1>6
    <3> QED  BY <1>4, <3>1
  <2> QED  BY <2>2, <2>3, <2>4, <2>5
<1> QED  BY <1>7, <1>8, <1>9

\* What such a thread has before the step.
LEMMA OwnBefore ==
  ASSUME Wired, Account, NEW th \in Threads
  PROVE  /\ KeptBack(th) \cap QueuedIn(th) = {}
         /\ \A e \in KeptBack(th) \cup QueuedIn(th) : e \in 1 .. produced
         /\ \A q \in Queues : QueuedOnce(q)
         /\ OnceIn(held[th].elements)
<1>1. /\ <<"kept", th>> \in Spots /\ Contents(<<"kept", th>>) = KeptBack(th)
      /\ input_queue(th) # User => /\ <<"queue", input_queue(th)>> \in Spots
                                   /\ Contents(<<"queue", input_queue(th)>>) = QueuedIn(th)
                                   /\ <<"queue", input_queue(th)>> # <<"kept", th>>
      /\ input_queue(th) = User => QueuedIn(th) = {}
  BY SpotsAre DEF Wired, Connected, QueuedIn
<1>2. \A p, r \in Spots : p # r => Contents(p) \cap Contents(r) = {}
  BY DEF Account, Once, Separate
<1>3. KeptBack(th) \cap QueuedIn(th) = {}  BY <1>1, <1>2
<1>4. \A e \in KeptBack(th) \cup QueuedIn(th) : e \in 1 .. produced
  BY <1>1, ContentsProduced
<1> QED  BY <1>3, <1>4 DEF Account, Once

-----------------------------------------------------------------------------
(* The kinds of step. *)

\* The queue a thread pops from, when it takes an item or leaves it alone.
LEMMA InTaken ==
  ASSUME Wired, Typed, Account, NEW th \in Threads, Frame(th), NEW item, Takes(th, item),
         input_queue(th) \in Queues
  PROVE  /\ QueuedIn(th)' = IF IsMarker(input_queue(th), item) THEN QueuedIn(th)
                                                               ELSE QueuedIn(th) \ {Element(item)}
         /\ ~IsMarker(input_queue(th), item) =>
              /\ Element(item) \in QueuedIn(th)
              /\ InSeries(produced, input_queue(th), item)
         /\ \A r \in Queues : r # input_queue(th) => queue'[r] = queue[r]
         /\ \A q \in Queues : q = input_queue(th) =>
              /\ QueuedOnce(q)'
              /\ \A k \in OnQueue(q)' : \E j \in OnQueue(q) : queue'[q][k] = queue[q][j]
<1> DEFINE q == input_queue(th)
<1>1. /\ conf' = conf /\ queue \in [Queues -> Seq(Items)] /\ q # User
      /\ input_queue(th)' = q /\ User' = User
  BY RolesStay DEF Frame, Typed, Wired, Connected, User
<1>2. ASSUME NEW p \in Queues, p = q
      PROVE  /\ QueuedOnce(p)'
             /\ Queued(p)' = IF IsMarker(p, item) THEN Queued(p) ELSE Queued(p) \ {Element(item)}
             /\ ~IsMarker(p, item) => /\ Element(item) \in Queued(p)
                                      /\ \E k \in OnQueue(p) : queue[p][k] = item
             /\ \A k \in OnQueue(p)' : \E j \in OnQueue(p) : queue'[p][k] = queue[p][j]
             /\ \A r \in Queues : r # p => queue'[r] = queue[r]
  <2>1. QueuedOnce(p)  BY OwnBefore
  <2>2. p = input_queue(th)  BY <1>2
  <2> HIDE DEF q
  <2> QED  BY <1>1, <2>1, <2>2, QueuedTaken
<1>3. QueuedIn(th) = Queued(q) /\ QueuedIn(th)' = Queued(input_queue(th))'
  BY <1>1 DEF QueuedIn
<1>4. QueuedIn(th)' = IF IsMarker(q, item) THEN QueuedIn(th) ELSE QueuedIn(th) \ {Element(item)}
  <2>1. \A p \in Queues : p = q => Queued(input_queue(th))' = Queued(p)'  BY <1>1
  <2> QED  BY <1>2, <1>3, <2>1
<1>5. ~IsMarker(q, item) => Element(item) \in QueuedIn(th) /\ InSeries(produced, q, item)
  BY <1>2, <1>3 DEF Account, Numbered
<1>6. \A r \in Queues : r # q => queue'[r] = queue[r]  BY <1>2
<1> QED  BY <1>2, <1>4, <1>5, <1>6

\* An ordering loop that keeps and hands over what it had.
LEMMA ReleasedStays ==
  ASSUME conf' = conf, produced' = produced, consumed' = consumed, NEW th \in Threads,
         held'[th] = held[th], ReleasedBy(th), held[th].elements # <<>> => pc'[th] # "last",
         (kind(th) = "consume" /\ conf.ordered) => out'[th] = out[th]
  PROVE  ReleasedBy(th)'
<1> DEFINE late == Late(input_queue(th))
<1>1. /\ (Late(input_queue(th)))' = late
      /\ \A e : Rank(e)' = Rank(e)
      /\ \A e : Number(late, e)' = Number(late, e)
      /\ OrderingLoop(th)' <=> OrderingLoop(th)
      /\ IsReorder(th)' <=> IsReorder(th)
      /\ kind(th)' = kind(th)
  BY AccountStays, RolesStay
<1>2. IsReorder(th)' => held'[th].order = IF Late(input_queue(th)) THEN held'[th].current
                                                                 ELSE Rank(held'[th].current + 1)
  BY <1>1 DEF ReleasedBy
<1>3. /\ held'[th].current \in Nat
      /\ held'[th].elements # <<>> => OrderingLoop(th) /\ pc'[th] # "last"
      /\ OrderingLoop(th) => held'[th].current <= Number(late, produced' + 1)
      /\ (kind(th) = "consume" /\ conf.ordered) =>
           /\ Len(consumed') + Len(out'[th]) = held'[th].current
           /\ \A k \in DOMAIN consumed' : Number(late, consumed'[k][1]) = k - 1
           /\ \A k \in DOMAIN out'[th] : out'[th][k].item.order = Len(consumed') + k - 1
  BY DEF ReleasedBy
<1> HIDE DEF late
<1> QED  BY <1>1, <1>2, <1>3 DEF ReleasedBy, late

\* A step that has nothing to do with the elements of the stream.
Idles(th) ==
  /\ Frame(th) /\ out[th] = <<>> /\ consumed' = consumed /\ produced' = produced /\ held' = held
  /\ \/ queue' = queue
     \/ \E item : /\ Takes(th, item) /\ input_queue(th) \in Queues
                  /\ IsMarker(input_queue(th), item)
  /\ \A k \in DOMAIN out'[th] : IsEndMsg(out'[th][k])
  /\ (kind(th) = "consume" /\ conf.ordered) => out'[th] = <<>>
  /\ held[th].elements # <<>> => pc'[th] # "last"
  /\ EndsOf(th)'

\* Such a step moves no element.
LEMMA IdleMoves ==
  ASSUME Straight, Wired, Typed, Account, NEW th \in Threads, Idles(th)
  PROVE  Moved(th)
<1>1. /\ conf' = conf /\ DOMAIN queue' = DOMAIN queue /\ Frame(th) /\ held' = held
      /\ out[th] = <<>> /\ produced' = produced /\ consumed' = consumed
      /\ produced \in Nat /\ produced <= conf.length
  BY DEF Idles, Frame, Account, Ends, Typed
<1>2. InHand(th)' = {} /\ Handed(th)' = {} /\ HandedOnce(th)'
  BY <1>1, HandedNew DEF Idles
<1>3. KeptBack(th)' = KeptBack(th)  BY <1>1, ItemsStay DEF KeptBack
<1>4. /\ QueuedIn(th)' = QueuedIn(th)
      /\ \A r \in Queues : r # input_queue(th) => queue'[r] = queue[r]
      /\ \A q \in Queues : q = input_queue(th) =>
           /\ QueuedOnce(q)'
           /\ \A k \in OnQueue(q)' : \E j \in OnQueue(q) : queue'[q][k] = queue[q][j]
  <2>1. CASE queue' = queue
    <3>1. \A q \in Queues : /\ Queued(q)' = Queued(q) /\ (QueuedOnce(q)' <=> QueuedOnce(q))
                            /\ OnQueue(q)' = OnQueue(q)
      BY <1>1, <2>1, QueuedSame
    <3>2. QueuedIn(th)' = QueuedIn(th)
      <4>1. input_queue(th)' = input_queue(th) /\ User' = User  BY <1>1, RolesStay DEF User
      <4>2. \A q \in Queues : q = input_queue(th) => QueuedIn(th)' = QueuedIn(th)
        BY <3>1, <4>1 DEF QueuedIn
      <4>3. input_queue(th) = User => QueuedIn(th)' = QueuedIn(th)  BY <4>1 DEF QueuedIn
      <4> QED  BY <4>2, <4>3 DEF Wired, Connected
    <3> QED  BY <2>1, <3>1, <3>2, OwnBefore
  <2>2. CASE \E item : /\ Takes(th, item) /\ input_queue(th) \in Queues
                       /\ IsMarker(input_queue(th), item)
    BY <1>1, <2>2, InTaken
  <2> QED  BY <2>1, <2>2 DEF Idles
<1>5. ReleasedBy(th)'
  <2>1. ReleasedBy(th)  BY DEF Account, Released
  <2> QED  BY <1>1, <2>1, ReleasedStays DEF Idles
<1>6. OnceIn(held'[th].elements)  BY <1>1, OwnBefore
<1>7. /\ \A p, r \in Own(th) : p # r => Contents(p)' \cap Contents(r)' = {}
      /\ \A p \in Own(th) : \A e \in Contents(p)' :
           (e = produced + 1 /\ produced' = e) \/ \E r \in Own(th) : e \in Contents(r)
      /\ \A p \in Own(th) : \A e \in Contents(p) :
           (\E r \in Own(th) : e \in Contents(r)') \/ (IsReorder(th) /\ e \notin conf.keep)
  BY <1>1, <1>2, <1>3, <1>4, OwnBefore, OwnMoves
<1>8. \A k \in DOMAIN held'[th].elements :
        InSeries(produced', input_queue(th), held'[th].elements[k])
  BY <1>1 DEF Account, Numbered
<1>9. Releases(th)
  <2>1. held'[th].current = held[th].current /\ held[th].current \in Nat
    BY <1>1 DEF Account, Released, ReleasedBy
  <2>2. held[th].current .. held'[th].current - 1 = {}  BY <2>1
  <2> QED  BY <1>3, <1>4, <2>1, <2>2 DEF Releases
<1> QED  BY <1>1, <1>2, <1>4, <1>5, <1>6, <1>7, <1>8, <1>9 DEF Moved, Idles

-----------------------------------------------------------------------------
(* A thread hands on the item it takes. *)

\* What is behind the filters is the same for what a thread pops and pushes.
LEMMA SameSide ==
  ASSUME Straight, Wired, NEW th \in Threads, ~IsReorder(th), input_queue(th) # User,
         output_queue(th) # User
  PROVE  Late(output_queue(th)) <=> Late(input_queue(th))
BY DEF Straight, Filters, Late

\* A value goes on, or what a filter makes of it.
CarriesOn(th) ==
  \E item, m :
    /\ Frame(th) /\ out[th] = <<>> /\ consumed' = consumed /\ produced' = produced
    /\ held' = held
    /\ Takes(th, item) /\ input_queue(th) \in Queues /\ ~IsMarker(input_queue(th), item)
    /\ out'[th] = <<m>> /\ ~IsEndMsg(m) /\ Element(m.item) = Element(item)
    /\ InSeries(produced, input_queue(th), item) => InSeries(produced, Source(th, m), m.item)
    /\ ~OrderingLoop(th)
    /\ EndsOf(th)'

\* Such a step moves one element, from the queue into the hand.
LEMMA CarryMoves ==
  ASSUME Straight, Wired, Typed, Account, NEW th \in Threads, CarriesOn(th)
  PROVE  Moved(th)
<1>1. PICK item, m :
    /\ Frame(th) /\ out[th] = <<>> /\ consumed' = consumed /\ produced' = produced
    /\ held' = held
    /\ Takes(th, item) /\ input_queue(th) \in Queues /\ ~IsMarker(input_queue(th), item)
    /\ out'[th] = <<m>> /\ ~IsEndMsg(m) /\ Element(m.item) = Element(item)
    /\ InSeries(produced, input_queue(th), item) => InSeries(produced, Source(th, m), m.item)
    /\ ~OrderingLoop(th)
    /\ EndsOf(th)'
  BY DEF CarriesOn
<1>2. /\ conf' = conf /\ DOMAIN queue' = DOMAIN queue
      /\ produced \in Nat /\ produced <= conf.length
  BY <1>1 DEF Frame, Account, Ends, Typed
<1>3. InHand(th)' = {1} /\ out'[th][1] = m /\ Handed(th)' = {Element(item)} /\ HandedOnce(th)'
  BY <1>1, <1>2, HandedOne
<1>4. KeptBack(th)' = KeptBack(th) /\ KeptBack(th) = {} /\ held[th].elements = <<>>
  <2>1. held[th].elements = <<>>  BY <1>1 DEF Account, Released, ReleasedBy
  <2> QED  BY <1>1, <2>1, ItemsStay, NoItem DEF KeptBack
<1>5. /\ QueuedIn(th)' = QueuedIn(th) \ {Element(item)}
      /\ Element(item) \in QueuedIn(th)
      /\ InSeries(produced, input_queue(th), item)
      /\ \A r \in Queues : r # input_queue(th) => queue'[r] = queue[r]
      /\ \A q \in Queues : q = input_queue(th) =>
           /\ QueuedOnce(q)'
           /\ \A k \in OnQueue(q)' : \E j \in OnQueue(q) : queue'[q][k] = queue[q][j]
  BY <1>1, InTaken
<1>6. ReleasedBy(th)'
  <2>1. ReleasedBy(th)  BY DEF Account, Released
  <2> QED  BY <1>1, <1>2, <1>4, <2>1, ReleasedStays DEF OrderingLoop
<1>7. /\ \A p, r \in Own(th) : p # r => Contents(p)' \cap Contents(r)' = {}
      /\ \A p \in Own(th) : \A e \in Contents(p)' :
           (e = produced + 1 /\ produced' = e) \/ \E r \in Own(th) : e \in Contents(r)
      /\ \A p \in Own(th) : \A e \in Contents(p) :
           (\E r \in Own(th) : e \in Contents(r)') \/ (IsReorder(th) /\ e \notin conf.keep)
  <2>1. /\ Handed(th)' \cap KeptBack(th)' = {} /\ Handed(th)' \cap QueuedIn(th)' = {}
        /\ KeptBack(th)' \cap QueuedIn(th)' = {}
    BY <1>3, <1>4, <1>5
  <2>2. \A e \in Handed(th)' \cup KeptBack(th)' \cup QueuedIn(th)' :
          e \in KeptBack(th) \cup QueuedIn(th)
    BY <1>3, <1>4, <1>5
  <2>3. \A e \in KeptBack(th) \cup QueuedIn(th) :
          e \in Handed(th)' \cup KeptBack(th)' \cup QueuedIn(th)'
    BY <1>3, <1>4, <1>5
  <2> QED  BY <1>1, <1>2, <2>1, <2>2, <2>3, OwnMoves
<1>8. \A k \in DOMAIN held'[th].elements :
        InSeries(produced', input_queue(th), held'[th].elements[k])
  BY <1>1, <1>4
<1>9. OnceIn(held'[th].elements)  BY <1>1, OwnBefore
<1>10. \A k \in InHand(th)' : InSeries(produced', Source(th, out'[th][k]), out'[th][k].item)
  BY <1>1, <1>3, <1>5
<1> QED  BY <1>1, <1>2, <1>3, <1>5, <1>6, <1>7, <1>8, <1>9, <1>10 DEF Moved

-----------------------------------------------------------------------------
(* The generator adds an element. *)

\* A step of the generator that does not end the stream.
Adds(th) ==
  /\ Frame(th) /\ out[th] = <<>> /\ consumed' = consumed /\ held' = held /\ queue' = queue
  /\ kind(th) = "generate" /\ pc'[th] = "loop"
  /\ produced < conf.length /\ produced' = produced + 1
  /\ out'[th] = <<Msg(output_queue(th), Item(<<produced + 1>>, produced))>>

\* The element it adds is nowhere else yet, and has the next order.
LEMMA AddMoves ==
  ASSUME Straight, Wired, Typed, Account, NEW th \in Threads, Adds(th)
  PROVE  Moved(th)
<1> DEFINE item == Item(<<produced + 1>>, produced)
           to == output_queue(th)
           m == Msg(to, item)
<1>1. /\ conf' = conf /\ DOMAIN queue' = DOMAIN queue
      /\ produced \in Nat /\ produced + 1 <= conf.length /\ produced' = produced + 1
      /\ input_queue(th) = User /\ to # User /\ to \in Queues
      /\ ~OrderingLoop(th) /\ ~IsReorder(th) /\ kind(th) # "consume"
  <2>1. kind(th) = "generate"  BY DEF Adds
  <2>2. input_queue(th) = User /\ to # User /\ to \in Queues  BY <2>1 DEF Wired, Connected
  <2>3. conf.length \in Nat /\ produced \in Nat /\ produced < conf.length  BY DEF Adds, Typed
  <2> QED  BY <2>1, <2>2, <2>3 DEF Adds, Frame, OrderingLoop, IsReorder
<1>2. /\ m.to = to /\ m.item = item /\ item.value = <<produced + 1>> /\ item.order = produced
      /\ item.value[1] = produced + 1
  BY DEF Msg, Item
<1>3. ~Empty(item) /\ Element(item) = produced + 1  BY <1>2 DEF Element, Empty, NoValue
<1> HIDE DEF item
<1>4. ~IsEndMsg(m)  BY <1>2, <1>3 DEF IsEndMsg, IsMarker
<1>5. InSeries(produced', Source(th, m), m.item)
  <2>1. Source(th, m) = to  BY <1>1, <1>2 DEF Source
  <2>2. ~Late(to)
    <3>1. \A x \in Threads : IsReorder(x) => ~Behind(x, to)
      BY <1>1 DEF Straight, Filters
    <3> QED  BY <3>1 DEF Late
  <2>3. ~Sieved(to)
    <3>1. \A x \in Threads : (kind(x) = "reorder" /\ input_queue(x) = to) => kind(th) = "filter"
      BY <1>1 DEF Wired, FilterQueues, Writers
    <3>2. kind(th) # "filter"  BY DEF Adds
    <3> QED  BY <3>1, <3>2 DEF Sieved, Readers, IsReorder
  <2>4. produced + 1 \in 1 .. produced' /\ (produced + 1) - 1 = produced  BY <1>1
  <2> QED  BY <1>2, <1>3, <2>1, <2>2, <2>3, <2>4 DEF InSeries, Number
<1>6. out'[th] = <<m>>  BY DEF Adds, item
<1> HIDE DEF m
<1>7. InHand(th)' = {1} /\ out'[th][1] = m /\ Handed(th)' = {produced'} /\ HandedOnce(th)'
  BY <1>1, <1>2, <1>3, <1>4, <1>6, HandedOne
<1>8. held'[th] = held[th] /\ held[th].elements = <<>> /\ KeptBack(th)' = {} /\ KeptBack(th) = {}
  <2>1. held[th].elements = <<>>  BY <1>1 DEF Account, Released, ReleasedBy
  <2>2. held'[th] = held[th]  BY DEF Adds
  <2> QED  BY <2>1, <2>2, ItemsStay, NoItem DEF KeptBack
<1>9. QueuedIn(th) = {} /\ QueuedIn(th)' = {}
  BY <1>1, RolesStay DEF QueuedIn, User
<1>10. ReleasedBy(th)'
  <2>1. ~OrderingLoop(th)' /\ ~IsReorder(th)' /\ kind(th)' # "consume"
    BY <1>1, RolesStay, AccountStays
  <2>2. held'[th].current \in Nat  BY <1>8 DEF Account, Released, ReleasedBy
  <2> QED  BY <1>8, <2>1, <2>2 DEF ReleasedBy
<1>11. EndsOf(th)'
  <2>1. pc'[th] = "loop" /\ DOMAIN out'[th] = {1} /\ out'[th][1].to # User
    BY <1>1, <1>2, <1>6 DEF Adds
  <2> QED  BY <2>1 DEF EndsOf, User
<1>12. /\ \A p, r \in Own(th) : p # r => Contents(p)' \cap Contents(r)' = {}
      /\ \A p \in Own(th) : \A e \in Contents(p)' :
           (e = produced + 1 /\ produced' = e) \/ \E r \in Own(th) : e \in Contents(r)
  BY <1>1, <1>7, <1>8, <1>9, OwnMoves DEF Adds
<1>20. \A p \in Own(th) : \A e \in Contents(p) :
         (\E r \in Own(th) : e \in Contents(r)') \/ (IsReorder(th) /\ e \notin conf.keep)
  BY <1>1, <1>7, <1>8, <1>9, OwnMoves DEF Adds
<1>13. \A r \in Queues : r # input_queue(th)  BY <1>1 DEF Wired, Connected
<1>14. OnceIn(held'[th].elements)  BY <1>8, OwnBefore
<1>15. /\ Frame(th) /\ out[th] = <<>> /\ consumed' = consumed
       /\ produced' \in {produced, produced + 1} /\ produced' <= conf.length
       /\ \A t \in Threads \ {th} : held'[t] = held[t]
       /\ \A r \in Queues : r # input_queue(th) => queue'[r] = queue[r]
       /\ produced' # produced => input_queue(th) = User /\ produced' \in Handed(th)'
  BY <1>1, <1>7 DEF Adds
<1>16. \A q \in Queues : q = input_queue(th) =>
         /\ QueuedOnce(q)'
         /\ \A k \in OnQueue(q)' : \E j \in OnQueue(q) : queue'[q][k] = queue[q][j]
  BY <1>13
<1>17. /\ \A k \in InHand(th)' : InSeries(produced', Source(th, out'[th][k]), out'[th][k].item)
       /\ \A k \in DOMAIN held'[th].elements :
            InSeries(produced', input_queue(th), held'[th].elements[k])
  BY <1>5, <1>7, <1>8
<1> HIDE DEF to
<1>18. HandedOnce(th)' /\ OnceIn(held'[th].elements)  BY <1>7, <1>14
<1>19. ReleasedBy(th)' /\ EndsOf(th)'  BY <1>10, <1>11
<1>21. OrderingLoop(th) => Releases(th)  BY <1>1
<1> QED  BY <1>12, <1>15, <1>16, <1>17, <1>18, <1>19, <1>20, <1>21 DEF Moved

-----------------------------------------------------------------------------
(* An ordering loop releases some of what it has. *)

\* The ordering thread of a filter: what it releases gets the rank of its element.
LEMMA GivenRanks ==
  ASSUME Straight, conf.length \in Nat, produced \in Nat, NEW th \in Threads, IsReorder(th),
         ReleasedBy(th), NEW given \in Seq(Items), Len(given) \in 0 .. 2,
         \A k \in DOMAIN given : /\ given[k].order = held[th].current + k - 1
                                 /\ InSeries(produced, input_queue(th), given[k])
  PROVE  /\ \A j \in DOMAIN given :
              IF Empty(given[j]) THEN Element(given[j]) \notin conf.keep
              ELSE /\ held[th].order + ValuesUpTo(given, j - 1) = Rank(Element(given[j]))
                   /\ Element(given[j]) \in conf.keep
         /\ held[th].order + ValuesUpTo(given, Len(given)) =
              IF Late(input_queue(th)) THEN held[th].current + Len(given)
                                       ELSE Rank(held[th].current + Len(given) + 1)
<1> DEFINE late == Late(input_queue(th))
           n == held[th].current
           o == held[th].order
           E(j) == Element(given[j])
           v(j) == IF Empty(given[j]) THEN 0 ELSE 1
<1>1. /\ n \in Nat /\ o = IF late THEN n ELSE Rank(n + 1)  BY DEF ReleasedBy
<1>2. Sieved(input_queue(th))  BY DEF Sieved, Readers
<1>3. ASSUME NEW j \in DOMAIN given
      PROVE  /\ E(j) \in 1 .. produced /\ n + j - 1 = Number(late, E(j))
             /\ IF Empty(given[j]) THEN ~late /\ E(j) \notin conf.keep ELSE E(j) \in conf.keep
  <2>1. given[j].order = n + j - 1 /\ InSeries(produced, input_queue(th), given[j])
    OBVIOUS
  <2> QED  BY <1>2, <2>1 DEF InSeries
<1>4. DOMAIN given = 1 .. Len(given)  OBVIOUS
<1>5. \A e \in Nat : /\ Rank(e) \in Nat
                     /\ Rank(e + 1) = IF e \in conf.keep THEN Rank(e) + 1 ELSE Rank(e)
  BY RankSteps
<1>6. /\ ValuesUpTo(given, 0) = 0 /\ ValuesUpTo(given, 1) = v(1)
      /\ ValuesUpTo(given, 2) = v(1) + v(2)
  BY DEF ValuesUpTo
<1> HIDE DEF E, late, n, o
<1>7. \A j \in DOMAIN given : IF late THEN Rank(E(j)) = n + j - 1 ELSE E(j) = n + j
  <2>1. ASSUME NEW j \in DOMAIN given PROVE IF late THEN Rank(E(j)) = n + j - 1 ELSE E(j) = n + j
    <3>1. /\ j \in Nat /\ E(j) \in Nat /\ n + j - 1 = IF late THEN Rank(E(j)) ELSE E(j) - 1
      BY <1>3, <1>4 DEF Number
    <3>2. n + j - 1 = n + (j - 1) /\ \A e \in Nat : n + j - 1 = e - 1 => e = n + j
      BY <1>1, <3>1
    <3>3. CASE late  BY <3>1, <3>3
    <3>4. CASE ~late  BY <3>1, <3>2, <3>4
    <3> QED  BY <3>3, <3>4
  <2> QED  BY <2>1
<1> DEFINE Goal == /\ \A j \in DOMAIN given :
                        IF Empty(given[j]) THEN E(j) \notin conf.keep
                        ELSE o + ValuesUpTo(given, j - 1) = Rank(E(j)) /\ E(j) \in conf.keep
                   /\ o + ValuesUpTo(given, Len(given)) =
                        IF late THEN n + Len(given) ELSE Rank(n + Len(given) + 1)
<1>8. CASE Len(given) = 0
  <2>1. DOMAIN given = {} /\ n + Len(given) + 1 = n + 1  BY <1>1, <1>4, <1>8
  <2>2. o + 0 = IF late THEN n + 0 ELSE Rank(n + 1)  BY <1>1, <1>5
  <2>3. Goal  BY <1>1, <1>6, <1>8, <2>1, <2>2
  <2> QED  BY <2>3 DEF E, late, n, o
<1>9. CASE Len(given) = 1
  <2>1. DOMAIN given = {1} /\ n + Len(given) + 1 = (n + 1) + 1  BY <1>1, <1>4, <1>9
  <2>2. IF late THEN Rank(E(1)) = n ELSE E(1) = n + 1  BY <1>1, <1>7, <2>1
  <2>3. Rank(E(1)) = o
    BY <1>1, <2>2
  <2>4. IF Empty(given[1]) THEN ~late /\ E(1) \notin conf.keep ELSE E(1) \in conf.keep
    BY <1>3, <2>1
  <2>5. o + v(1) = IF late THEN n + 1 ELSE Rank((n + 1) + 1)
    <3>1. CASE late  BY <1>1, <2>4, <3>1
    <3>2. CASE ~late
      <4>1. n + 1 \in Nat /\ o = Rank(n + 1) /\ E(1) = n + 1  BY <1>1, <2>2, <3>2
      <4>2. Rank((n + 1) + 1) = IF n + 1 \in conf.keep THEN o + 1 ELSE o  BY <1>5, <4>1
      <4>3. v(1) = IF n + 1 \in conf.keep THEN 1 ELSE 0  BY <2>4, <4>1
      <4>4. o \in Nat  BY <1>5, <4>1
      <4>5. o + v(1) = Rank((n + 1) + 1)  BY <4>2, <4>3, <4>4
      <4> QED  BY <3>2, <4>5
    <3> QED  BY <3>1, <3>2
  <2>6. o \in Nat  BY <1>1, <1>5
  <2>7. Goal  BY <1>6, <1>9, <2>1, <2>3, <2>4, <2>5, <2>6
  <2> QED  BY <2>7 DEF E, late, n, o
<1>10. CASE Len(given) = 2
  <2>1. /\ DOMAIN given = {1, 2} /\ n + Len(given) + 1 = ((n + 1) + 1) + 1
        /\ n + Len(given) = (n + 1) + 1
    BY <1>1, <1>4, <1>10
  <2>2. /\ IF late THEN Rank(E(1)) = n ELSE E(1) = n + 1
        /\ IF late THEN Rank(E(2)) = n + 1 ELSE E(2) = (n + 1) + 1
    BY <1>1, <1>7, <2>1
  <2>3. Rank(E(1)) = o
    BY <1>1, <2>2
  <2>4. /\ IF Empty(given[1]) THEN ~late /\ E(1) \notin conf.keep ELSE E(1) \in conf.keep
        /\ IF Empty(given[2]) THEN ~late /\ E(2) \notin conf.keep ELSE E(2) \in conf.keep
    BY <1>3, <2>1
  <2>5. o + v(1) = IF late THEN n + 1 ELSE Rank((n + 1) + 1)
    <3>1. CASE late  BY <1>1, <2>4, <3>1
    <3>2. CASE ~late
      <4>1. n + 1 \in Nat /\ o = Rank(n + 1) /\ E(1) = n + 1  BY <1>1, <2>2, <3>2
      <4>2. Rank((n + 1) + 1) = IF n + 1 \in conf.keep THEN o + 1 ELSE o  BY <1>5, <4>1
      <4>3. v(1) = IF n + 1 \in conf.keep THEN 1 ELSE 0  BY <2>4, <4>1
      <4>4. o \in Nat  BY <1>5, <4>1
      <4>5. o + v(1) = Rank((n + 1) + 1)  BY <4>2, <4>3, <4>4
      <4> QED  BY <3>2, <4>5
    <3> QED  BY <3>1, <3>2
  <2>6. o + v(1) = Rank(E(2))  BY <2>2, <2>5
  <2>7. o + (v(1) + v(2)) = IF late THEN (n + 1) + 1 ELSE Rank(((n + 1) + 1) + 1)
    <3>1. CASE late  BY <1>1, <2>4, <3>1
    <3>2. CASE ~late
      <4>1. (n + 1) + 1 \in Nat /\ o + v(1) = Rank((n + 1) + 1) /\ E(2) = (n + 1) + 1
        BY <1>1, <2>2, <2>5, <3>2
      <4>2. Rank(((n + 1) + 1) + 1) = IF (n + 1) + 1 \in conf.keep
                                     THEN Rank((n + 1) + 1) + 1 ELSE Rank((n + 1) + 1)
        BY <1>5, <4>1
      <4>3. v(2) = IF (n + 1) + 1 \in conf.keep THEN 1 ELSE 0  BY <2>4, <4>1
      <4>4. o \in Nat /\ v(1) \in Nat /\ v(2) \in Nat  BY <1>1, <1>5, <3>2
      <4>5. o + (v(1) + v(2)) = Rank(((n + 1) + 1) + 1)  BY <4>1, <4>2, <4>3, <4>4
      <4> QED  BY <3>2, <4>5
    <3> QED  BY <3>1, <3>2
  <2>8. o \in Nat  BY <1>1, <1>5
  <2>9. Goal  BY <1>6, <1>10, <2>1, <2>3, <2>4, <2>6, <2>7, <2>8
  <2> QED  BY <2>9 DEF E, late, n, o
<1> QED  BY <1>8, <1>9, <1>10

\* The number of the next order does not exceed that of the next element.
LEMMA GivenBelow ==
  ASSUME Straight, conf.length \in Nat, produced \in Nat, NEW th \in Threads, OrderingLoop(th),
         ReleasedBy(th), NEW given \in Seq(Items), Len(given) \in 0 .. 2,
         \A k \in DOMAIN given : /\ given[k].order = held[th].current + k - 1
                                 /\ InSeries(produced, input_queue(th), given[k])
  PROVE  held[th].current + Len(given) <= Number(Late(input_queue(th)), produced + 1)
<1> DEFINE late == Late(input_queue(th))
           n == held[th].current
           j == Len(given)
           e == Element(given[j])
<1>1. n \in Nat /\ n <= Number(late, produced + 1)  BY DEF ReleasedBy
<1>2. CASE j = 0  BY <1>1, <1>2
<1>3. CASE j # 0
  <2>1. j \in DOMAIN given /\ j \in Nat  BY <1>3
  <2>2. given[j].order = n + j - 1 /\ InSeries(produced, input_queue(th), given[j])
    BY <2>1
  <2>3. /\ e \in 1 .. produced /\ n + j - 1 = Number(late, e)
        /\ late => e \in conf.keep
    BY <2>2 DEF InSeries
  <2> HIDE DEF e, j, n, late
  <2>4. CASE late
    <3>1. e \in Nat /\ produced + 1 \in Nat /\ e < produced + 1 /\ e \in conf.keep  BY <2>3, <2>4
    <3>2. Rank(e) < Rank(produced + 1) /\ Rank(e) \in Nat /\ Rank(produced + 1) \in Nat
      BY <3>1, RankSteps
    <3>3. Number(late, e) = Rank(e) /\ Number(late, produced + 1) = Rank(produced + 1)
      BY <2>4 DEF Number
    <3>4. n + j <= Number(late, produced + 1)  BY <1>1, <2>1, <2>3, <3>2, <3>3
    <3> QED  BY <3>4 DEF n, j, late
  <2>5. CASE ~late
    <3>1. Number(late, e) = e - 1 /\ Number(late, produced + 1) = (produced + 1) - 1
      BY <2>5 DEF Number
    <3>2. n + j <= Number(late, produced + 1)  BY <1>1, <2>1, <2>3, <3>1
    <3> QED  BY <3>2 DEF n, j, late
  <2> QED  BY <2>4, <2>5
<1> QED  BY <1>2, <1>3

\* What an ordering loop has, r has split: it hands some on and keeps the others.
GivesOf(th, s, r, l) ==
  /\ Frame(th) /\ out[th] = <<>> /\ consumed' = consumed /\ produced' = produced
  /\ OrderingLoop(th) /\ l # "last" /\ Release(th, r, l)
  /\ Splits(s, held[th].current, r) /\ r.held.order = held[th].order
  /\ \A k \in DOMAIN s : InSeries(produced, input_queue(th), s[k])
  /\ Stands(s) \cap QueuedIn(th)' = {}
  /\ Stands(s) \cup QueuedIn(th)' = KeptBack(th) \cup QueuedIn(th)
  /\ \A r2 \in Queues : r2 # input_queue(th) => queue'[r2] = queue[r2]
  /\ \A q \in Queues : q = input_queue(th) =>
       /\ QueuedOnce(q)'
       /\ \A k \in OnQueue(q)' : \E j \in OnQueue(q) : queue'[q][k] = queue[q][j]

\* The messages of the ordered consumer.
LEMMA CallsGiven ==
  ASSUME conf' = conf, NEW th, NEW given \in Seq(Items), out'[th] = Calls(given), OnceIn(given)
  PROVE  /\ Len(out'[th]) = Len(given) /\ DOMAIN out'[th] = DOMAIN given
         /\ \A k \in DOMAIN given : out'[th][k] = Msg(User, given[k]) /\ ~IsEndMsg(out'[th][k])
         /\ InHand(th)' = DOMAIN given /\ Handed(th)' = Stands(given) /\ HandedOnce(th)'
<1>1. /\ Len(out'[th]) = Len(given) /\ DOMAIN out'[th] = DOMAIN given
      /\ \A k \in DOMAIN given : out'[th][k] = Msg(User, given[k])
  BY DEF Calls
<1>2. \A k \in DOMAIN given : /\ out'[th][k].to = User /\ out'[th][k].item = given[k]
                              /\ ~IsEndMsg(out'[th][k])
  BY <1>1 DEF Msg, IsEndMsg
<1>3. InHand(th)' = DOMAIN given  BY <1>1, <1>2, HandedNew
<1>4. Handed(th)' = Stands(given)  BY <1>2, <1>3, HandedNew DEF Stands
<1>5. HandedOnce(th)'  BY <1>2, <1>3, HandedNew DEF OnceIn
<1> QED  BY <1>1, <1>2, <1>3, <1>4, <1>5

\* The messages of the ordering thread of a filter: the values among the items.
Sends(to, K) == [k \in DOMAIN K |-> Msg(to, K[k])]

\* What th has in its hand are the values among the items given, from order n on.
ValuesHanded(th, given, n, to) ==
  /\ \A k \in DOMAIN out'[th] : \E j \in DOMAIN given :
       /\ ~Empty(given[j]) /\ out'[th][k].to = to /\ ~IsEndMsg(out'[th][k])
       /\ ~Empty(out'[th][k].item) /\ out'[th][k].item.value = given[j].value
       /\ Element(out'[th][k].item) = Element(given[j])
       /\ out'[th][k].item.order = n + ValuesUpTo(given, j - 1)
  /\ InHand(th)' = DOMAIN out'[th]
  /\ \A e : e \in Handed(th)' <=>
       \E j \in DOMAIN given : ~Empty(given[j]) /\ e = Element(given[j])
  /\ HandedOnce(th)'
  /\ Len(Renumbered(given, n)) = ValuesUpTo(given, Len(given))

\* So it is when an ordering thread of a filter renumbers what it releases.
LEMMA ValuesGiven ==
  ASSUME conf' = conf, NEW th, NEW given \in Seq(Items), Len(given) \in 0 .. 2, OnceIn(given),
         NEW n \in Nat, NEW to, out'[th] = Sends(to, Renumbered(given, n))
  PROVE  ValuesHanded(th, given, n, to)
<1> DEFINE K == Renumbered(given, n)
<1>1. /\ Len(K) = ValuesUpTo(given, Len(given))
      /\ \A k \in DOMAIN K : \E j \in DOMAIN given :
           /\ ~Empty(given[j]) /\ k = ValuesUpTo(given, j)
           /\ K[k].value = given[j].value /\ K[k].order = n + ValuesUpTo(given, j - 1)
      /\ \A j \in DOMAIN given : ~Empty(given[j]) =>
           \E k \in DOMAIN K : K[k].value = given[j].value
  BY RenumberedTwo
<1> HIDE DEF K
<1>2. /\ DOMAIN out'[th] = DOMAIN K
      /\ \A k \in DOMAIN K : out'[th][k].to = to /\ out'[th][k].item = K[k]
  <2>1. out'[th] = Sends(to, K)  BY DEF K
  <2> QED  BY <2>1 DEF Msg, Sends
<1>3. \A i, j : (i.value = j.value /\ ~Empty(j)) =>
        /\ ~Empty(i) /\ Element(i) = Element(j)
        /\ \A m : m.item = i => ~IsEndMsg(m)
  BY DEF Empty, Element, IsEndMsg, IsMarker
<1>4. \A k \in DOMAIN K : \E j \in DOMAIN given :
        /\ ~Empty(given[j]) /\ k = ValuesUpTo(given, j)
        /\ out'[th][k].to = to /\ ~IsEndMsg(out'[th][k])
        /\ ~Empty(out'[th][k].item) /\ out'[th][k].item.value = given[j].value
        /\ Element(out'[th][k].item) = Element(given[j])
        /\ out'[th][k].item.order = n + ValuesUpTo(given, j - 1)
  <2>1. ASSUME NEW k \in DOMAIN K, NEW j \in DOMAIN given,
               ~Empty(given[j]), k = ValuesUpTo(given, j),
               K[k].value = given[j].value, K[k].order = n + ValuesUpTo(given, j - 1)
        PROVE  /\ ~Empty(given[j]) /\ k = ValuesUpTo(given, j)
               /\ out'[th][k].to = to /\ ~IsEndMsg(out'[th][k])
               /\ ~Empty(out'[th][k].item) /\ out'[th][k].item.value = given[j].value
               /\ Element(out'[th][k].item) = Element(given[j])
               /\ out'[th][k].item.order = n + ValuesUpTo(given, j - 1)
    BY <1>2, <1>3, <2>1
  <2> QED  BY <1>1, <2>1
<1>5. InHand(th)' = DOMAIN K  BY <1>2, <1>4, HandedNew
<1>6. \A e : e \in Handed(th)' <=>
             \E j \in DOMAIN given : ~Empty(given[j]) /\ e = Element(given[j])
  <2>1. Handed(th)' = {Element(out'[th][k].item) : k \in DOMAIN K}  BY <1>5, HandedNew
  <2>2. \A j \in DOMAIN given : ~Empty(given[j]) =>
          \E k \in DOMAIN K : Element(out'[th][k].item) = Element(given[j])
    BY <1>1, <1>2, <1>3
  <2> QED  BY <1>4, <2>1, <2>2
<1>7. HandedOnce(th)'
  <2>1. SUFFICES ASSUME NEW k \in DOMAIN K, NEW l \in DOMAIN K,
                        Element(out'[th][k].item) = Element(out'[th][l].item)
                 PROVE  k = l
    BY <1>5, HandedNew
  <2> QED  BY <1>4, <2>1 DEF OnceIn
<1> QED  BY <1>1, <1>2, <1>4, <1>5, <1>6, <1>7 DEF ValuesHanded, K

\* What has to be shown of an ordering loop behind a step.
LEMMA ReleasedThen ==
  ASSUME conf' = conf, NEW th \in Threads, held'[th].current \in Nat,
         held'[th].elements # <<>> => OrderingLoop(th) /\ pc'[th] # "last",
         OrderingLoop(th) => held'[th].current <= Number(Late(input_queue(th)), produced' + 1),
         IsReorder(th) => held'[th].order = IF Late(input_queue(th)) THEN held'[th].current
                                                               ELSE Rank(held'[th].current + 1),
         (kind(th) = "consume" /\ conf.ordered) =>
           /\ Len(consumed') + Len(out'[th]) = held'[th].current
           /\ \A k \in DOMAIN consumed' :
                Number(Late(input_queue(th)), consumed'[k][1]) = k - 1
           /\ \A k \in DOMAIN out'[th] : out'[th][k].item.order = Len(consumed') + k - 1
  PROVE  ReleasedBy(th)'
<1> DEFINE late == Late(input_queue(th))
<1>1. /\ (Late(input_queue(th)))' = late
      /\ \A e : Rank(e)' = Rank(e)
      /\ \A e : Number(late, e)' = Number(late, e)
      /\ OrderingLoop(th)' <=> OrderingLoop(th)
      /\ IsReorder(th)' <=> IsReorder(th)
      /\ kind(th)' = kind(th)
  BY AccountStays, RolesStay
<1> HIDE DEF late
<1> QED  BY <1>1 DEF ReleasedBy, late

\* What it hands on.
Handing(th, given, l) ==
  /\ \A e \in Handed(th)' : e \in Stands(given)
  /\ \A e \in Stands(given) : e \in Handed(th)' \/ (IsReorder(th) /\ e \notin conf.keep)
  /\ HandedOnce(th)'
  /\ \A k \in InHand(th)' :
       InSeries(produced', Source(th, out'[th][k]), out'[th][k].item)
  /\ EndsOf(th)'

\* And what it keeps.
Gives(th, r, l) ==
  /\ Handing(th, r.given, l) /\ ReleasedBy(th)'
  /\ held'[th].elements = r.held.elements /\ held'[th].current = r.held.current

\* What the ordered consumer releases it hands to the user.
LEMMA GivesCalls ==
  ASSUME Straight, Wired, Typed, Account, NEW th \in Threads, NEW s, NEW r, NEW l \in Labels,
         GivesOf(th, s, r, l), kind(th) = "consume",
         Then(th, l, Calls(r.given)), held' = [held EXCEPT ![th] = r.held]
  PROVE  Gives(th, r, l)
<1> DEFINE given == r.given
           n == held[th].current
           late == Late(input_queue(th))
<1>1. /\ conf' = conf /\ given \in Seq(Items) /\ Len(given) \in 0 .. 2 /\ OnceIn(given)
      /\ out'[th] = Calls(given) /\ pc'[th] = l /\ l # "last" /\ held'[th] = r.held
      /\ produced' = produced /\ consumed' = consumed /\ out[th] = <<>>
      /\ held[th].current = n /\ conf.length \in Nat /\ produced \in Nat
      /\ OrderingLoop(th) /\ ReleasedBy(th) /\ EndsOf(th)
      /\ output_queue(th) = User /\ User' = User
  <2>1. /\ conf' = conf /\ given \in Seq(Items) /\ Len(given) \in 0 .. 2 /\ OnceIn(given)
        /\ produced' = produced /\ consumed' = consumed /\ out[th] = <<>> /\ OrderingLoop(th)
        /\ l # "last"
    BY DEF GivesOf, Frame, Splits
  <2>2. out'[th] = Calls(given) /\ pc'[th] = l /\ held'[th] = r.held
    BY DEF Then, Typed
  <2>3. /\ ReleasedBy(th) /\ EndsOf(th) /\ conf.length \in Nat /\ produced \in Nat
        /\ output_queue(th) = User
    BY DEF Account, Released, Ends, Typed, Wired, Connected
  <2> QED  BY <2>1, <2>2, <2>3 DEF User
<1>2. /\ \A k \in DOMAIN given : /\ given[k].order = n + k - 1
                                 /\ InSeries(produced, input_queue(th), given[k])
      /\ r.held.current = n + Len(given) /\ r.held.order = held[th].order
  BY DEF GivesOf, Splits
<1> HIDE DEF given, n, late
<1>3. /\ Len(out'[th]) = Len(given) /\ DOMAIN out'[th] = DOMAIN given
      /\ \A k \in DOMAIN given : out'[th][k] = Msg(User, given[k]) /\ ~IsEndMsg(out'[th][k])
      /\ InHand(th)' = DOMAIN given /\ Handed(th)' = Stands(given) /\ HandedOnce(th)'
  BY <1>1, CallsGiven
<1>4. \A k \in DOMAIN given : out'[th][k].to = User /\ out'[th][k].item = given[k]
  <2>1. \A x : Msg(User, x).to = User /\ Msg(User, x).item = x  BY DEF Msg
  <2> QED  BY <1>3, <2>1
<1>5. \A k \in InHand(th)' :
        InSeries(produced', Source(th, out'[th][k]), out'[th][k].item)
  BY <1>1, <1>2, <1>3, <1>4 DEF Source
<1>6. EndsOf(th)'
  <2>1. kind(th)' # "generate" /\ OrderingLoop(th)' /\ CallsUser(th)'
    BY <1>1, AccountStays, RolesStay DEF CallsUser
  <2> QED  BY <1>1, <2>1 DEF EndsOf
<1>7. Handing(th, given, l)  BY <1>3, <1>5, <1>6 DEF Handing
<1>8. ReleasedBy(th)'
  <2>1. n + Len(given) <= Number(late, produced + 1)
    BY <1>1, <1>2, GivenBelow DEF n, late
  <2>2. n + Len(given) \in Nat /\ n \in Nat
    BY <1>1 DEF ReleasedBy, n
  <2>4. held'[th].current = n + Len(given)  BY <1>1, <1>2
  <2>5. conf.ordered  BY <1>1 DEF OrderingLoop
  <2>6. /\ Len(consumed) + Len(out[th]) = n
        /\ \A k \in DOMAIN consumed : Number(late, consumed[k][1]) = k - 1
    BY <1>1, <2>5 DEF ReleasedBy, late
  <2>7. Len(out[th]) = 0 /\ Len(consumed) \in Nat
    BY <1>1 DEF Account, Numbered
  <2>8. Len(consumed') + Len(out'[th]) = held'[th].current
    BY <1>1, <1>3, <2>2, <2>4, <2>6, <2>7
  <2>9. \A k \in DOMAIN out'[th] : out'[th][k].item.order = Len(consumed') + k - 1
    <3>1. Len(consumed) = n  BY <2>6, <2>7
    <3> QED  BY <1>1, <1>2, <1>3, <1>4, <3>1
  <2>10. \A k \in DOMAIN consumed' : Number(late, consumed'[k][1]) = k - 1
    BY <1>1, <2>6
  <2>11. ~IsReorder(th)  BY DEF IsReorder
  <2>12. held'[th].current <= Number(late, produced' + 1) /\ held'[th].current \in Nat
    BY <1>1, <2>1, <2>2, <2>4
  <2> HIDE DEF n
  <2> QED  BY <1>1, <2>8, <2>9, <2>10, <2>11, <2>12, ReleasedThen DEF late
<1> QED  BY <1>1, <1>7, <1>8 DEF given, Gives

\* What the ordering thread of a filter releases it hands on without the rejected items.
LEMMA GivesValues ==
  ASSUME Straight, Wired, Typed, Account, NEW th \in Threads, NEW s, NEW r, NEW l \in Labels,
         GivesOf(th, s, r, l), kind(th) = "reorder", NEW K, K = Renumbered(r.given, r.held.order),
         Then(th, l, [k \in DOMAIN K |-> Msg(output_queue(th), K[k])]),
         held' = [held EXCEPT ![th] = [r.held EXCEPT !.order = @ + Len(K)]]
  PROVE  Gives(th, r, l)
<1> DEFINE given == r.given
           n == held[th].current
           o == held[th].order
           late == Late(input_queue(th))
           to == output_queue(th)
<1>1. /\ conf' = conf /\ given \in Seq(Items) /\ Len(given) \in 0 .. 2 /\ OnceIn(given)
      /\ out'[th] = [k \in DOMAIN K |-> Msg(to, K[k])] /\ pc'[th] = l /\ l # "last"
      /\ held'[th] = [r.held EXCEPT !.order = @ + Len(K)]
      /\ produced' = produced /\ consumed' = consumed /\ out[th] = <<>>
      /\ conf.length \in Nat /\ produced \in Nat
      /\ OrderingLoop(th) /\ ReleasedBy(th) /\ EndsOf(th) /\ IsReorder(th)
      /\ to # User /\ to \in Queues /\ to[1] \in Nat /\ User' = User
      /\ r.held \in HeldTypes
  <2>1. /\ conf' = conf /\ given \in Seq(Items) /\ Len(given) \in 0 .. 2 /\ OnceIn(given)
        /\ produced' = produced /\ consumed' = consumed /\ out[th] = <<>> /\ OrderingLoop(th)
        /\ l # "last" /\ r.held \in HeldTypes
    BY DEF GivesOf, Frame, Splits
  <2>2. /\ out'[th] = [k \in DOMAIN K |-> Msg(to, K[k])] /\ pc'[th] = l
        /\ held'[th] = [r.held EXCEPT !.order = @ + Len(K)]
    BY DEF Then, Typed
  <2>3. ReleasedBy(th) /\ EndsOf(th) /\ conf.length \in Nat /\ produced \in Nat
    BY DEF Account, Released, Ends, Typed
  <2>4. to # User /\ to \in Queues /\ to[1] \in Nat
    BY DEF Wired, Connected
  <2> QED  BY <2>1, <2>2, <2>3, <2>4 DEF User, IsReorder
<1>2. /\ \A k \in DOMAIN given : /\ given[k].order = n + k - 1
                                 /\ InSeries(produced, input_queue(th), given[k])
      /\ r.held.current = n + Len(given) /\ r.held.order = o
  BY DEF GivesOf, Splits
<1>3. o \in Nat  BY DEF Typed
<1> HIDE DEF given, to
<1>4. /\ \A k \in DOMAIN out'[th] : \E j \in DOMAIN given :
           /\ ~Empty(given[j]) /\ out'[th][k].to = to /\ ~IsEndMsg(out'[th][k])
           /\ ~Empty(out'[th][k].item) /\ out'[th][k].item.value = given[j].value
           /\ Element(out'[th][k].item) = Element(given[j])
           /\ out'[th][k].item.order = o + ValuesUpTo(given, j - 1)
      /\ InHand(th)' = DOMAIN out'[th]
      /\ \A e : e \in Handed(th)' <=>
             \E j \in DOMAIN given : ~Empty(given[j]) /\ e = Element(given[j])
      /\ HandedOnce(th)'
      /\ Len(K) = ValuesUpTo(given, Len(given))
  <2>1. K = Renumbered(given, o)  BY <1>2 DEF given
  <2>2. PICK x : x = o  OBVIOUS
  <2>3. x \in Nat /\ K = Renumbered(given, x)  BY <1>3, <2>1, <2>2
  <2>4. PICK y : y = to  OBVIOUS
  <2>5. PICK g : g = given  OBVIOUS
  <2>6. /\ conf' = conf /\ g \in Seq(Items) /\ Len(g) \in 0 .. 2 /\ OnceIn(g)
        /\ out'[th] = Sends(y, Renumbered(g, x))
    BY <1>1, <2>3, <2>4, <2>5 DEF Sends
  <2>7. ValuesHanded(th, g, x, y)
    BY ONLY <2>3, <2>6, ValuesGiven
  <2> HIDE DEF o
  <2> QED  BY <2>2, <2>3, <2>4, <2>5, <2>7 DEF ValuesHanded
<1>5. /\ \A j \in DOMAIN given :
           IF Empty(given[j]) THEN Element(given[j]) \notin conf.keep
           ELSE /\ o + ValuesUpTo(given, j - 1) = Rank(Element(given[j]))
                /\ Element(given[j]) \in conf.keep
      /\ o + ValuesUpTo(given, Len(given)) = IF late THEN n + Len(given) ELSE Rank(n + Len(given) + 1)
  BY <1>1, <1>2, GivenRanks
<1>6. Late(to)  BY <1>1 DEF Late, Behind, to
<1> HIDE DEF n, o, late
<1>7. \A k \in InHand(th)' :
        InSeries(produced', Source(th, out'[th][k]), out'[th][k].item)
  <2>1. SUFFICES ASSUME NEW k \in DOMAIN out'[th]
                 PROVE  InSeries(produced', Source(th, out'[th][k]), out'[th][k].item)
    BY <1>4
  <2>2. PICK j \in DOMAIN given :
           /\ ~Empty(given[j]) /\ out'[th][k].to = to /\ ~IsEndMsg(out'[th][k])
           /\ ~Empty(out'[th][k].item) /\ out'[th][k].item.value = given[j].value
           /\ Element(out'[th][k].item) = Element(given[j])
           /\ out'[th][k].item.order = o + ValuesUpTo(given, j - 1)
    BY <1>4
  <2>3. InSeries(produced, input_queue(th), given[j])  BY <1>2
  <2>4. /\ Element(given[j]) \in 1 .. produced
        /\ given[j].value = <<Element(given[j])>>
        /\ Element(given[j]) \in conf.keep
        /\ out'[th][k].item.order = Rank(Element(given[j]))
    BY <1>5, <2>2, <2>3 DEF InSeries
  <2>5. Source(th, out'[th][k]) = to  BY <1>1, <2>2 DEF Source
  <2>6. Late(to) = TRUE  BY <1>6 DEF Late
  <2>7. InSeries(produced, to, out'[th][k].item)
    BY <1>6, <2>2, <2>4, <2>6 DEF InSeries, Number
  <2> QED  BY <1>1, <2>5, <2>7
<1>8. EndsOf(th)'
  <2>1. kind(th)' # "generate" /\ OrderingLoop(th)'  BY <1>1, AccountStays, RolesStay
  <2> QED  BY <1>1, <1>4, <2>1 DEF EndsOf
<1>9. \A e \in Handed(th)' : e \in Stands(given)  BY <1>4 DEF Stands
<1>10. \A e \in Stands(given) : e \in Handed(th)' \/ (IsReorder(th) /\ e \notin conf.keep)
  BY <1>1, <1>4, <1>5 DEF Stands
<1>11. Handing(th, given, l)  BY <1>4, <1>7, <1>8, <1>9, <1>10 DEF Handing
<1>12. ReleasedBy(th)'
  <2>1. n + Len(given) <= Number(late, produced + 1)
    BY <1>1, <1>2, GivenBelow DEF n, late
  <2>2. n + Len(given) \in Nat /\ n \in Nat
    BY <1>1 DEF ReleasedBy, n
  <2>4. /\ held'[th].current = n + Len(given) /\ held'[th].order = o + Len(K)
        /\ held'[th].elements = r.held.elements
    BY <1>1, <1>2 DEF HeldTypes
  <2>5. held'[th].order = IF late THEN held'[th].current ELSE Rank(held'[th].current + 1)
    BY <1>4, <1>5, <2>4
  <2>6. held'[th].current <= Number(late, produced' + 1) /\ held'[th].current \in Nat
    BY <1>1, <2>1, <2>2, <2>4
  <2> QED  BY <1>1, <2>5, <2>6, ReleasedThen DEF late
<1>13. held'[th].elements = r.held.elements /\ held'[th].current = r.held.current
  BY <1>1 DEF HeldTypes
<1> QED  BY <1>11, <1>12, <1>13 DEF given, Gives

\* An ordering loop moves elements between its queue, its hand and those it keeps.
LEMMA GivesMoves ==
  ASSUME Straight, Wired, Typed, Account, NEW th \in Threads, NEW s, NEW r, NEW l \in Labels,
         GivesOf(th, s, r, l)
  PROVE  Moved(th)
<1>0. Gives(th, r, l)
  <2>1. Release(th, r, l)  BY DEF GivesOf
  <2>2. PICK K : K = Renumbered(r.given, r.held.order)  OBVIOUS
  <2>3. CASE /\ kind(th) = "consume"
             /\ Then(th, l, Calls(r.given))
             /\ held' = [held EXCEPT ![th] = r.held]
    BY <2>3, GivesCalls
  <2>4. CASE /\ kind(th) = "reorder"
             /\ Then(th, l, [k \in DOMAIN K |-> Msg(output_queue(th), K[k])])
             /\ held' = [held EXCEPT ![th] = [r.held EXCEPT !.order = @ + Len(K)]]
    BY <2>2, <2>4, GivesValues
  <2> QED  BY <2>1, <2>2, <2>3, <2>4 DEF Release
<1>1. /\ Handing(th, r.given, l) /\ ReleasedBy(th)'
      /\ held'[th].elements = r.held.elements /\ held'[th].current = r.held.current
  BY <1>0 DEF Gives
<1>2. /\ conf' = conf /\ DOMAIN queue' = DOMAIN queue /\ Frame(th) /\ out[th] = <<>>
      /\ consumed' = consumed /\ produced' = produced
      /\ produced \in Nat /\ produced <= conf.length
      /\ \A t \in Threads \ {th} : held'[t] = held[t]
      /\ \A q \in Queues : q # input_queue(th) => queue'[q] = queue[q]
      /\ \A q \in Queues : q = input_queue(th) =>
           /\ QueuedOnce(q)'
           /\ \A k \in OnQueue(q)' : \E j \in OnQueue(q) : queue'[q][k] = queue[q][j]
  <2>1. /\ conf' = conf /\ DOMAIN queue' = DOMAIN queue
        /\ produced \in Nat /\ produced <= conf.length
    BY DEF GivesOf, Frame, Account, Ends, Typed
  <2>2. \A t \in Threads \ {th} : held'[t] = held[t]
    <3>1. held \in [Threads -> HeldTypes] /\ Release(th, r, l)  BY DEF GivesOf, Typed, HeldTypes
    <3> QED  BY <3>1 DEF Release
  <2> QED  BY <2>1, <2>2 DEF GivesOf
<1>3. KeptBack(th)' = Stands(r.held.elements)  BY <1>1, ItemsStay DEF KeptBack
<1>4. /\ OnceIn(held'[th].elements)
      /\ Stands(r.given) \cap Stands(r.held.elements) = {}
      /\ Stands(r.given) \cup Stands(r.held.elements) = Stands(s)
      /\ \A k \in DOMAIN r.held.elements : \E j \in DOMAIN s : r.held.elements[k] = s[j]
      /\ Stands(s) \cap QueuedIn(th)' = {}
      /\ Stands(s) \cup QueuedIn(th)' = KeptBack(th) \cup QueuedIn(th)
      /\ \A k \in DOMAIN s : InSeries(produced, input_queue(th), s[k])
  BY <1>1 DEF GivesOf, Splits
<1>5. /\ \A e \in Handed(th)' : e \in Stands(r.given)
      /\ \A e \in Stands(r.given) : e \in Handed(th)' \/ (IsReorder(th) /\ e \notin conf.keep)
  BY <1>1 DEF Handing
<1>6. /\ Handed(th)' \cap KeptBack(th)' = {} /\ Handed(th)' \cap QueuedIn(th)' = {}
      /\ KeptBack(th)' \cap QueuedIn(th)' = {}
  BY <1>3, <1>4, <1>5
<1>7. \A e \in Handed(th)' \cup KeptBack(th)' \cup QueuedIn(th)' :
        e \in KeptBack(th) \cup QueuedIn(th)
  BY <1>3, <1>4, <1>5
<1>8. \A e \in KeptBack(th) \cup QueuedIn(th) :
        \/ e \in Handed(th)' \cup KeptBack(th)' \cup QueuedIn(th)'
        \/ IsReorder(th) /\ e \notin conf.keep
  BY <1>3, <1>4, <1>5
<1>9. /\ \A p, q \in Own(th) : p # q => Contents(p)' \cap Contents(q)' = {}
      /\ \A p \in Own(th) : \A e \in Contents(p)' :
           (e = produced + 1 /\ produced' = e) \/ \E q \in Own(th) : e \in Contents(q)
  BY <1>2, <1>6, <1>7, <1>8, OwnMoves
<1>10. \A p \in Own(th) : \A e \in Contents(p) :
         (\E q \in Own(th) : e \in Contents(q)') \/ (IsReorder(th) /\ e \notin conf.keep)
  BY <1>2, <1>6, <1>7, <1>8, OwnMoves
<1>11. \A k \in DOMAIN held'[th].elements :
         InSeries(produced', input_queue(th), held'[th].elements[k])
  BY <1>1, <1>2, <1>4
<1>12. /\ HandedOnce(th)' /\ EndsOf(th)'
       /\ \A k \in InHand(th)' :
            InSeries(produced', Source(th, out'[th][k]), out'[th][k].item)
  BY <1>1 DEF Handing
<1>13. Releases(th)
  <2> DEFINE late == Late(input_queue(th))
             n == held[th].current
             ready == KeptBack(th) \cup QueuedIn(th)
             rest == KeptBack(th)' \cup QueuedIn(th)'
  <2>1. /\ n \in Nat /\ r.given \in Seq(Items)
        /\ r.held.current = n + Len(r.given)
        /\ \A k \in DOMAIN r.given : /\ r.given[k].order = n + k - 1
                                     /\ InSeries(produced, input_queue(th), r.given[k])
    BY DEF Account, Released, ReleasedBy, GivesOf, Splits
  <2>2. ready \ rest = Stands(r.given) /\ rest \subseteq ready  BY <1>3, <1>4
  <2>3. \A e : e \in ready \ rest <=> \E k \in DOMAIN r.given : e = Element(r.given[k])
    BY <2>2 DEF Stands
  <2> HIDE DEF ready, rest
  <2>4. \A k \in DOMAIN r.given : /\ Number(late, Element(r.given[k])) = n + k - 1
                                  /\ late => Element(r.given[k]) \in conf.keep
    BY <2>1 DEF InSeries
  <2> HIDE DEF n, late
  <2>5. held[th].current <= held'[th].current
    BY <1>1, <2>1 DEF n
  <2>6. \A e \in ready \ rest : Number(late, e) < held'[th].current
    BY <1>1, <2>1, <2>3, <2>4
  <2>7. ASSUME NEW m \in n .. held'[th].current - 1
        PROVE  \E e \in ready \ rest : Number(late, e) = m /\ (late => e \in conf.keep)
    <3>1. m - n + 1 \in DOMAIN r.given /\ n + (m - n + 1) - 1 = m  BY <1>1, <2>1
    <3>2. PICK k \in DOMAIN r.given : n + k - 1 = m  BY <3>1
    <3> QED  BY <2>3, <2>4, <3>2
  <2> QED  BY <2>2, <2>5, <2>6, <2>7 DEF Releases, n, late, ready, rest
<1> QED  BY <1>1, <1>2, <1>4, <1>9, <1>10, <1>11, <1>12, <1>13 DEF Moved

-----------------------------------------------------------------------------
(* The actions, one by one: what each does to the elements. *)

\* An end marker that is handed on.
LEMMA EndMessage ==
  ASSUME Wired, NEW to \in Queues, NEW item, Empty(item),
         item.order = -1 \/ \A x \in Readers(to) : kind(x) # "reorder"
  PROVE  IsEndMsg(Msg(to, item)) /\ Msg(to, item).to # User
BY DEF IsEndMsg, IsMarker, Msg, Wired, Connected

\* A step that only handles end markers.
LEMMA EndsMove ==
  ASSUME Straight, Wired, Typed, Account, NEW th \in Threads, Frame(th), out[th] = <<>>,
         consumed' = consumed, produced' = produced, held' = held,
         \/ queue' = queue
         \/ \E item : Takes(th, item) /\ input_queue(th) \in Queues /\ IsMarker(input_queue(th), item),
         \/ out'[th] = <<>>
         \/ \E to \in Queues : \E item :
              /\ out'[th] = <<Msg(to, item)>> /\ Empty(item)
              /\ item.order = -1 \/ \A x \in Readers(to) : kind(x) # "reorder"
              /\ ~(kind(th) = "consume" /\ conf.ordered),
         pc'[th] = "drain" => OrderingLoop(th),
         pc'[th] = "last" => held[th].elements = <<>>,
         (kind(th) = "generate" /\ pc'[th] = "last") => produced = conf.length
  PROVE  Moved(th)
<1>1. \A k \in DOMAIN out'[th] : IsEndMsg(out'[th][k]) /\ out'[th][k].to # User
  <2>1. CASE out'[th] = <<>>  BY <2>1
  <2>2. ASSUME NEW to \in Queues, NEW item, out'[th] = <<Msg(to, item)>>, Empty(item),
               item.order = -1 \/ \A x \in Readers(to) : kind(x) # "reorder"
        PROVE  \A k \in DOMAIN out'[th] : IsEndMsg(out'[th][k]) /\ out'[th][k].to # User
    <3>1. IsEndMsg(Msg(to, item)) /\ Msg(to, item).to # User  BY <2>2, EndMessage
    <3>2. DOMAIN out'[th] = {1} /\ out'[th][1] = Msg(to, item)  BY <2>2
    <3> QED  BY <3>1, <3>2
  <2> QED  BY <2>1, <2>2
<1>2. (kind(th) = "consume" /\ conf.ordered) => out'[th] = <<>>
  OBVIOUS
<1>3. EndsOf(th)'
  <2>1. /\ kind(th)' = kind(th) /\ (OrderingLoop(th)' <=> OrderingLoop(th)) /\ User' = User
        /\ conf' = conf
    BY AccountStays, RolesStay DEF Frame, User
  <2> QED  BY <1>1, <2>1 DEF EndsOf
<1> QED  BY <1>1, <1>2, <1>3, IdleMoves DEF Idles

\* An item that goes on is in the series behind the thread too.
LEMMA SeriesGoesOn ==
  ASSUME Straight, Wired, NEW th \in Threads, ~IsReorder(th), input_queue(th) # User,
         NEW item, NEW m, ~Empty(item), m.item.value = item.value, m.item.order = item.order,
         m.to \in {User, input_queue(th), output_queue(th)},
         kind(th) = "filter" => item.value[1] \in conf.keep,
         NEW n, InSeries(n, input_queue(th), item)
  PROVE  InSeries(n, Source(th, m), m.item)
<1>1. ~Empty(m.item) /\ Element(m.item) = Element(item)  BY DEF Empty, Element
<1>2. CASE m.to = User \/ m.to = input_queue(th)
  <2>1. Source(th, m) = input_queue(th)  BY <1>2 DEF Source
  <2> QED  BY <1>1, <2>1 DEF InSeries
<1>3. CASE m.to = output_queue(th) /\ m.to # User
  <2>1. Source(th, m) = output_queue(th) /\ output_queue(th) # User  BY <1>3 DEF Source
  <2>2. Late(output_queue(th)) = Late(input_queue(th))  BY <2>1, SameSide DEF Late
  <2>3. Sieved(output_queue(th)) => kind(th) = "filter"
    BY <2>1 DEF Sieved, Readers, IsReorder, Wired, FilterQueues, Writers
  <2>4. Element(item) = item.value[1]  BY DEF Element
  <2> QED  BY <1>1, <2>1, <2>2, <2>3, <2>4 DEF InSeries
<1> QED  BY <1>2, <1>3

\* A step that takes a value and hands it on.
LEMMA ValueMoves ==
  ASSUME Straight, Wired, Typed, Account, NEW th \in Threads, Frame(th), out[th] = <<>>,
         consumed' = consumed, produced' = produced, held' = held,
         NEW item, Takes(th, item), input_queue(th) \in Queues, kind(th) # "reorder",
         ~OrderingLoop(th), ~Empty(item),
         NEW m, out'[th] = <<m>>, m.item.value = item.value, m.item.order = item.order,
         m.to \in {User, input_queue(th), output_queue(th)},
         m.to = User => output_queue(th) = User,
         kind(th) = "filter" => item.value[1] \in conf.keep,
         pc'[th] \in {"loop", "again"}
  PROVE  Moved(th)
<1>1. ~IsMarker(input_queue(th), item) /\ ~IsEndMsg(m) /\ Element(m.item) = Element(item)
  BY DEF IsMarker, IsEndMsg, Empty, Element
<1>2. input_queue(th) # User /\ ~IsReorder(th)  BY DEF Wired, Connected, IsReorder
<1>3. InSeries(produced, input_queue(th), item) => InSeries(produced, Source(th, m), m.item)
  BY <1>2, SeriesGoesOn
<1>4. EndsOf(th)'
  <2>1. CallsUser(th)' <=> output_queue(th) = User
    BY RolesStay DEF CallsUser, Frame, User
  <2>2. DOMAIN out'[th] = {1} /\ out'[th][1] = m /\ User' = User  BY DEF User
  <2> QED  BY <2>1, <2>2 DEF EndsOf
<1> QED  BY <1>1, <1>3, <1>4, CarryMoves DEF CarriesOn

\* An ordering loop takes no item but in its own way.
LEMMA PlainKinds ==
  ASSUME NEW th, kind(th) \notin {"consume", "reorder"}
  PROVE  ~OrderingLoop(th) /\ ~IsReorder(th)
BY DEF OrderingLoop, IsReorder

\* A plain stage.
LEMMA StageMoves ==
  ASSUME Straight, Typed, Orders, Wired, Account, NEW th \in Threads, Stage(th)
  PROVE  Moved(th)
<1>1. PICK item : /\ Pops(th, item)
                  /\ \/ ~Empty(item) /\ Then(th, "loop", <<Msg(output_queue(th), item)>>)
                     \/ Empty(item) /\ Then(th, "last", <<Msg(output_queue(th), End)>>)
  BY DEF Stage
<1>2. kind(th) = "stage" /\ ~OrderingLoop(th) /\ OwnTypes
  BY PlainKinds DEF Stage, Typed, HeldTypes, ReducerTypes, OwnTypes
<1>3. input_queue(th) \in Queues /\ output_queue(th) \in Queues
  BY <1>2 DEF Wired, Connected, OnlyWaits, IsHost
<1>4. Frame(th) /\ held' = held /\ produced' = produced /\ consumed' = consumed
  BY StageSettles DEF Settled, Stage
<1>5. Takes(th, item) /\ out[th] = <<>>  BY <1>1, <1>2, <1>3, PopsTakes DEF OwnTypes
<1>6. IsMarker(input_queue(th), item) <=> Empty(item)  BY <1>2, <1>3, EmptyIsMarker
<1>7. held[th].elements = <<>>  BY <1>2 DEF Account, Released, ReleasedBy
<1>8. CASE ~Empty(item) /\ Then(th, "loop", <<Msg(output_queue(th), item)>>)
  <2>1. PICK m : m = Msg(output_queue(th), item)  OBVIOUS
  <2>2. out'[th] = <<m>> /\ pc'[th] = "loop"  BY <1>8, <2>1 DEF Then, Typed
  <2>3. m.to = output_queue(th) /\ m.item = item  BY <2>1 DEF Msg
  <2> QED  BY <1>2, <1>3, <1>4, <1>5, <1>8, <2>2, <2>3, ValueMoves
<1>9. CASE Empty(item) /\ Then(th, "last", <<Msg(output_queue(th), End)>>)
  <2>1. out'[th] = <<Msg(output_queue(th), End)>> /\ pc'[th] = "last"  BY <1>9 DEF Then, Typed
  <2> QED  BY <1>2, <1>3, <1>4, <1>5, <1>6, <1>7, <1>9, <2>1, EndType, EndsMove
<1> QED  BY <1>1, <1>8, <1>9

\* The unordered consumer.
LEMMA ConsumeUnorderedMoves ==
  ASSUME Straight, Typed, Orders, Wired, Account, NEW th \in Threads, ConsumeUnordered(th)
  PROVE  Moved(th)
<1>1. PICK item : /\ Pops(th, item)
                  /\ \/ ~Empty(item) /\ Then(th, "loop", <<Msg(User, item)>>)
                     \/ Empty(item) /\ Then(th, "last", <<>>)
  BY DEF ConsumeUnordered
<1>2. kind(th) = "consume" /\ ~OrderingLoop(th) /\ OwnTypes
  BY DEF ConsumeUnordered, Typed, HeldTypes, ReducerTypes, OwnTypes, OrderingLoop
<1>3. input_queue(th) \in Queues /\ output_queue(th) = User
  BY <1>2 DEF Wired, Connected, OnlyWaits, IsHost
<1>4. Frame(th) /\ held' = held /\ produced' = produced /\ consumed' = consumed
  BY ConsumeUnorderedSettles DEF Settled, ConsumeUnordered
<1>5. Takes(th, item) /\ out[th] = <<>>  BY <1>1, <1>2, <1>3, PopsTakes DEF OwnTypes
<1>6. IsMarker(input_queue(th), item) <=> Empty(item)  BY <1>2, <1>3, EmptyIsMarker
<1>7. held[th].elements = <<>>  BY <1>2 DEF Account, Released, ReleasedBy
<1>8. CASE ~Empty(item) /\ Then(th, "loop", <<Msg(User, item)>>)
  <2>1. PICK m : m = Msg(User, item)  OBVIOUS
  <2>2. out'[th] = <<m>> /\ pc'[th] = "loop"  BY <1>8, <2>1 DEF Then, Typed
  <2>3. m.to = User /\ m.item = item  BY <2>1 DEF Msg
  <2> QED  BY <1>2, <1>3, <1>4, <1>5, <1>8, <2>2, <2>3, ValueMoves
<1>9. CASE Empty(item) /\ Then(th, "last", <<>>)
  <2>1. out'[th] = <<>> /\ pc'[th] = "last"  BY <1>9 DEF Then, Typed
  <2> QED  BY <1>2, <1>3, <1>4, <1>5, <1>6, <1>7, <1>9, <2>1, EndsMove
<1> QED  BY <1>1, <1>8, <1>9

\* A replica that ends the pipeline.
LEMMA FarmSinkMoves ==
  ASSUME Straight, Typed, Orders, Wired, Account, NEW th \in Threads, FarmSink(th)
  PROVE  Moved(th)
<1>1. PICK item : /\ Pops(th, item)
                  /\ \/ ~Empty(item) /\ Then(th, "loop", <<Msg(User, item)>>)
                     \/ Empty(item) /\ Then(th, "last", <<Msg(input_queue(th), item)>>)
  BY DEF FarmSink
<1>2. kind(th) = "farm_sink" /\ ~OrderingLoop(th) /\ OwnTypes
  BY PlainKinds DEF FarmSink, Typed, HeldTypes, ReducerTypes, OwnTypes
<1>3. input_queue(th) \in Queues /\ output_queue(th) = User
  BY <1>2 DEF Wired, Connected, OnlyWaits, IsHost
<1>4. Frame(th) /\ held' = held /\ produced' = produced /\ consumed' = consumed
  BY FarmSinkSettles DEF Settled, FarmSink
<1>5. Takes(th, item) /\ out[th] = <<>>  BY <1>1, <1>2, <1>3, PopsTakes DEF OwnTypes
<1>6. IsMarker(input_queue(th), item) <=> Empty(item)  BY <1>2, <1>3, EmptyIsMarker
<1>7. held[th].elements = <<>>  BY <1>2 DEF Account, Released, ReleasedBy
<1>8. CASE ~Empty(item) /\ Then(th, "loop", <<Msg(User, item)>>)
  <2>1. PICK m : m = Msg(User, item)  OBVIOUS
  <2>2. out'[th] = <<m>> /\ pc'[th] = "loop"  BY <1>8, <2>1 DEF Then, Typed
  <2>3. m.to = User /\ m.item = item  BY <2>1 DEF Msg
  <2> QED  BY <1>2, <1>3, <1>4, <1>5, <1>8, <2>2, <2>3, ValueMoves
<1>9. CASE Empty(item) /\ Then(th, "last", <<Msg(input_queue(th), item)>>)
  <2>1. PICK to \in Queues : to = input_queue(th)  BY <1>3
  <2>2. out'[th] = <<Msg(to, item)>> /\ pc'[th] = "last"  BY <1>9, <2>1 DEF Then, Typed
  <2>3. \A x \in Readers(to) : kind(x) # "reorder"
    BY <1>2, <2>1 DEF Wired, FilterQueues, Readers
  <2> QED  BY <1>2, <1>3, <1>4, <1>5, <1>6, <1>7, <1>9, <2>2, <2>3, EndsMove
<1> QED  BY <1>1, <1>8, <1>9

\* A replica or a context at work.
LEMMA HostWorkMoves ==
  ASSUME Straight, Typed, Orders, Wired, InPlace, Account, NEW th \in Threads, HostWork(th)
  PROVE  Moved(th)
<1>0. ~IsSequential(th)  BY DEF Straight
<1>1. PICK item : /\ Pops(th, item)
                  /\ \/ ~Empty(item) /\ Then(th, "loop", <<Msg(output_queue(th), item)>>)
                     \/ Empty(item) /\ Then(th, "join", <<>>)
  <2>1. \A item : Passes(th, item)  BY <1>0 DEF Passes
  <2> QED  BY <1>0, <2>1 DEF HostWork
<1>2. /\ kind(th) \in {"replica", "context"} /\ ~OrderingLoop(th) /\ OwnTypes
      /\ ~OnlyWaits(th)
  BY PlainKinds DEF HostWork, IsHost, Typed, HeldTypes, ReducerTypes, OwnTypes, InPlace, PlaceOf
<1>3. input_queue(th) \in Queues /\ output_queue(th) \in Queues
  BY <1>2 DEF Wired, Connected
<1>4. Frame(th) /\ held' = held /\ produced' = produced /\ consumed' = consumed
  BY HostWorkSettles DEF Settled, HostWork
<1>5. Takes(th, item) /\ out[th] = <<>>  BY <1>1, <1>2, <1>3, PopsTakes DEF OwnTypes
<1>6. IsMarker(input_queue(th), item) <=> Empty(item)  BY <1>2, <1>3, EmptyIsMarker
<1>7. CASE ~Empty(item) /\ Then(th, "loop", <<Msg(output_queue(th), item)>>)
  <2>1. PICK m : m = Msg(output_queue(th), item)  OBVIOUS
  <2>2. out'[th] = <<m>> /\ pc'[th] = "loop"  BY <1>7, <2>1 DEF Then, Typed
  <2>3. m.to = output_queue(th) /\ m.item = item  BY <2>1 DEF Msg
  <2> QED  BY <1>2, <1>3, <1>4, <1>5, <1>7, <2>2, <2>3, ValueMoves
<1>8. CASE Empty(item) /\ Then(th, "join", <<>>)
  <2>1. out'[th] = <<>> /\ pc'[th] = "join"  BY <1>8 DEF Then, Typed
  <2> QED  BY <1>2, <1>3, <1>4, <1>5, <1>6, <1>8, <2>1, EndsMove
<1> QED  BY <1>1, <1>7, <1>8

\* What an iteration makes of a value keeps its element and its order.
LEMMA IteratedSame ==
  ASSUME NEW th, NEW item \in Items
  PROVE  /\ Iterated(th, item).item.value = item.value
         /\ Iterated(th, item).item.order = item.order
         /\ Iterated(th, item).to \in {input_queue(th), output_queue(th)}
<1> DEFINE one == [item EXCEPT !.rounds = @ + 1]
           zero == [one EXCEPT !.rounds = 0]
<1>1. one \in Items /\ one.value = item.value /\ one.order = item.order
  BY DEF Items
<1> HIDE DEF one
<1>2. zero.value = one.value /\ zero.order = one.order
  BY <1>1 DEF Items
<1> HIDE DEF zero
<1>3. Iterated(th, item) \in {Msg(output_queue(th), zero), Msg(input_queue(th), one)}
  BY DEF Iterated, one, zero
<1> QED  BY <1>1, <1>2, <1>3 DEF Msg

\* An iteration moves an element to its hand, whether or not it needs another round.
LEMMA IterateMoves ==
  ASSUME Straight, Typed, Orders, Wired, Account, NEW th \in Threads, Iterate(th)
  PROVE  Moved(th)
<1>1. PICK item : /\ Pops(th, item)
                  /\ \/ ~Empty(item) /\ Then(th, "loop", <<Iterated(th, item)>>)
                     \/ Empty(item) /\ Then(th, "again", <<>>)
  BY DEF Iterate
<1>2. kind(th) = "iterate" /\ ~OrderingLoop(th) /\ OwnTypes
  BY PlainKinds DEF Iterate, Typed, HeldTypes, ReducerTypes, OwnTypes
<1>3. input_queue(th) \in Queues /\ output_queue(th) # User /\ input_queue(th) # User
  BY <1>2 DEF Wired, Connected, OnlyWaits, IsHost
<1>4. Frame(th) /\ held' = held /\ produced' = produced /\ consumed' = consumed
  BY IterateSettles DEF Settled, Iterate
<1>5. Takes(th, item) /\ out[th] = <<>> /\ item \in Items
  BY <1>1, <1>2, <1>3, PopsTakes DEF OwnTypes
<1>6. IsMarker(input_queue(th), item) <=> Empty(item)  BY <1>2, <1>3, EmptyIsMarker
<1>7. CASE ~Empty(item) /\ Then(th, "loop", <<Iterated(th, item)>>)
  <2>1. PICK m : m = Iterated(th, item)  OBVIOUS
  <2>2. out'[th] = <<m>> /\ pc'[th] = "loop"  BY <1>7, <2>1 DEF Then, Typed
  <2>3. /\ m.to \in {input_queue(th), output_queue(th)} /\ m.item.value = item.value
        /\ m.item.order = item.order
    BY <1>5, <2>1, IteratedSame
  <2> QED  BY <1>2, <1>3, <1>4, <1>5, <1>7, <2>2, <2>3, ValueMoves
<1>8. CASE Empty(item) /\ Then(th, "again", <<>>)
  <2>1. out'[th] = <<>> /\ pc'[th] = "again"  BY <1>8 DEF Then, Typed
  <2> QED  BY <1>2, <1>3, <1>4, <1>5, <1>6, <1>8, <2>1, EndsMove
<1> QED  BY <1>1, <1>7, <1>8

\* So it does when it empties its queue after the end marker.
LEMMA IterateAgainMoves ==
  ASSUME Straight, Typed, Orders, Wired, InPlace, Account, NEW th \in Threads, IterateAgain(th)
  PROVE  Moved(th)
<1>1. PICK item \in ToSet(queue[input_queue(th)]) :
         /\ item = Head(queue[input_queue(th)]) /\ ~Empty(item)
         /\ queue' = [queue EXCEPT ![input_queue(th)] = Tail(@)]
         /\ Then(th, "again", <<Iterated(th, item)>>)
  BY DEF IterateAgain
<1>2. /\ pc[th] = "again_pop" /\ conf' = conf /\ kind(th) = "iterate" /\ ~OrderingLoop(th)
      /\ out[th] = <<>>
  BY PlainKinds DEF IterateAgain, InPlace, PlaceOf
<1>3. input_queue(th) \in Queues /\ output_queue(th) # User /\ input_queue(th) # User
  BY <1>2 DEF Wired, Connected, OnlyWaits, IsHost
<1>4. Frame(th) /\ held' = held /\ produced' = produced /\ consumed' = consumed
  BY IterateAgainSettles DEF Settled, IterateAgain
<1>5. Takes(th, item)  BY <1>1 DEF Takes, ToSet
<1>6. item \in Items  BY <1>2, <1>3, <1>5, TakeKeepsQueue
<1>7. PICK m : m = Iterated(th, item)  OBVIOUS
<1>8. out'[th] = <<m>> /\ pc'[th] = "again"  BY <1>1, <1>7 DEF Then, Typed
<1>9. /\ m.to \in {input_queue(th), output_queue(th)} /\ m.item.value = item.value
      /\ m.item.order = item.order
  BY <1>6, <1>7, IteratedSame
<1> QED  BY <1>1, <1>2, <1>3, <1>4, <1>5, <1>8, <1>9, ValueMoves

\* A filter: of a value it rejects it hands on the order.
LEMMA FilterMoves ==
  ASSUME Straight, Typed, Orders, Wired, Account, NEW th \in Threads, Filter(th)
  PROVE  Moved(th)
<1> DEFINE rejected(item) == Item(NoValue, item.order)
<1>1. PICK item :
        /\ Pops(th, item)
        /\ \/ /\ ~Empty(item) /\ item.value[1] \in conf.keep
              /\ Then(th, "loop", <<Msg(output_queue(th), item)>>)
           \/ /\ ~Empty(item) /\ item.value[1] \notin conf.keep
              /\ Then(th, "loop", <<Msg(output_queue(th), rejected(item))>>)
           \/ Empty(item) /\ Then(th, "last", <<Msg(output_queue(th), End)>>)
  BY DEF Filter
<1>2. kind(th) = "filter" /\ ~OrderingLoop(th) /\ ~IsReorder(th) /\ OwnTypes
  BY PlainKinds DEF Filter, Typed, HeldTypes, ReducerTypes, OwnTypes
<1>3. /\ input_queue(th) \in Queues /\ output_queue(th) \in Queues
      /\ input_queue(th) # User /\ output_queue(th) # User
  BY <1>2 DEF Wired, Connected, OnlyWaits, IsHost
<1>4. Frame(th) /\ held' = held /\ produced' = produced /\ consumed' = consumed
  BY FilterSettles DEF Settled, Filter
<1>5. Takes(th, item) /\ out[th] = <<>> /\ item \in Items
  BY <1>1, <1>2, <1>3, PopsTakes DEF OwnTypes
<1>6. IsMarker(input_queue(th), item) <=> Empty(item)  BY <1>2, <1>3, EmptyIsMarker
<1>7. held[th].elements = <<>>  BY <1>2 DEF Account, Released, ReleasedBy
<1>8. PICK x \in Threads : kind(x) = "reorder" /\ input_queue(x) = output_queue(th)
  BY <1>2 DEF Straight, Wired, FilterQueues, Readers
<1>9. CASE /\ ~Empty(item) /\ item.value[1] \in conf.keep
           /\ Then(th, "loop", <<Msg(output_queue(th), item)>>)
  <2>1. PICK m : m = Msg(output_queue(th), item)  OBVIOUS
  <2>2. out'[th] = <<m>> /\ pc'[th] = "loop"  BY <1>9, <2>1 DEF Then, Typed
  <2>3. m.to = output_queue(th) /\ m.item = item  BY <2>1 DEF Msg
  <2> QED  BY <1>2, <1>3, <1>4, <1>5, <1>9, <2>2, <2>3, ValueMoves
<1>10. CASE /\ ~Empty(item) /\ item.value[1] \notin conf.keep
            /\ Then(th, "loop", <<Msg(output_queue(th), rejected(item))>>)
  <2>1. PICK m : m = Msg(output_queue(th), rejected(item))  OBVIOUS
  <2>2. out'[th] = <<m>> /\ pc'[th] = "loop"  BY <1>10, <2>1 DEF Then, Typed
  <2>3. /\ m.to = output_queue(th) /\ m.item = rejected(item)
        /\ Empty(m.item) /\ m.item.order = item.order
    BY <2>1 DEF Msg, Item, Empty, NoValue
  <2>4. ~IsMarker(input_queue(th), item)  BY <1>6, <1>10
  <2>5. InSeries(produced, input_queue(th), item)
    BY <1>3, <1>4, <1>5, <2>4, InTaken
  <2> DEFINE e == item.value[1]
             late == Late(input_queue(th))
  <2>6. /\ e \in 1 .. produced /\ item.order = Number(late, e)
        /\ Element(item) = e /\ ~late /\ e \notin conf.keep
    BY <1>10, <2>5 DEF InSeries, Element
  <2>7. produced \in Nat /\ e \in Nat \ {0}
    <3>1. produced \in Nat  BY DEF Typed
    <3> HIDE DEF e
    <3> QED  BY <2>6, <3>1
  <2>8. item.order = e - 1 /\ item.order # -1  BY <2>6, <2>7 DEF Number
  <2>9. Element(m.item) = e  BY <2>3, <2>7, <2>8 DEF Element
  <2>10. ~IsEndMsg(m)
    BY <1>8, <2>3, <2>8 DEF IsEndMsg, IsMarker, Readers
  <2>11. Source(th, m) = output_queue(th) /\ Late(output_queue(th)) = late
    BY <1>2, <1>3, <2>3, SameSide DEF Source, Late
  <2>12. InSeries(produced, Source(th, m), m.item)
    BY <1>8, <2>3, <2>6, <2>9, <2>11 DEF InSeries, IsReorder
  <2>13. EndsOf(th)'
    <3>1. /\ DOMAIN out'[th] = {1} /\ out'[th][1] = m /\ User' = User  BY <2>2 DEF User
    <3> QED  BY <1>3, <2>2, <2>3, <3>1 DEF EndsOf
  <2> HIDE DEF e, late
  <2> QED  BY <1>2, <1>3, <1>4, <1>5, <2>2, <2>4, <2>6, <2>9, <2>10, <2>12, <2>13, CarryMoves
           DEF CarriesOn
<1>11. CASE Empty(item) /\ Then(th, "last", <<Msg(output_queue(th), End)>>)
  <2>1. out'[th] = <<Msg(output_queue(th), End)>> /\ pc'[th] = "last"  BY <1>11 DEF Then, Typed
  <2> QED  BY <1>2, <1>3, <1>4, <1>5, <1>6, <1>7, <1>11, <2>1, EndType, EndsMove
<1> QED  BY <1>1, <1>9, <1>10, <1>11

\* The generator.
LEMMA GenerateMoves ==
  ASSUME Straight, Typed, Wired, Account, NEW th \in Threads, Generate(th)
  PROVE  Moved(th)
<1>1. /\ kind(th) = "generate" /\ out[th] = <<>> /\ ~OrderingLoop(th)
      /\ queue' = queue /\ held' = held /\ consumed' = consumed
  BY PlainKinds DEF Generate
<1>2. Frame(th)  BY GenerateSettles DEF Settled
<1>3. output_queue(th) \in Queues  BY <1>1 DEF Wired, Connected
<1>4. CASE /\ produced < conf.length /\ produced' = produced + 1
           /\ Then(th, "loop", <<Msg(output_queue(th), Item(<<produced + 1>>, produced))>>)
  <2>1. /\ out'[th] = <<Msg(output_queue(th), Item(<<produced + 1>>, produced))>>
        /\ pc'[th] = "loop"
    BY <1>4 DEF Then, Typed
  <2> QED  BY <1>1, <1>2, <1>4, <2>1, AddMoves DEF Adds
<1>5. CASE /\ produced = conf.length /\ produced' = produced
           /\ Then(th, "last", <<Msg(output_queue(th), Item(NoValue, produced))>>)
  <2>1. PICK item : item = Item(NoValue, produced)  OBVIOUS
  <2>2. out'[th] = <<Msg(output_queue(th), item)>> /\ pc'[th] = "last"
    BY <1>5, <2>1 DEF Then, Typed
  <2>3. Empty(item)  BY <2>1 DEF Item, Empty
  <2>4. \A x \in Readers(output_queue(th)) : kind(x) # "reorder"
    BY <1>1 DEF Readers, Wired, FilterQueues, Writers
  <2>5. held[th].elements = <<>>  BY <1>1 DEF Account, Released, ReleasedBy
  <2> QED  BY <1>1, <1>2, <1>3, <1>5, <2>2, <2>3, <2>4, <2>5, EndsMove
<1> QED  BY <1>4, <1>5 DEF Generate

\* The ends of a context, an iteration and a replica.
LEMMA ContextEndMoves ==
  ASSUME Straight, Typed, Wired, Account, NEW th \in Threads, ContextEnd(th)
  PROVE  Moved(th)
<1>1. /\ kind(th) = "context" /\ out[th] = <<>> /\ ~OrderingLoop(th)
      /\ queue' = queue /\ held' = held /\ consumed' = consumed /\ produced' = produced
      /\ Then(th, "last", <<Msg(output_queue(th), End)>>)
  BY PlainKinds DEF ContextEnd, Joined, EndOutput
<1>2. Frame(th)  BY ContextEndSettles DEF Settled
<1>3. output_queue(th) \in Queues  BY <1>1 DEF Wired, Connected
<1>4. held[th].elements = <<>>  BY <1>1 DEF Account, Released, ReleasedBy
<1>5. out'[th] = <<Msg(output_queue(th), End)>> /\ pc'[th] = "last"
  BY <1>1 DEF Then, Typed
<1> QED  BY <1>1, <1>2, <1>3, <1>4, <1>5, EndType, EndsMove

\* The test of an iteration for an empty queue moves nothing.
LEMMA IterateTestMoves ==
  ASSUME Straight, Typed, Wired, InPlace, Account, NEW th \in Threads, IterateTest(th)
  PROVE  Moved(th)
<1>1. /\ kind(th) = "iterate" /\ out[th] = <<>> /\ ~OrderingLoop(th)
      /\ queue' = queue /\ held' = held /\ consumed' = consumed /\ produced' = produced
      /\ \/ Then(th, "again_pop", <<>>)
         \/ Then(th, "last", <<Msg(output_queue(th), End)>>)
  BY PlainKinds DEF IterateTest, EndOutput, InPlace, PlaceOf
<1>2. Frame(th)  BY IterateTestSettles DEF Settled
<1>3. output_queue(th) \in Queues  BY <1>1 DEF Wired, Connected
<1>4. held[th].elements = <<>>  BY <1>1 DEF Account, Released, ReleasedBy
<1>5. CASE Then(th, "again_pop", <<>>)
  <2>1. out'[th] = <<>> /\ pc'[th] = "again_pop"  BY <1>5 DEF Then, Typed
  <2> QED  BY <1>1, <1>2, <1>4, <2>1, EndsMove
<1>6. CASE Then(th, "last", <<Msg(output_queue(th), End)>>)
  <2>1. out'[th] = <<Msg(output_queue(th), End)>> /\ pc'[th] = "last"
    BY <1>6 DEF Then, Typed
  <2> QED  BY <1>1, <1>2, <1>3, <1>4, <2>1, EndType, EndsMove
<1> QED  BY <1>1, <1>5, <1>6

\* Nor does a replica that counts itself.
LEMMA FarmCountMoves ==
  ASSUME Straight, Typed, Wired, Account, NEW th \in Threads, FarmCount(th)
  PROVE  Moved(th)
<1>1. /\ kind(th) = "replica" /\ out[th] = <<>> /\ ~OrderingLoop(th)
      /\ queue' = queue /\ held' = held /\ consumed' = consumed /\ produced' = produced
      /\ out'[th] = <<>> /\ pc'[th] = "test"
  BY PlainKinds DEF FarmCount, Joined, Typed
<1>2. Frame(th)  BY FarmCountSettles DEF Settled
<1> QED  BY <1>1, <1>2, EndsMove

\* Nor one that ends the output, or puts the end marker back.
LEMMA FarmEndMoves ==
  ASSUME Straight, Typed, Wired, InPlace, Account, NEW th \in Threads, FarmEnd(th)
  PROVE  Moved(th)
<1>1. /\ kind(th) = "replica" /\ out[th] = <<>> /\ ~OrderingLoop(th)
      /\ queue' = queue /\ held' = held /\ consumed' = consumed /\ produced' = produced
      /\ \/ Then(th, "last", <<Msg(output_queue(th), End)>>)
         \/ Then(th, "last", <<Msg(FarmInput(th), Item(NoValue, 0))>>)
  BY PlainKinds DEF FarmEnd, EndOutput, PutBack, InPlace, PlaceOf, IsReplica
<1>2. Frame(th)  BY FarmEndSettles DEF Settled
<1>3. output_queue(th) \in Queues /\ FarmInput(th) \in Queues
  BY <1>1 DEF Wired, Connected, FarmQueues, IsReplica
<1>4. held[th].elements = <<>>  BY <1>1 DEF Account, Released, ReleasedBy
<1>5. CASE Then(th, "last", <<Msg(output_queue(th), End)>>)
  <2>1. out'[th] = <<Msg(output_queue(th), End)>> /\ pc'[th] = "last"
    BY <1>5 DEF Then, Typed
  <2> QED  BY <1>1, <1>2, <1>3, <1>4, <2>1, EndType, EndsMove
<1>6. CASE Then(th, "last", <<Msg(FarmInput(th), Item(NoValue, 0))>>)
  <2>1. PICK item : item = Item(NoValue, 0)  OBVIOUS
  <2>2. PICK to \in Queues : to = FarmInput(th)  BY <1>3
  <2>3. out'[th] = <<Msg(to, item)>> /\ pc'[th] = "last"
    BY <1>6, <2>1, <2>2 DEF Then, Typed
  <2>4. Empty(item)  BY <2>1 DEF Item, Empty
  <2>5. \A x \in Readers(to) : kind(x) # "reorder"
    BY <1>1, <2>2 DEF Wired, FilterQueues, Readers, IsFarmInput, IsReplica
  <2> QED  BY <1>1, <1>2, <1>4, <2>3, <2>4, <2>5, EndsMove
<1> QED  BY <1>1, <1>5, <1>6

\* An ordering loop that ends.
LEMMA DrainEndMoves ==
  ASSUME Straight, Typed, Wired, InPlace, Account, NEW th \in Threads, DrainEnd(th)
  PROVE  Moved(th)
<1>1. /\ kind(th) \in {"consume", "reorder"} /\ out[th] = <<>> /\ held[th].elements = <<>>
      /\ queue' = queue /\ held' = held /\ consumed' = consumed /\ produced' = produced
      /\ \/ Then(th, "last", <<Msg(output_queue(th), End)>>) /\ kind(th) = "reorder"
         \/ Then(th, "last", <<>>)
  BY DEF DrainEnd, InPlace, PlaceOf
<1>2. Frame(th)  BY DrainEndSettles DEF Settled
<1>3. CASE Then(th, "last", <<Msg(output_queue(th), End)>>) /\ kind(th) = "reorder"
  <2>1. out'[th] = <<Msg(output_queue(th), End)>> /\ pc'[th] = "last"
    BY <1>3 DEF Then, Typed
  <2>2. output_queue(th) \in Queues  BY <1>3 DEF Wired, Connected
  <2> QED  BY <1>1, <1>2, <1>3, <2>1, <2>2, EndType, EndsMove
<1>4. CASE Then(th, "last", <<>>)
  <2>1. out'[th] = <<>> /\ pc'[th] = "last"  BY <1>4 DEF Then, Typed
  <2> QED  BY <1>1, <1>2, <2>1, EndsMove
<1> QED  BY <1>1, <1>3, <1>4

\* Looking among the elements leaves the order to be given next alone.
LEMMA ReleaseKeepsOrder ==
  ASSUME NEW h \in HeldTypes, NEW item
  PROVE  ReleaseOne(h).held.order = h.order /\ ReleaseWith(h, item).held.order = h.order
<1>1. \A g \in HeldTypes : ReleaseOne(g).held.order = g.order
  BY DEF ReleaseOne, HeldTypes
<1>2. CASE item.order = h.current
  <2> DEFINE g == [h EXCEPT !.current = @ + 1]
  <2>1. g \in HeldTypes /\ g.order = h.order  BY DEF HeldTypes
  <2> HIDE DEF g
  <2>2. ReleaseOne(g).held.order = h.order  BY <1>1, <2>1
  <2>3. ReleaseOne(g) = [given |-> ReleaseOne(g).given, held |-> ReleaseOne(g).held]
    BY DEF ReleaseOne
  <2> DEFINE r == ReleaseOne(g)
  <2>4. ReleaseWith(h, item) = [r EXCEPT !.given = <<item>> \o @]
    BY <1>2 DEF ReleaseWith, g
  <2> HIDE DEF r
  <2>5. ReleaseWith(h, item).held = r.held
    <3>1. r = [given |-> r.given, held |-> r.held]  BY <2>3 DEF r
    <3> QED  BY <2>4, <3>1
  <2> QED  BY <1>1, <2>2, <2>5 DEF r
<1>3. CASE item.order # h.current
  <2> DEFINE g == [h EXCEPT !.elements = Append(@, item)]
  <2>1. g.order = h.order  BY DEF HeldTypes
  <2>2. ReleaseOne(g).held.order = g.order
    <3>1. PICK t : t = Append(h.elements, item)  OBVIOUS
    <3>2. g = [h EXCEPT !.elements = t]  BY <3>1
    <3>3. g = [elements |-> t, current |-> h.current, order |-> h.order]
      BY <3>2 DEF HeldTypes
    <3> HIDE DEF g
    <3> QED  BY <3>3 DEF ReleaseOne
  <2>3. ReleaseWith(h, item) = ReleaseOne(g)  BY <1>3 DEF ReleaseWith
  <2> QED  BY <1>1, <2>1, <2>2, <2>3
<1> QED  BY <1>2, <1>3

\* What an ordering loop takes for the end of the stream.
LEMMA OrderingEnds ==
  ASSUME Wired, NEW th \in Threads, OrderingLoop(th), NEW item
  PROVE  /\ input_queue(th) \in Queues /\ input_queue(th) # User
         /\ IsMarker(input_queue(th), item) <=> EndsOrdering(th, item)
<1>1. kind(th) \in {"consume", "reorder"} /\ ~OnlyWaits(th)
  BY DEF OrderingLoop, OnlyWaits, IsHost
<1>2. input_queue(th) \in Queues /\ input_queue(th) # User  BY <1>1 DEF Wired, Connected
<1>3. CASE kind(th) = "consume"
  BY <1>2, <1>3, EmptyIsMarker DEF EndsOrdering
<1>4. CASE kind(th) = "reorder"
  <2>1. th \in Readers(input_queue(th))  BY DEF Readers
  <2> QED  BY <1>2, <1>4, <2>1 DEF EndsOrdering, IsMarker
<1> QED  BY <1>1, <1>2, <1>3, <1>4

\* The ordering loop.
LEMMA OrderMoves ==
  ASSUME Straight, Typed, Orders, Wired, Account, NEW th \in Threads, Order(th)
  PROVE  Moved(th)
<1>1. PICK item :
        /\ Pops(th, item)
        /\ \/ ~EndsOrdering(th, item) /\ Release(th, ReleaseWith(held[th], item), "loop")
           \/ EndsOrdering(th, item) /\ Then(th, "drain", <<>>) /\ UNCHANGED held
  BY DEF Order
<1>2. /\ OrderingLoop(th) /\ consumed' = consumed /\ produced' = produced
      /\ out[th] = <<>> /\ held[th] \in HeldTypes
  BY <1>1 DEF Order, Pops, Typed, HeldTypes
<1>3. /\ input_queue(th) \in Queues /\ input_queue(th) # User
      /\ (IsMarker(input_queue(th), item) <=> EndsOrdering(th, item))
  BY <1>2, OrderingEnds
<1>4. Frame(th)  BY OrderSettles DEF Settled
<1>5. Takes(th, item) /\ item \in Items  BY <1>1, <1>3, <1>4, PopsTakes DEF Frame
<1>6. CASE EndsOrdering(th, item) /\ Then(th, "drain", <<>>) /\ UNCHANGED held
  <2>1. out'[th] = <<>> /\ pc'[th] = "drain" /\ kind(th) # "generate"
    BY <1>2, <1>6 DEF Then, Typed, OrderingLoop
  <2> QED  BY <1>2, <1>3, <1>4, <1>5, <1>6, <2>1, EndsMove
<1>7. CASE ~EndsOrdering(th, item) /\ Release(th, ReleaseWith(held[th], item), "loop")
  <2> DEFINE h == held[th]
             s == Append(h.elements, item)
             r == ReleaseWith(h, item)
  <2>1. /\ QueuedIn(th)' = QueuedIn(th) \ {Element(item)}
        /\ Element(item) \in QueuedIn(th)
        /\ InSeries(produced, input_queue(th), item)
        /\ \A q \in Queues : q # input_queue(th) => queue'[q] = queue[q]
        /\ \A q \in Queues : q = input_queue(th) =>
             /\ QueuedOnce(q)'
             /\ \A k \in OnQueue(q)' : \E j \in OnQueue(q) : queue'[q][k] = queue[q][j]
    BY <1>3, <1>4, <1>5, <1>7, InTaken
  <2>2. KeptBack(th) \cap QueuedIn(th) = {} /\ OnceIn(h.elements)  BY OwnBefore
  <2>3. KeptBack(th) = Stands(h.elements)  BY DEF KeptBack
  <2>4. h \in HeldTypes /\ h.elements \in Seq(Items)  BY <1>2 DEF HeldTypes
  <2>5. Splits(s, h.current, r)  BY <1>5, <2>1, <2>2, <2>3, <2>4, ReleaseWithSplits
  <2>6. r.held.order = h.order  BY <2>4, ReleaseKeepsOrder
  <2>7. /\ Stands(s) = Stands(h.elements) \cup {Element(item)}
        /\ \A k \in DOMAIN s : s[k] = item \/ \E j \in DOMAIN h.elements : s[k] = h.elements[j]
    BY <1>5, <2>4, StandsAppend
  <2>8. \A k \in DOMAIN s : InSeries(produced, input_queue(th), s[k])
    BY <2>1, <2>7 DEF Account, Numbered
  <2>9. Release(th, r, "loop") /\ "loop" \in Labels /\ "loop" # "last"
    BY <1>7 DEF Labels
  <2>10. PICK s1, r1 : s1 = s /\ r1 = r  OBVIOUS
  <2> HIDE DEF s, r, h
  <2>11. GivesOf(th, s1, r1, "loop")
    <3>1. Stands(s1) \cap QueuedIn(th)' = {}  BY <2>1, <2>2, <2>3, <2>7, <2>10
    <3>2. Stands(s1) \cup QueuedIn(th)' = KeptBack(th) \cup QueuedIn(th)
      BY <2>1, <2>3, <2>7, <2>10
    <3>3. Splits(s1, held[th].current, r1) /\ r1.held.order = held[th].order
      BY <2>5, <2>6, <2>10 DEF h
    <3>4. Release(th, r1, "loop")  BY <2>9, <2>10
    <3>5. \A k \in DOMAIN s1 : InSeries(produced, input_queue(th), s1[k])  BY <2>8, <2>10
    <3> QED  BY <1>2, <1>4, <2>1, <2>9, <3>1, <3>2, <3>3, <3>4, <3>5 DEF GivesOf
  <2> QED  BY <2>9, <2>11, GivesMoves
<1> QED  BY <1>1, <1>6, <1>7

\* Behind the end marker, wherever the loop goes on.
LEMMA DrainedMoves ==
  ASSUME Straight, Typed, Wired, Account, NEW th \in Threads, NEW l \in Labels, l # "last",
         Frame(th), pc[th] = "drain", out[th] = <<>>, Release(th, ReleaseOne(held[th]), l),
         consumed' = consumed, produced' = produced, queue' = queue
  PROVE  Moved(th)
<1> DEFINE h == held[th]
           r == ReleaseOne(h)
<1>1. /\ pc[th] = "drain" /\ out[th] = <<>> /\ Release(th, r, l)
      /\ consumed' = consumed /\ produced' = produced /\ queue' = queue
  OBVIOUS
<1>2. OrderingLoop(th) /\ h \in HeldTypes
  BY <1>1 DEF Account, Ends, EndsOf, Typed, HeldTypes
<1>3. input_queue(th) \in Queues /\ input_queue(th) # User  BY <1>2, OrderingEnds
<1>4. Frame(th) /\ conf' = conf  BY DEF Frame
<1>5. KeptBack(th) \cap QueuedIn(th) = {} /\ OnceIn(h.elements) /\ \A q \in Queues : QueuedOnce(q)
  BY OwnBefore
<1>6. Splits(h.elements, h.current, r)  BY <1>2, <1>5, ReleaseOneSplits
<1>7. r.held.order = h.order  BY <1>2, ReleaseKeepsOrder
<1>8. QueuedIn(th)' = QueuedIn(th)
  <2>1. Queued(input_queue(th))' = Queued(input_queue(th))
    <3>1. PICK q : q = input_queue(th)  OBVIOUS
    <3>2. q = input_queue(th)'  BY <1>4, <3>1, RolesStay
    <3> QED  BY <1>1, <1>4, <3>1, <3>2, QueuedSame
  <2> QED  BY <1>4, <2>1, RolesStay DEF QueuedIn
<1>9. \A q \in Queues : /\ QueuedOnce(q)'
                        /\ OnQueue(q)' = OnQueue(q) /\ queue'[q] = queue[q]
  BY <1>1, <1>4, <1>5, QueuedSame
<1>10. l \in Labels /\ l # "last"  OBVIOUS
<1>11. \A k \in DOMAIN h.elements : InSeries(produced, input_queue(th), h.elements[k])
  BY DEF Account, Numbered
<1>12. PICK s1, r1 : s1 = h.elements /\ r1 = r  OBVIOUS
<1>13. KeptBack(th) = Stands(s1)  BY <1>12 DEF KeptBack
<1> HIDE DEF h, r
<1>14. GivesOf(th, s1, r1, l)
  <2>1. /\ Splits(s1, held[th].current, r1) /\ r1.held.order = held[th].order
        /\ Release(th, r1, l)
        /\ \A k \in DOMAIN s1 : InSeries(produced, input_queue(th), s1[k])
    BY <1>1, <1>6, <1>7, <1>11, <1>12 DEF h
  <2>2. /\ Stands(s1) \cap QueuedIn(th)' = {}
        /\ Stands(s1) \cup QueuedIn(th)' = KeptBack(th) \cup QueuedIn(th)
    BY <1>5, <1>8, <1>13
  <2> QED  BY <1>1, <1>2, <1>4, <1>9, <1>10, <2>1, <2>2 DEF GivesOf
<1> QED  BY <1>10, <1>14, GivesMoves

\* In the native back end the loop looks again.
LEMMA DrainMoves ==
  ASSUME Straight, Typed, Wired, InPlace, Account, NEW th \in Threads, Drain(th)
  PROVE  Moved(th)
<1>1. Frame(th)  BY DrainSettles DEF Settled
<1>2. "drain" \in Labels /\ "drain" # "last"  BY DEF Labels
<1>3. /\ pc[th] = "drain" /\ out[th] = <<>> /\ Release(th, ReleaseOne(held[th]), "drain")
      /\ consumed' = consumed /\ produced' = produced /\ queue' = queue
  BY DEF Drain
<1> QED  BY <1>1, <1>2, <1>3, DrainedMoves

-----------------------------------------------------------------------------
(* A push, or a call of the user's operation. *)

\* One element goes from one place to another.
LEMMA SwapSeparate ==
  ASSUME NEW S, NEW C, NEW D, NEW from \in S, NEW to \in S, from # to, NEW e, e \in C[from],
         D[from] = C[from] \ {e}, D[to] = C[to] \cup {e},
         \A p \in S \ {from, to} : D[p] = C[p],
         \A p, r \in S : p # r => C[p] \cap C[r] = {}
  PROVE  /\ \A p, r \in S : p # r => D[p] \cap D[r] = {}
         /\ \A p \in S : \A x \in C[p] : \E r \in S : x \in D[r]
<1>1. ASSUME NEW p \in S, NEW r \in S, p # r, NEW x, x \in D[p], x \in D[r] PROVE FALSE
  <2>1. \A y \in S : x \in D[y] => (x \in C[y] \/ (y = to /\ x = e))  OBVIOUS
  <2>2. x = e => x \notin C[to] /\ x \notin D[from] /\ \A y \in S : y # from => x \notin C[y]
    OBVIOUS
  <2> QED  BY <1>1, <2>1, <2>2
<1>2. ASSUME NEW p \in S, NEW x \in C[p] PROVE \E r \in S : x \in D[r]
  <2>1. CASE p = from /\ x = e  BY <2>1
  <2>2. CASE p = from /\ x # e  BY <2>2
  <2>3. CASE p # from  BY <2>3
  <2> QED  BY <2>1, <2>2, <2>3
<1> QED  BY <1>1, <1>2

\* So when it leaves a thread's hand.
LEMMA LeavesHand ==
  ASSUME Once, Somewhere, conf' = conf, DOMAIN queue' = DOMAIN queue, produced' = produced,
         NEW th \in Threads, NEW e, e \in Handed(th), Handed(th)' = Handed(th) \ {e},
         NEW to \in Spots, to # <<"hand", th>>,
         Contents(to)' = Contents(to) \cup {e},
         \A p \in Spots : (p # to /\ p # <<"hand", th>>) => Contents(p)' = Contents(p)
  PROVE  Separate' /\ Somewhere'
<1> DEFINE C == [p \in Spots |-> Contents(p)]
           D == [p \in Spots |-> Contents(p)']
           from == <<"hand", th>>
<1>1. /\ from \in Spots /\ Contents(from) = Handed(th) /\ Contents(from)' = Handed(th)'
      /\ Spots' = Spots
  BY SpotsAre, SpotsStay
<1>2. /\ e \in C[from] /\ D[from] = C[from] \ {e} /\ D[to] = C[to] \cup {e} /\ from # to
      /\ \A p \in Spots \ {from, to} : D[p] = C[p]
  BY <1>1
<1>3. \A p, r \in Spots : p # r => C[p] \cap C[r] = {}  BY DEF Once, Separate
<1>4. \A p \in Spots : C[p] = Contents(p) /\ D[p] = Contents(p)'  OBVIOUS
<1> HIDE DEF C, D, from
<1>5. /\ \A p, r \in Spots : p # r => D[p] \cap D[r] = {}
      /\ \A p \in Spots : \A x \in C[p] : \E r \in Spots : x \in D[r]
  BY <1>1, <1>2, <1>3, SwapSeparate
<1>6. Separate'  BY <1>1, <1>4, <1>5 DEF Separate
<1>7. \A p \in Spots : \A x \in Contents(p) : \E r \in Spots : x \in Contents(r)'
  BY <1>4, <1>5
<1>8. Somewhere'  BY <1>1, <1>7, AccountStays DEF Somewhere
<1> QED  BY <1>6, <1>8

\* What stays the same everywhere.
LEMMA StaysSomewhere ==
  ASSUME Once, Somewhere, conf' = conf, DOMAIN queue' = DOMAIN queue, produced' = produced,
         \A p \in Spots : Contents(p)' = Contents(p)
  PROVE  Separate' /\ Somewhere'
<1>1. Spots' = Spots  BY SpotsStay
<1> QED  BY <1>1, AccountStays DEF Once, Separate, Somewhere

\* The ordering loops behind a step that releases nothing and in which only thread th
\* has something less in its hands.
LEMMA ReleasedByOthers ==
  ASSUME conf' = conf, produced' = produced, held' = held, pc' = pc, NEW t \in Threads,
         ReleasedBy(t),
         (kind(t) = "consume" /\ conf.ordered) => (consumed' = consumed /\ out'[t] = out[t])
  PROVE  ReleasedBy(t)'
<1> DEFINE late == Late(input_queue(t))
<1>1. /\ (Late(input_queue(t)))' = late
      /\ \A e : Rank(e)' = Rank(e)
      /\ \A e : Number(late, e)' = Number(late, e)
      /\ OrderingLoop(t)' <=> OrderingLoop(t)
      /\ IsReorder(t)' <=> IsReorder(t)
      /\ kind(t)' = kind(t)
  BY AccountStays, RolesStay
<1>2. IsReorder(t)' => held'[t].order = IF Late(input_queue(t)) THEN held'[t].current
                                                                 ELSE Rank(held'[t].current + 1)
  BY <1>1 DEF ReleasedBy
<1>3. /\ held'[t].current \in Nat
      /\ held'[t].elements # <<>> => OrderingLoop(t) /\ pc'[t] # "last"
      /\ OrderingLoop(t) => held'[t].current <= Number(late, produced' + 1)
      /\ (kind(t) = "consume" /\ conf.ordered) =>
           /\ Len(consumed') + Len(out'[t]) = held'[t].current
           /\ \A k \in DOMAIN consumed' : Number(late, consumed'[k][1]) = k - 1
           /\ \A k \in DOMAIN out'[t] : out'[t][k].item.order = Len(consumed') + k - 1
  BY DEF ReleasedBy
<1> HIDE DEF late
<1> QED  BY <1>1, <1>2, <1>3 DEF ReleasedBy, late

\* What both kinds of step have in common.
HandsOn(th, m) ==
  /\ HandsOver(th) /\ m = out[th][1] /\ m \in Messages
  /\ held' = held /\ produced' = produced /\ pc' = pc

\* The hands of the threads behind it.
LEMMA HandsThen ==
  ASSUME Straight, Wired, Typed, Account, NEW th \in Threads, NEW m, HandsOn(th, m)
  PROVE  /\ conf' = conf /\ DOMAIN queue' = DOMAIN queue
         /\ \A t \in Threads : HandedOnce(t)' /\ OnceIn(held[t].elements)'
         /\ \A t \in Threads \ {th} : Handed(t)' = Handed(t) /\ out'[t] = out[t]
         /\ \A t \in Threads : KeptBack(t)' = KeptBack(t)
         /\ Handed(th)' = IF IsEndMsg(m) THEN Handed(th) ELSE Handed(th) \ {Element(m.item)}
         /\ ~IsEndMsg(m) => /\ Element(m.item) \in Handed(th)
                            /\ InSeries(produced, Source(th, m), m.item)
         /\ \A t \in Threads : \A k \in InHand(t)' :
              InSeries(produced, Source(t, out'[t][k]), out'[t][k].item)
         /\ \A t \in Threads : \A k \in DOMAIN held'[t].elements :
              InSeries(produced, input_queue(t), held'[t].elements[k])
         /\ Ends'
<1>1. /\ conf' = conf /\ DOMAIN queue' = DOMAIN queue /\ Threads' = Threads
      /\ \A t \in Threads \ {th} : out'[t] = out[t]
      /\ held' = held /\ produced' = produced /\ pc' = pc
      /\ out \in [Threads -> Seq(Messages)]
  BY RolesStay DEF HandsOn, HandsOver, Frame, Typed, Messages
<1>2. /\ out[th] # <<>> /\ out'[th] = Tail(out[th]) /\ m = Head(out[th])
  <2>1. out[th] \in Seq(Messages) /\ out[th] # <<>>  BY <1>1 DEF HandsOn, HandsOver
  <2> QED  BY <2>1, TailOf DEF HandsOn, HandsOver
<1>3. /\ HandedOnce(th)'
      /\ Handed(th)' = IF IsEndMsg(m) THEN Handed(th) ELSE Handed(th) \ {Element(m.item)}
      /\ ~IsEndMsg(m) => 1 \in InHand(th) /\ Element(m.item) \in Handed(th)
      /\ out[th][1] = m /\ 1 \in DOMAIN out[th]
      /\ \A k \in InHand(th)' : /\ k \in Nat \ {0} /\ k + 1 \in InHand(th)
                                /\ out'[th][k] = out[th][k + 1]
  BY <1>1, <1>2, HandedOn DEF HandsOn, Account, Once
<1>4. \A t \in Threads \ {th} : /\ InHand(t)' = InHand(t) /\ Handed(t)' = Handed(t)
                                /\ (HandedOnce(t)' <=> HandedOnce(t))
  BY <1>1, HandedSame
<1>5. \A t \in Threads : HandedOnce(t)' /\ OnceIn(held[t].elements)'
  BY <1>1, <1>3, <1>4, ItemsStay DEF Account, Once
<1>6. \A t \in Threads : KeptBack(t)' = KeptBack(t)  BY <1>1, ItemsStay DEF KeptBack
<1>7. ~IsEndMsg(m) => InSeries(produced, Source(th, m), m.item)
  BY <1>3 DEF Account, Numbered
<1>8. ASSUME NEW t \in Threads, NEW k \in InHand(t)'
      PROVE  InSeries(produced, Source(t, out'[t][k]), out'[t][k].item)
  <2>1. CASE t = th
    <3>1. k + 1 \in InHand(th) /\ out'[th][k] = out[th][k + 1]  BY <1>3, <1>8, <2>1
    <3> QED  BY <2>1, <3>1 DEF Account, Numbered
  <2>2. CASE t # th  BY <1>1, <1>4, <1>8, <2>2 DEF Account, Numbered
  <2> QED  BY <2>1, <2>2
<1>9. \A t \in Threads : \A k \in DOMAIN held'[t].elements :
        InSeries(produced, input_queue(t), held'[t].elements[k])
  BY <1>1 DEF Account, Numbered
<1>10. ASSUME NEW t \in Threads PROVE EndsOf(t)'
  <2>1. \A k \in DOMAIN out'[t] : \E j \in DOMAIN out[t] : out'[t][k] = out[t][j]
    <3>1. CASE t = th
      <4>1. out[th] \in Seq(Messages)  BY <1>1
      <4>2. \A k \in DOMAIN Tail(out[th]) :
              k + 1 \in DOMAIN out[th] /\ Tail(out[th])[k] = out[th][k + 1]
        BY <1>2, <4>1, TailOf
      <4> QED  BY <1>2, <3>1, <4>2
    <3>2. CASE t # th  BY <1>1, <3>2
    <3> QED  BY <3>1, <3>2
  <2>2. EndsOf(t)  BY DEF Account, Ends
  <2> QED  BY <1>1, <2>1, <2>2, RolesStay, AccountStays DEF EndsOf, User
<1>11. Ends'  BY <1>1, <1>10 DEF Account, Ends
<1> QED  BY <1>1, <1>3, <1>4, <1>5, <1>6, <1>7, <1>8, <1>9, <1>11

\* A thread that consumes pushes nothing.
LEMMA ConsumersCall ==
  ASSUME Wired, Outgoing, NEW th \in Threads, kind(th) = "consume", NEW k \in DOMAIN out[th]
  PROVE  out[th][k].to = User
<1>1. /\ output_queue(th) = User /\ ~IsReplica(th)  BY DEF Wired, Connected, IsReplica
<1>2. OutgoingOf(th)  BY DEF Outgoing
<1> QED  BY <1>1, <1>2 DEF OutgoingOf

\* A push moves an element from a hand into a queue.
LEMMA PushKeepsAccount ==
  ASSUME Straight, Wired, Typed, InPlace, Outgoing, Account, NEW th \in Threads, Push(th)
  PROVE  Account'
<1> DEFINE m == out[th][1]
           q == m.to
<1>1. /\ out[th] # <<>> /\ Head(out[th]).to # User
      /\ queue' = [queue EXCEPT ![Head(out[th]).to] = Append(@, Head(out[th]).item)]
      /\ held' = held /\ produced' = produced /\ pc' = pc /\ consumed' = consumed
  BY DEF Push
<1>2. HandsOver(th)  BY PushDone DEF Pushed
<1>3. /\ out[th] \in Seq(Messages) /\ queue \in [Queues -> Seq(Items)]
  BY DEF Typed, Messages
<1>4. m = Head(out[th]) /\ m \in Messages /\ 1 \in DOMAIN out[th]  BY <1>1, <1>3, TailOf
<1>5. q \in Queues /\ m.item \in Items /\ q # User  BY <1>1, <1>4 DEF Messages
<1>6. /\ queue'[q] = Append(queue[q], m.item)
      /\ \A r \in Queues : r # q => queue'[r] = queue[r]
  BY <1>1, <1>3, <1>4, <1>5
<1>7. kind(th) # "consume"  BY <1>4, <1>5, ConsumersCall
<1> HIDE DEF m
<1>8. PICK x, r : x = m /\ r = q  OBVIOUS
<1>9. HandsOn(th, x) /\ r = x.to /\ r \in Queues /\ r # User
  BY <1>1, <1>2, <1>4, <1>5, <1>8 DEF HandsOn, m
<1>10. /\ queue'[r] = Append(queue[r], x.item) /\ x.item \in Items
       /\ \A s \in Queues : s # r => queue'[s] = queue[s]
  BY <1>5, <1>6, <1>8
<1> HIDE DEF q
<1>11. /\ conf' = conf /\ DOMAIN queue' = DOMAIN queue
       /\ \A t \in Threads : HandedOnce(t)' /\ OnceIn(held[t].elements)'
       /\ \A t \in Threads \ {th} : Handed(t)' = Handed(t) /\ out'[t] = out[t]
       /\ \A t \in Threads : KeptBack(t)' = KeptBack(t)
       /\ Handed(th)' = IF IsEndMsg(x) THEN Handed(th) ELSE Handed(th) \ {Element(x.item)}
       /\ ~IsEndMsg(x) => /\ Element(x.item) \in Handed(th)
                          /\ InSeries(produced, Source(th, x), x.item)
       /\ \A t \in Threads : \A k \in InHand(t)' :
            InSeries(produced, Source(t, out'[t][k]), out'[t][k].item)
       /\ \A t \in Threads : \A k \in DOMAIN held'[t].elements :
            InSeries(produced, input_queue(t), held'[t].elements[k])
       /\ Ends'
  BY <1>9, HandsThen
<1>12. Source(th, x) = r /\ (IsEndMsg(x) <=> IsMarker(r, x.item))
  BY <1>9 DEF Source, IsEndMsg
<1>13. ~IsMarker(r, x.item) => Element(x.item) \notin Queued(r)
  <2>1. /\ <<"hand", th>> \in Spots /\ Contents(<<"hand", th>>) = Handed(th)
        /\ <<"queue", r>> \in Spots /\ Contents(<<"queue", r>>) = Queued(r)
        /\ <<"hand", th>> # <<"queue", r>>
    BY <1>9, SpotsAre
  <2>2. Handed(th) \cap Queued(r) = {}  BY <2>1 DEF Account, Once, Separate
  <2> QED  BY <1>11, <1>12, <2>2
<1>14. /\ QueuedOnce(r)'
       /\ Queued(r)' = IF IsMarker(r, x.item) THEN Queued(r) ELSE Queued(r) \cup {Element(x.item)}
       /\ \A k \in OnQueue(r)' : \/ k \in OnQueue(r) /\ queue'[r][k] = queue[r][k]
                                 \/ ~IsMarker(r, x.item) /\ queue'[r][k] = x.item
  BY <1>3, <1>9, <1>10, <1>11, <1>13, QueuedAdded DEF Account, Once
<1>15. \A s \in Queues : s # r => /\ OnQueue(s)' = OnQueue(s) /\ Queued(s)' = Queued(s)
                                  /\ (QueuedOnce(s)' <=> QueuedOnce(s))
  BY <1>10, <1>11, QueuedSame
<1>16. Numbered'
  <2>1. ASSUME NEW s \in Queues, NEW k \in OnQueue(s)' PROVE InSeries(produced', s, queue'[s][k])
    <3>1. CASE s = r /\ k \in OnQueue(r) /\ queue'[r][k] = queue[r][k]
      BY <1>1, <1>9, <3>1 DEF Account, Numbered
    <3>2. CASE s = r /\ ~IsMarker(r, x.item) /\ queue'[r][k] = x.item
      BY <1>1, <1>11, <1>12, <3>2
    <3>3. CASE s # r
      BY <1>1, <1>10, <1>15, <3>3 DEF Account, Numbered
    <3>4. s = r => k \in OnQueue(r)'  BY <2>1
    <3> QED  BY <1>14, <3>1, <3>2, <3>3, <3>4
  <2>2. /\ \A t \in Threads : \A k \in InHand(t)' :
             InSeries(produced', Source(t, out'[t][k]), out'[t][k].item)
        /\ \A t \in Threads : \A k \in DOMAIN held'[t].elements :
             InSeries(produced', input_queue(t), held'[t].elements[k])
        /\ consumed' \in Seq(Seq(Int))
        /\ \A k \in DOMAIN consumed' : \E e \in Chosen \cap 1 .. produced' : consumed'[k] = <<e>>
    BY <1>1, <1>11 DEF Account, Numbered
  <2> QED  BY <1>11, <2>1, <2>2, NumberedThen
<1>17. Once' /\ Somewhere'
  <2> DEFINE to == <<"queue", r>>
  <2>1. \A p \in Spots : (p # to /\ p # <<"hand", th>>) => Contents(p)' = Contents(p)
    <3>1. Delivered' = Delivered  BY <1>1 DEF Delivered
    <3>2. ASSUME NEW s \in Queues, <<"queue", s>> # to
          PROVE  Contents(<<"queue", s>>)' = Contents(<<"queue", s>>)
      BY <1>11, <1>15, <3>2, SpotsAre, SpotsStay
    <3>3. ASSUME NEW t \in Threads
          PROVE  /\ t # th => Contents(<<"hand", t>>)' = Contents(<<"hand", t>>)
                 /\ Contents(<<"kept", t>>)' = Contents(<<"kept", t>>)
      BY <1>11, SpotsAre, SpotsStay
    <3>4. Contents(<<"user", User>>)' = Contents(<<"user", User>>)
      BY <1>11, <3>1, SpotsAre, SpotsStay
    <3> SUFFICES ASSUME NEW p \in Spots, p # to, p # <<"hand", th>>
                 PROVE  Contents(p)' = Contents(p)
      OBVIOUS
    <3>5. CASE \E s \in Queues : p = <<"queue", s>>  BY <3>2, <3>5
    <3>6. CASE \E t \in Threads : p = <<"hand", t>> \/ p = <<"kept", t>>
      <4>1. PICK t \in Threads : p = <<"hand", t>> \/ p = <<"kept", t>>  BY <3>6
      <4> QED  BY <3>3, <4>1
    <3>7. CASE p = <<"user", User>>  BY <3>4, <3>7
    <3> QED  BY <3>5, <3>6, <3>7, SpotsAre
  <2>2. /\ to \in Spots /\ to # <<"hand", th>>
        /\ Contents(to) = Queued(r) /\ Contents(to)' = Queued(r)'
        /\ Contents(<<"hand", th>>) = Handed(th) /\ Contents(<<"hand", th>>)' = Handed(th)'
    BY <1>9, <1>11, SpotsAre, SpotsStay
  <2>3. Once /\ Somewhere  BY DEF Account
  <2>4. Separate' /\ Somewhere'
    <3>1. CASE IsEndMsg(x)
      <4>1. Contents(to)' = Contents(to) /\ Contents(<<"hand", th>>)' = Contents(<<"hand", th>>)
        BY <1>11, <1>12, <1>14, <2>2, <3>1
      <4>2. \A p \in Spots : Contents(p)' = Contents(p)  BY <2>1, <4>1
      <4> QED  BY <1>1, <1>11, <2>3, <4>2, StaysSomewhere
    <3>2. CASE ~IsEndMsg(x)
      <4>1. Contents(to)' = Contents(to) \cup {Element(x.item)}  BY <1>12, <1>14, <2>2, <3>2
      <4>2. PICK e : e = Element(x.item)  OBVIOUS
      <4>3. /\ e \in Handed(th) /\ Handed(th)' = Handed(th) \ {e}
            /\ Contents(to)' = Contents(to) \cup {e}
        BY <1>11, <3>2, <4>1, <4>2
      <4> HIDE DEF to
      <4> QED  BY <1>1, <1>11, <2>1, <2>2, <2>3, <4>3, LeavesHand
    <3> QED  BY <3>1, <3>2
  <2>5. \A s \in Queues : QueuedOnce(s)'  BY <1>14, <1>15 DEF Account, Once
  <2>6. Threads' = Threads /\ Queues' = Queues  BY <1>11, RolesStay DEF Queues
  <2>7. \A k, l \in DOMAIN consumed' : consumed'[k] = consumed'[l] => k = l
    BY <1>1 DEF Account, Once
  <2> QED  BY <1>11, <2>4, <2>5, <2>6, <2>7 DEF Once
<1>18. Released'
  <2>1. ASSUME NEW t \in Threads PROVE ReleasedBy(t)'
    <3>1. ReleasedBy(t)  BY DEF Account, Released
    <3>2. (kind(t) = "consume" /\ conf.ordered) => (consumed' = consumed /\ out'[t] = out[t])
      BY <1>1, <1>7, <1>11
    <3> QED  BY <1>1, <1>11, <3>1, <3>2, ReleasedByOthers
  <2> QED  BY <1>11, <2>1, RolesStay DEF Released
<1> QED  BY <1>11, <1>16, <1>17, <1>18 DEF Account

\* Every way leads through the filters.
LEMMA AtTheEnd ==
  ASSUME Straight, Wired, NEW th \in Threads, CallsUser(th)
  PROVE  Late(input_queue(th)) <=> \E x \in Threads : IsReorder(x)
<1>1. ASSUME NEW x \in Threads, IsReorder(x) PROVE Behind(x, input_queue(th))
  <2>1. x # th  BY <1>1 DEF Wired, Connected, IsReorder, CallsUser
  <2> QED  BY <1>1, <2>1 DEF Straight, Filters, CallsUser
<1> QED  BY <1>1 DEF Late

\* What the user's operation is called with.
LEMMA CalledWith ==
  ASSUME Straight, Wired, Typed, Account, NEW th \in Threads, out[th] # <<>>,
         NEW m, m = out[th][1], m.to = User
  PROVE  /\ CallsUser(th) /\ pc[th] # "last" /\ ~IsEndMsg(m) /\ 1 \in DOMAIN out[th]
         /\ \E e \in Chosen \cap 1 .. produced :
              /\ e = Element(m.item) /\ e \in Handed(th) /\ m.item.value = <<e>>
              /\ m.item.order = Number(Late(input_queue(th)), e)
              /\ \A k \in DOMAIN consumed : consumed[k][1] # e
<1>1. out[th] \in Seq(Messages)  BY DEF Typed, Messages
<1>2. 1 \in DOMAIN out[th]  BY <1>1, TailOf
<1>3. CallsUser(th) /\ pc[th] # "last"  BY <1>2 DEF Account, Ends, EndsOf
<1>4. ~IsEndMsg(m) /\ Source(th, m) = input_queue(th)  BY DEF IsEndMsg, Source
<1>5. 1 \in InHand(th)  BY <1>2, <1>4 DEF InHand
<1>6. InSeries(produced, input_queue(th), m.item)  BY <1>4, <1>5 DEF Account, Numbered
<1>7. PICK e : e = Element(m.item)  OBVIOUS
<1>8. (\E x \in Threads : IsReorder(x)) => Late(input_queue(th))  BY <1>3, AtTheEnd
<1>9. ~Empty(m.item)  BY <1>6, <1>8 DEF InSeries
<1>10. (\E x \in Threads : IsReorder(x)) => e \in conf.keep
  BY <1>6, <1>7, <1>8, <1>9 DEF InSeries
<1>11. /\ e \in 1 .. produced /\ m.item.value = <<e>>
       /\ m.item.order = Number(Late(input_queue(th)), e)
  BY <1>6, <1>7, <1>9 DEF InSeries
<1>12. e \in 1 .. conf.length
  <2>1. produced \in Nat /\ conf.length \in Nat /\ produced <= conf.length
    BY DEF Account, Ends, Typed
  <2> QED  BY <1>11, <2>1
<1>13. e \in Chosen  BY <1>10, <1>12 DEF Chosen
<1>14. e \in Handed(th)  BY <1>5, <1>7 DEF Handed
<1>15. \A k \in DOMAIN consumed : consumed[k][1] # e
  <2>1. /\ <<"hand", th>> \in Spots /\ Contents(<<"hand", th>>) = Handed(th)
        /\ <<"user", User>> \in Spots /\ Contents(<<"user", User>>) = Delivered
        /\ <<"hand", th>> # <<"user", User>>
    BY SpotsAre
  <2>2. Handed(th) \cap Delivered = {}  BY <2>1 DEF Account, Once, Separate
  <2> QED  BY <1>14, <2>2 DEF Delivered
<1> QED  BY <1>2, <1>3, <1>4, <1>7, <1>11, <1>13, <1>14, <1>15

\* A call of the user's operation moves an element from a hand to the user.
LEMMA ConsumeKeepsAccount ==
  ASSUME Straight, Wired, Typed, InPlace, Outgoing, Account, NEW th \in Threads, Consume(th)
  PROVE  Account'
<1>1. /\ out[th] # <<>> /\ Head(out[th]).to = User
      /\ held' = held /\ produced' = produced /\ pc' = pc /\ queue' = queue
      /\ consumed' = Append(consumed, Head(out[th]).item.value)
  BY DEF Consume
<1>2. HandsOver(th)  BY PushDone DEF Pushed
<1>3. out[th] \in Seq(Messages)  BY DEF Typed, Messages
<1>4. PICK m : m = out[th][1]  OBVIOUS
<1>5. m = Head(out[th]) /\ m \in Messages /\ 1 \in DOMAIN out[th]  BY <1>1, <1>3, <1>4, TailOf
<1>6. m.to = User /\ HandsOn(th, m) /\ consumed' = Append(consumed, m.item.value)
      /\ m.item \in Items /\ ~IsEndMsg(m) /\ Source(th, m) = input_queue(th)
  BY <1>1, <1>2, <1>4, <1>5 DEF HandsOn, Messages, IsEndMsg, Source
<1>7. /\ conf' = conf /\ DOMAIN queue' = DOMAIN queue
      /\ \A t \in Threads : HandedOnce(t)' /\ OnceIn(held[t].elements)'
      /\ \A t \in Threads \ {th} : Handed(t)' = Handed(t) /\ out'[t] = out[t]
      /\ \A t \in Threads : KeptBack(t)' = KeptBack(t)
      /\ Handed(th)' = IF IsEndMsg(m) THEN Handed(th) ELSE Handed(th) \ {Element(m.item)}
      /\ ~IsEndMsg(m) => /\ Element(m.item) \in Handed(th)
                         /\ InSeries(produced, Source(th, m), m.item)
      /\ \A t \in Threads : \A k \in InHand(t)' :
           InSeries(produced, Source(t, out'[t][k]), out'[t][k].item)
      /\ \A t \in Threads : \A k \in DOMAIN held'[t].elements :
           InSeries(produced, input_queue(t), held'[t].elements[k])
      /\ Ends'
  BY <1>6, HandsThen
<1>8. CallsUser(th)  BY <1>1, <1>4, <1>6, CalledWith
<1>9. PICK e \in Chosen \cap 1 .. produced :
        /\ e = Element(m.item) /\ e \in Handed(th) /\ m.item.value = <<e>>
        /\ m.item.order = Number(Late(input_queue(th)), e)
        /\ \A k \in DOMAIN consumed : consumed[k][1] # e
  BY <1>1, <1>4, <1>6, CalledWith
<1>10. /\ e \in Chosen /\ e \in 1 .. produced /\ m.item.value = <<e>>
       /\ m.item.order = Number(Late(input_queue(th)), e)
  BY <1>9
<1>11. \A k \in DOMAIN consumed : consumed[k][1] # e  BY <1>9
<1> DEFINE n == Len(consumed)
<1>12. /\ consumed \in Seq(Seq(Int)) /\ <<e>> \in Seq(Int) /\ consumed' = Append(consumed, <<e>>)
  BY <1>6, <1>10 DEF Account, Numbered
<1>13. /\ n \in Nat /\ consumed' \in Seq(Seq(Int))
       /\ DOMAIN consumed = 1 .. n /\ DOMAIN consumed' = 1 .. n + 1 /\ Len(consumed') = n + 1
       /\ \A k \in 1 .. n : consumed'[k] = consumed[k]
       /\ consumed'[n + 1] = <<e>>
  BY <1>12
<1> HIDE DEF n
<1>14. \A k \in DOMAIN consumed' : (k \in DOMAIN consumed /\ consumed'[k] = consumed[k])
                                   \/ (k = n + 1 /\ consumed'[k] = <<e>>)
  BY <1>13
<1>15. Numbered'
  <2>1. \A q \in Queues : \A k \in OnQueue(q)' : InSeries(produced', q, queue'[q][k])
    <3>1. \A q \in Queues : OnQueue(q)' = OnQueue(q)  BY <1>1, <1>7, QueuedSame
    <3> QED  BY <1>1, <3>1 DEF Account, Numbered
  <2>2. \A k \in DOMAIN consumed' : \E f \in Chosen \cap 1 .. produced' : consumed'[k] = <<f>>
    BY <1>1, <1>10, <1>14 DEF Account, Numbered
  <2> QED  BY <1>1, <1>7, <1>13, <2>1, <2>2, NumberedThen
<1>16. Delivered' = Delivered \cup {e}
  <2>1. Delivered' = {consumed'[k][1] : k \in DOMAIN consumed'}  BY DEF Delivered
  <2>2. \A x \in Delivered' : x \in Delivered \cup {e}  BY <1>14, <2>1 DEF Delivered
  <2>3. e \in Delivered'
    <3>1. n + 1 \in DOMAIN consumed' /\ consumed'[n + 1][1] = e  BY <1>13
    <3> QED  BY <2>1, <3>1
  <2>4. \A x \in Delivered : x \in Delivered'
    <3>1. \A k \in DOMAIN consumed : k \in DOMAIN consumed' /\ consumed'[k] = consumed[k]
      BY <1>13
    <3> QED  BY <2>1, <3>1 DEF Delivered
  <2> QED  BY <2>2, <2>3, <2>4
<1>17. Once' /\ Somewhere'
  <2> DEFINE to == <<"user", User>>
  <2>1. \A p \in Spots : (p # to /\ p # <<"hand", th>>) => Contents(p)' = Contents(p)
    <3>1. ASSUME NEW s \in Queues
          PROVE  Contents(<<"queue", s>>)' = Contents(<<"queue", s>>)
      <4>1. Queued(s)' = Queued(s)  BY <1>1, <1>7, QueuedSame
      <4> QED  BY <1>7, <4>1, SpotsAre, SpotsStay
    <3>2. ASSUME NEW t \in Threads
          PROVE  /\ t # th => Contents(<<"hand", t>>)' = Contents(<<"hand", t>>)
                 /\ Contents(<<"kept", t>>)' = Contents(<<"kept", t>>)
      BY <1>7, SpotsAre, SpotsStay
    <3> SUFFICES ASSUME NEW p \in Spots, p # to, p # <<"hand", th>>
                 PROVE  Contents(p)' = Contents(p)
      OBVIOUS
    <3>3. CASE \E s \in Queues : p = <<"queue", s>>  BY <3>1, <3>3
    <3>4. CASE \E t \in Threads : p = <<"hand", t>> \/ p = <<"kept", t>>
      <4>1. PICK t \in Threads : p = <<"hand", t>> \/ p = <<"kept", t>>  BY <3>4
      <4> QED  BY <3>2, <4>1
    <3> QED  BY <3>3, <3>4, SpotsAre
  <2>2. /\ to \in Spots /\ to # <<"hand", th>>
        /\ Contents(to)' = Contents(to) \cup {e}
    BY <1>7, <1>16, SpotsAre, SpotsStay
  <2>3. Once /\ Somewhere /\ e \in Handed(th) /\ Handed(th)' = Handed(th) \ {e}
    BY <1>6, <1>7, <1>9 DEF Account
  <2>4. Separate' /\ Somewhere'
    <3> HIDE DEF to
    <3> QED  BY <1>1, <1>7, <2>1, <2>2, <2>3, LeavesHand
  <2>5. \A s \in Queues : QueuedOnce(s)'  BY <1>1, <1>7, QueuedSame DEF Account, Once
  <2>6. Threads' = Threads /\ Queues' = Queues  BY <1>7, RolesStay DEF Queues
  <2>7. \A k, l \in DOMAIN consumed' : consumed'[k] = consumed'[l] => k = l
    <3>1. \A k, l \in DOMAIN consumed : consumed[k] = consumed[l] => k = l
      BY DEF Account, Once
    <3>2. \A k \in DOMAIN consumed : consumed[k] # <<e>>  BY <1>11
    <3> QED  BY <1>14, <3>1, <3>2
  <2> QED  BY <1>7, <2>4, <2>5, <2>6, <2>7 DEF Once
<1>18. ASSUME NEW t \in Threads PROVE ReleasedBy(t)'
  <2>1. ReleasedBy(t)  BY DEF Account, Released
  <2>2. (kind(t) = "consume" /\ t # th) => FALSE  BY <1>8 DEF Straight
  <2>3. CASE t # th \/ ~(kind(th) = "consume" /\ conf.ordered)
    BY <1>1, <1>7, <2>1, <2>2, <2>3, ReleasedByOthers
  <2>4. CASE t = th /\ kind(th) = "consume" /\ conf.ordered
    <3> DEFINE late == Late(input_queue(th))
    <3>1. /\ (Late(input_queue(th)))' = late
          /\ \A x : Number(late, x)' = Number(late, x)
          /\ OrderingLoop(th)' <=> OrderingLoop(th)
          /\ ~IsReorder(th)' /\ kind(th)' = kind(th)
      BY <1>7, <2>4, AccountStays, RolesStay DEF IsReorder
    <3>2. /\ held[th].current \in Nat
          /\ held[th].elements # <<>> => OrderingLoop(th) /\ pc[th] # "last"
          /\ OrderingLoop(th) => held[th].current <= Number(late, produced + 1)
          /\ Len(consumed) + Len(out[th]) = held[th].current
          /\ \A k \in DOMAIN consumed : Number(late, consumed[k][1]) = k - 1
          /\ \A k \in DOMAIN out[th] : out[th][k].item.order = Len(consumed) + k - 1
      BY <2>1, <2>4 DEF ReleasedBy
    <3>3. /\ Len(out[th]) \in Nat /\ Len(out'[th]) = Len(out[th]) - 1
          /\ \A k \in DOMAIN out'[th] : /\ k \in Nat /\ k + 1 \in DOMAIN out[th]
                                        /\ out'[th][k] = out[th][k + 1]
      BY <1>1, <1>2, <1>3, TailOf DEF HandsOver
    <3>4. Number(late, e) = n
      <4>1. m.item.order = Len(consumed) + 1 - 1  BY <1>4, <1>5, <3>2
      <4> QED  BY <1>10, <1>13, <4>1 DEF n
    <3>5. Len(consumed') + Len(out'[th]) = held[th].current
      <4>1. \A i, j \in Nat : (i + 1) + (j - 1) = i + j  OBVIOUS
      <4>2. n + Len(out[th]) = held[th].current  BY <3>2 DEF n
      <4> QED  BY <1>13, <3>3, <4>1, <4>2
    <3>6. \A k \in DOMAIN consumed' : Number(late, consumed'[k][1]) = k - 1
      <4>1. Number(late, <<e>>[1]) = (n + 1) - 1  BY <1>13, <3>4
      <4> HIDE DEF late
      <4> QED  BY <1>14, <3>2, <4>1
    <3>7. \A k \in DOMAIN out'[th] : out'[th][k].item.order = Len(consumed') + k - 1
      <4>1. \A i, j \in Nat : i + (j + 1) - 1 = (i + 1) + j - 1  OBVIOUS
      <4>2. \A k \in DOMAIN out[th] : out[th][k].item.order = n + k - 1  BY <3>2 DEF n
      <4>3. \A k \in DOMAIN out'[th] : out'[th][k].item.order = n + (k + 1) - 1
        BY <3>3, <4>2
      <4> QED  BY <1>13, <3>3, <4>1, <4>3
    <3> HIDE DEF late
    <3> QED  BY <1>1, <2>4, <3>1, <3>2, <3>5, <3>6, <3>7 DEF ReleasedBy, late
  <2> QED  BY <2>3, <2>4
<1>19. Released'  BY <1>7, <1>18, RolesStay DEF Released
<1> QED  BY <1>7, <1>15, <1>17, <1>19 DEF Account

\* The steps that are neither a push nor a call.
LEMMA StepMoves ==
  ASSUME Straight, IInv, Account, NEW th \in Threads, Step(th), ~Push(th), ~Consume(th)
  PROVE  Moved(th)
<1>1. Typed /\ Wired /\ Outgoing /\ InPlace /\ Orders  BY DEF IInv
<1>2. ~Reduce(th)  BY DEF Straight, Reduce
<1> QED
  BY <1>1, <1>2, GenerateMoves, StageMoves, HostWorkMoves, FarmCountMoves, FarmEndMoves,
     ContextEndMoves, FarmSinkMoves, OrderMoves, DrainMoves, DrainEndMoves,
     ConsumeUnorderedMoves, FilterMoves, IterateMoves, IterateTestMoves, IterateAgainMoves
     DEF Step

\* Every step keeps account of the elements.
LEMMA StepKeepsAccount ==
  ASSUME Straight, IInv, Account, NEW th \in Threads, Step(th)
  PROVE  Account'
<1>1. Typed /\ Wired /\ Outgoing /\ InPlace /\ Orders  BY DEF IInv
<1>2. CASE Push(th)  BY <1>1, <1>2, PushKeepsAccount
<1>3. CASE Consume(th)  BY <1>1, <1>3, ConsumeKeepsAccount
<1>4. CASE ~Push(th) /\ ~Consume(th)  BY <1>1, <1>4, StepMoves, MovedKeeps
<1> QED  BY <1>2, <1>3, <1>4

\* A step leaves the connections of the threads.
LEMMA StepFrame ==
  ASSUME IInv, NEW th \in Threads, Step(th)
  PROVE  Frame(th)
<1>1. Typed /\ Wired /\ Outgoing /\ InPlace /\ Orders  BY DEF IInv
<1> QED  BY <1>1, StepSettles DEF Settled, Pushed

\* What happens if nothing does.
LEMMA StutterKeepsAccount ==
  ASSUME Account, UNCHANGED vars
  PROVE  Account'
<1>1. /\ conf' = conf /\ queue' = queue /\ pc' = pc /\ out' = out /\ produced' = produced
      /\ held' = held /\ consumed' = consumed /\ DOMAIN queue' = DOMAIN queue
  BY DEF vars
<1>2. /\ Threads' = Threads /\ Queues' = Queues /\ Chosen' = Chosen /\ Spots' = Spots
      /\ \A th \in Threads : kind(th)' = kind(th)
  BY <1>1, RolesStay, AccountStays, SpotsStay DEF Queues
<1>3. \A q \in Queues : /\ OnQueue(q)' = OnQueue(q) /\ Queued(q)' = Queued(q)
                        /\ (QueuedOnce(q)' <=> QueuedOnce(q))
  BY <1>1, QueuedSame
<1>4. \A th \in Threads : /\ InHand(th)' = InHand(th) /\ Handed(th)' = Handed(th)
                          /\ (HandedOnce(th)' <=> HandedOnce(th))
                          /\ KeptBack(th)' = KeptBack(th)
                          /\ (OnceIn(held[th].elements)' <=> OnceIn(held[th].elements))
  BY <1>1, HandedSame, ItemsStay DEF KeptBack
<1>5. Delivered' = Delivered  BY <1>1 DEF Delivered
<1>6. \A p \in Spots : Contents(p)' = Contents(p)
  <2>1. /\ \A q \in Queues : Contents(<<"queue", q>>)' = Contents(<<"queue", q>>)
        /\ Contents(<<"user", User>>)' = Contents(<<"user", User>>)
    BY <1>1, <1>3, <1>5, SpotsSame
  <2>2. \A th \in Threads : /\ Contents(<<"hand", th>>)' = Contents(<<"hand", th>>)
                            /\ Contents(<<"kept", th>>)' = Contents(<<"kept", th>>)
    <3>1. \A th \in Threads : Contents(<<"hand", th>>)' = Contents(<<"hand", th>>)
      BY <1>1, <1>4, SpotsSame
    <3>2. \A th \in Threads : Contents(<<"kept", th>>)' = Contents(<<"kept", th>>)
      BY <1>1, <1>4, SpotsSame
    <3> QED  BY <3>1, <3>2
  <2>3. \A p \in Spots : \/ \E q \in Queues : p = <<"queue", q>>
                         \/ \E th \in Threads : p = <<"hand", th>> \/ p = <<"kept", th>>
                         \/ p = <<"user", User>>
    BY SpotsAre
  <2> QED  BY <2>1, <2>2, <2>3
<1>7. Numbered'
  <2>1. \A q \in Queues : \A k \in OnQueue(q)' : InSeries(produced', q, queue'[q][k])
    BY <1>1, <1>3 DEF Account, Numbered
  <2>2. \A th \in Threads : \A k \in InHand(th)' :
           InSeries(produced', Source(th, out'[th][k]), out'[th][k].item)
    BY <1>1, <1>4 DEF Account, Numbered
  <2>3. /\ \A th \in Threads : \A k \in DOMAIN held'[th].elements :
             InSeries(produced', input_queue(th), held'[th].elements[k])
        /\ consumed' \in Seq(Seq(Int))
        /\ \A k \in DOMAIN consumed' : \E e \in Chosen \cap 1 .. produced' : consumed'[k] = <<e>>
    BY <1>1 DEF Account, Numbered
  <2> QED  BY <1>1, <2>1, <2>2, <2>3, NumberedThen
<1>8. Once' /\ Somewhere'
  <2>1. Separate' /\ Somewhere'  BY <1>1, <1>6, StaysSomewhere DEF Account
  <2> QED  BY <1>1, <1>2, <1>3, <1>4, <2>1 DEF Account, Once
<1>9. Released'
  <2>1. \A th \in Threads : ReleasedBy(th)'  BY <1>1, ReleasedByOthers DEF Account, Released
  <2> QED  BY <1>2, <2>1 DEF Released
<1>10. Ends'
  <2>1. \A th \in Threads : EndsOf(th)'
    BY <1>1, RolesStay, AccountStays DEF Account, Ends, EndsOf, User
  <2> QED  BY <1>1, <1>2, <2>1 DEF Account, Ends
<1> QED  BY <1>7, <1>8, <1>9, <1>10 DEF Account

\* All steps.
LEMMA NextKeepsAccount ==
  Straight /\ IInv /\ Account /\ [Next]_vars => Straight' /\ Account'
<1> SUFFICES ASSUME Straight, IInv, Account, [Next]_vars PROVE Straight' /\ Account'  OBVIOUS
<1>1. CASE UNCHANGED vars
  <2>1. conf' = conf /\ DOMAIN queue' = DOMAIN queue  BY <1>1 DEF vars
  <2> QED  BY <1>1, <2>1, StraightStays, StutterKeepsAccount
<1>2. ASSUME NEW th \in Threads, Step(th) PROVE Straight' /\ Account'
  <2>1. conf' = conf /\ DOMAIN queue' = DOMAIN queue  BY <1>2, StepFrame DEF Frame
  <2> QED  BY <1>2, <2>1, StraightStays, StepKeepsAccount
<1>3. Return => UNCHANGED vars  BY DEF Return
<1> QED  BY <1>1, <1>2, <1>3 DEF Next

\* Before the pipeline runs there are no elements.
LEMMA InitAccount == Straight /\ IInv /\ Init => Account
<1> SUFFICES ASSUME Straight, IInv, NEW p \in Pipelines, InitFor(p) PROVE Account  BY DEF Init
<1>1. /\ \A q \in Queues : queue[q] = <<>>
      /\ \A th \in Threads : /\ out[th] = <<>> /\ pc[th] \in {"join", "loop"}
                             /\ held[th].elements = <<>> /\ held[th].current = 0
                             /\ held[th].order = 0
      /\ produced = 0 /\ consumed = <<>>
  BY DEF InitFor, Queues
<1>2. conf.length \in Nat  BY DEF IInv, Typed
<1>3. /\ \A q \in Queues : OnQueue(q) = {} /\ Queued(q) = {} /\ QueuedOnce(q)
      /\ \A th \in Threads : /\ InHand(th) = {} /\ Handed(th) = {} /\ HandedOnce(th)
                             /\ KeptBack(th) = {} /\ OnceIn(held[th].elements)
      /\ Delivered = {}
  <2>1. \A q \in Queues : OnQueue(q) = {} /\ Queued(q) = {} /\ QueuedOnce(q)
    BY <1>1 DEF OnQueue, Queued, QueuedOnce
  <2>2. \A th \in Threads : /\ InHand(th) = {} /\ Handed(th) = {} /\ HandedOnce(th)
                            /\ KeptBack(th) = {} /\ OnceIn(held[th].elements)
    BY <1>1, HandedNone DEF KeptBack, Stands, OnceIn
  <2>3. Delivered = {}  BY <1>1 DEF Delivered
  <2> QED  BY <2>1, <2>2, <2>3
<1>4. Numbered
  <2>1. consumed \in Seq(Seq(Int))  BY <1>1
  <2> QED  BY <1>1, <1>3, <2>1 DEF Numbered
<1>5. Once
  <2>1. \A r \in Spots : Contents(r) = {}  BY <1>3, SpotsAre
  <2> QED  BY <1>1, <1>3, <2>1 DEF Once, Separate
<1>6. Somewhere
  <2>1. \A e \in Chosen : e \in 1 .. conf.length  BY DEF Chosen, Straight
  <2> QED  BY <1>1, <1>2, <2>1 DEF Somewhere
<1>7. Released
  <2>1. SUFFICES ASSUME NEW th \in Threads PROVE ReleasedBy(th)  BY DEF Released
  <2>2. \A late : Number(late, 1) = 0 /\ Rank(1) = 0  BY <1>2, RankSteps DEF Number
  <2>3. Number(Late(input_queue(th)), produced + 1) = 0 /\ Rank(held[th].current + 1) = 0
    <3>1. produced + 1 = 1 /\ held[th].current + 1 = 1  BY <1>1
    <3> QED  BY <2>2, <3>1
  <2>4. Len(consumed) + Len(out[th]) = 0 /\ DOMAIN consumed = {} /\ DOMAIN out[th] = {}
    BY <1>1
  <2> QED  BY <1>1, <2>3, <2>4 DEF ReleasedBy
<1>8. Ends  BY <1>1, <1>2 DEF Ends, EndsOf
<1> QED  BY <1>4, <1>5, <1>6, <1>7, <1>8 DEF Account

\* Of every pipeline that is straight.
THEOREM AccountOfTheStream == Straight /\ Spec => [](IInv /\ Straight /\ Account)
<1>1. Straight /\ Init => IInv /\ Straight /\ Account  BY InitKeeps, InitAccount
<1>2. IInv /\ Straight /\ Account /\ [Next]_vars => (IInv /\ Straight /\ Account)'
  BY NextKeeps, NextKeepsAccount
<1> QED  BY <1>1, <1>2, PTL DEF Spec

-----------------------------------------------------------------------------
(* The end of the stream. *)

\* The threads that call the user's operation have returned.
Ended == \A th \in SinkThreads : Finished(th)

\* The threads that call the user's operation are the sinks.
LEMMA SinksCall ==
  ASSUME Wired, NEW th \in Threads
  PROVE  th \in SinkThreads <=> CallsUser(th)
BY DEF Wired, Connected, SinkThreads, CallsUser

\* When a thread has left its loop its queue has run dry.
LEMMA LeftDry ==
  ASSUME Straight, NothingLeft, NEW q \in Queues, NEW r \in Readers(q), HasLeft(r)
  PROVE  RunDry(q)
<1>1. \A th \in Threads : ~MayEndTwice(th)  BY DEF Straight, MayEndTwice
<1>2. EndedOnce(q)  BY <1>1 DEF EndedOnce
<1>3. \A r1, r2 \in Readers(q) : kind(r1) = "iterate" => r1 = r2  BY DEF Straight, Readers
<1>4. NothingLeftOn(q)  BY <1>2 DEF NothingLeft, Queues
<1> QED  BY <1>3, <1>4 DEF NothingLeftOn

\* With a queue the queues in front of it have.
LEMMA DryUpstream ==
  ASSUME Straight, IInv
  PROVE  Upstream({q \in Queues : RunDry(q)})
<1> DEFINE W == {q \in Queues : RunDry(q)}
<1>1. Wired /\ NothingLeft  BY DEF IInv
<1>2. SUFFICES ASSUME NEW th \in Threads, output_queue(th) \in W, input_queue(th) # User
               PROVE  input_queue(th) \in W
  BY DEF Upstream
<1>3. input_queue(th) \in Queues /\ th \in Readers(input_queue(th))
  BY <1>1, <1>2 DEF Wired, Connected, Readers
<1>4. HasLeft(th)  BY <1>2 DEF RunDry, HasLeft
<1> QED  BY <1>1, <1>3, <1>4, LeftDry

\* When the sinks have ended nothing is left anywhere, and every thread has left its
\* loop.
LEMMA EndedDry ==
  ASSUME Straight, IInv, Ended
  PROVE  /\ \A q \in Queues : RunDry(q)
         /\ \A th \in Threads : pc[th] = "last"
<1> DEFINE W == {q \in Queues : RunDry(q)}
<1>1. Wired /\ NothingLeft  BY DEF IInv
<1>2. ASSUME NEW q \in Queues, NEW r \in Readers(q), pc[r] = "last" PROVE RunDry(q)
  BY <1>1, <1>2, LeftDry DEF HasLeft
<1>3. Upstream(W)  BY DryUpstream
<1>4. \A th \in Threads : CallsUser(th) => pc[th] = "last"
  BY <1>1, SinksCall DEF Ended, Finished
<1>5. ASSUME NEW th \in Threads, CallsUser(th) PROVE input_queue(th) \in W
  <2>1. input_queue(th) \in Queues /\ th \in Readers(input_queue(th))
    BY <1>1, <1>5 DEF Wired, Connected, Readers, CallsUser, OnlyWaits, IsHost
  <2> QED  BY <1>2, <1>4, <1>5, <2>1
<1>6. W \in SUBSET Queues  OBVIOUS
<1> HIDE DEF W
<1>7. W = Queues  BY <1>3, <1>5, <1>6 DEF Straight, Leads
<1>8. \A q \in Queues : RunDry(q)  BY <1>7 DEF W
<1>9. ASSUME NEW th \in Threads PROVE pc[th] = "last"
  <2>1. CASE output_queue(th) = User  BY <1>4, <2>1 DEF CallsUser
  <2>2. CASE output_queue(th) # User
    <3>1. output_queue(th) \in Queues  BY <1>1, <2>2 DEF Wired, Connected
    <3> QED  BY <1>8, <3>1 DEF RunDry
  <2> QED  BY <2>1, <2>2
<1> QED  BY <1>8, <1>9

\* Then every element has been consumed.
LEMMA EndedDelivers == Straight /\ IInv /\ Account => (Ended => SD!Pending = {})
<1> SUFFICES ASSUME Straight, IInv, Account, Ended PROVE SD!Pending = {}  OBVIOUS
<1>1. /\ \A q \in Queues : RunDry(q)
      /\ \A th \in Threads : pc[th] = "last"
  BY EndedDry
<1>2. Wired /\ Typed  BY DEF IInv
<1>3. produced = conf.length  BY <1>1 DEF Straight, Account, Ends, EndsOf
<1>4. \A q, item : (Empty(item) /\ InSeries(produced, q, item)) => Element(item) \notin Chosen
  BY DEF InSeries, Chosen
<1>5. ASSUME NEW e \in Chosen PROVE e \in Delivered
  <2>1. e \in 1 .. conf.length  BY DEF Chosen, Straight
  <2>2. e <= produced  BY <1>3, <2>1
  <2>3. PICK p \in Spots : e \in Contents(p)  BY <2>2 DEF Account, Somewhere
  <2>4. ASSUME NEW q \in Queues, p = <<"queue", q>> PROVE FALSE
    <3>1. PICK k \in OnQueue(q) : e = Element(queue[q][k])
      BY <2>3, <2>4, SpotsAre DEF Queued
    <3>2. InSeries(produced, q, queue[q][k])  BY DEF Account, Numbered
    <3>3. Empty(queue[q][k])  BY <1>1 DEF RunDry, OnQueue
    <3> QED  BY <1>4, <3>1, <3>2, <3>3
  <2>5. ASSUME NEW th \in Threads, p = <<"hand", th>> PROVE FALSE
    <3>1. PICK k \in InHand(th) : e = Element(out[th][k].item)
      BY <2>3, <2>5, SpotsAre DEF Handed
    <3>2. InSeries(produced, Source(th, out[th][k]), out[th][k].item)
      BY DEF Account, Numbered
    <3>3. k \in DOMAIN out[th]  BY DEF InHand
    <3>4. out[th][k].to # User  BY <1>1, <3>3 DEF Account, Ends, EndsOf
    <3>5. out[th][k].to \in Queues
      <4>1. out[th] \in Seq(Messages)  BY <1>2 DEF Typed, Messages
      <4>2. out[th][k] \in Messages  BY <3>3, <4>1
      <4> QED  BY <3>4, <4>2 DEF Messages
    <3>6. Empty(out[th][k].item)  BY <1>1, <3>3, <3>5 DEF RunDry
    <3> QED  BY <1>4, <3>1, <3>2, <3>6
  <2>6. ASSUME NEW th \in Threads, p = <<"kept", th>> PROVE FALSE
    <3>1. held[th].elements = <<>>  BY <1>1 DEF Account, Released, ReleasedBy
    <3>2. KeptBack(th) = {}  BY <3>1, NoItem DEF KeptBack
    <3> QED  BY <2>3, <2>6, <3>2, SpotsAre
  <2>7. CASE p = <<"user", User>>  BY <2>3, <2>7, SpotsAre
  <2> QED  BY <2>3, <2>4, <2>5, <2>6, <2>7, SpotsAre
<1>6. ASSUME NEW k \in DOMAIN conf.expected
      PROVE  \E j \in DOMAIN consumed : consumed[j] = conf.expected[k]
  <2>1. PICK e \in Chosen : conf.expected[k] = <<e>>  BY DEF Straight, Enumerates
  <2>2. PICK j \in DOMAIN consumed : consumed[j][1] = e  BY <1>5 DEF Delivered
  <2>3. PICK f \in Chosen : consumed[j] = <<f>>  BY DEF Account, Numbered
  <2> QED  BY <2>1, <2>2, <2>3
<1> QED  BY <1>6 DEF SD!Pending

-----------------------------------------------------------------------------
(* The refinement. *)

\* A call delivers the next value, or in an unordered execution one of those left.
LEMMA ConsumeDelivers ==
  ASSUME Straight, Wired, Typed, Account, NEW th \in Threads, Consume(th)
  PROVE  /\ \E k \in SD!Pending :
              /\ (conf.ordered /\ OneConsumer) => k = Len(consumed) + 1
              /\ consumed' = Append(consumed, conf.expected[k])
         /\ CallsUser(th) /\ pc[th] # "last"
<1>1. /\ out[th] # <<>> /\ Head(out[th]).to = User
      /\ consumed' = Append(consumed, Head(out[th]).item.value)
  BY DEF Consume
<1>2. PICK m : m = out[th][1]  OBVIOUS
<1>3. m = Head(out[th])
  <2>1. out[th] \in Seq(Messages)  BY DEF Typed, Messages
  <2> QED  BY <1>1, <1>2, <2>1, TailOf
<1>13. m.to = User  BY <1>1, <1>3
<1>4. CallsUser(th) /\ pc[th] # "last" /\ 1 \in DOMAIN out[th]
  BY <1>1, <1>2, <1>13, CalledWith
<1>5. PICK e \in Chosen \cap 1 .. produced :
        /\ e = Element(m.item) /\ e \in Handed(th) /\ m.item.value = <<e>>
        /\ m.item.order = Number(Late(input_queue(th)), e)
        /\ \A k \in DOMAIN consumed : consumed[k][1] # e
  BY <1>1, <1>2, <1>13, CalledWith
<1>6. Late(input_queue(th)) = (\E x \in Threads : IsReorder(x))
  BY <1>4, AtTheEnd DEF Late
<1>7. PICK k \in DOMAIN conf.expected : conf.expected[k] = <<e>>
  BY DEF Straight, Enumerates
<1>8. PICK f \in Chosen : /\ conf.expected[k] = <<f>>
                          /\ Number(\E x \in Threads : IsReorder(x), f) = k - 1
  BY DEF Straight, Enumerates
<1>9. f = e  BY <1>7, <1>8
<1>10. \A j \in DOMAIN consumed : consumed[j] # conf.expected[k]  BY <1>5, <1>7
<1>11. k \in SD!Pending  BY <1>10 DEF SD!Pending
<1>12. ASSUME conf.ordered, OneConsumer PROVE k = Len(consumed) + 1
  <2>1. kind(th) = "consume"  BY <1>4, <1>12 DEF Straight, OneConsumer
  <2>2. m.item.order = Len(consumed) + 1 - 1
    BY <1>2, <1>4, <1>12, <2>1 DEF Account, Released, ReleasedBy
  <2>3. Len(consumed) \in Nat  BY DEF Account, Numbered
  <2>4. k \in Nat
    <3>1. conf.expected \in Seq(Seq(Int))  BY DEF Straight
    <3> QED  BY <3>1
  <2>5. m.item.order = k - 1  BY <1>5, <1>6, <1>8, <1>9
  <2> QED  BY <2>2, <2>3, <2>4, <2>5
<1> QED  BY <1>1, <1>3, <1>4, <1>5, <1>7, <1>11, <1>12

\* Nothing happens.
LEMMA StutterDelivers ==
  ASSUME UNCHANGED vars
  PROVE  [SD!Deliver \/ SD!End]_(SD!vars)
<1>1. /\ conf' = conf /\ pc' = pc /\ out' = out /\ consumed' = consumed  BY DEF vars
<1>2. /\ conf'.expected = conf.expected /\ (conf'.ordered /\ OneConsumer') = (conf.ordered /\ OneConsumer)
      /\ Ended' = Ended
  BY <1>1, RolesStay DEF OneConsumer, Ended, SinkThreads, Finished
<1> QED  BY <1>1, <1>2 DEF SD!vars, Ended

\* A step of a thread delivers, ends the stream or does nothing that the user sees.
LEMMA StepDelivers ==
  ASSUME Straight, IInv, Account, NEW th \in Threads, Frame(th),
         Consume(th) \/ consumed' = consumed, (Ended => SD!Pending = {})'
  PROVE  [SD!Deliver \/ SD!End]_(SD!vars)
<1>1. Typed /\ Wired  BY DEF IInv
<1>2. /\ conf'.expected = conf.expected
      /\ (conf'.ordered /\ OneConsumer') = (conf.ordered /\ OneConsumer)
      /\ SinkThreads' = SinkThreads
  BY RolesStay DEF OneConsumer, SinkThreads, Frame
<1>3. CASE Consume(th)
  <2>1. PICK k \in SD!Pending :
            /\ (conf.ordered /\ OneConsumer) => k = Len(consumed) + 1
            /\ consumed' = Append(consumed, conf.expected[k])
    BY <1>1, <1>3, ConsumeDelivers
  <2>2. th \in SinkThreads /\ pc[th] # "last" /\ pc'[th] # "last"
    BY <1>1, <1>3, ConsumeDelivers, SinksCall DEF Consume
  <2>3. Ended = FALSE /\ Ended' = FALSE  BY <1>2, <2>2 DEF Ended, Finished
  <2> QED  BY <1>2, <2>1, <2>3 DEF SD!Deliver, Ended
<1>4. CASE consumed' = consumed
  <2>1. CASE Ended
    <3>1. th \notin SinkThreads  BY <2>1 DEF Ended, Frame
    <3>2. Ended'  BY <1>2, <2>1, <3>1 DEF Ended, Finished, Frame, SinkThreads
    <3>3. Ended' = Ended  BY <2>1, <3>2 DEF Ended
    <3> QED  BY <1>2, <1>4, <3>3 DEF SD!vars, Ended
  <2>2. CASE ~Ended /\ ~Ended'
    <3>1. Ended' = Ended  BY <2>2 DEF Ended
    <3> QED  BY <1>2, <1>4, <3>1 DEF SD!vars, Ended
  <2>3. CASE ~Ended /\ Ended'
    <3>1. SD!Pending' = {}  BY <2>3
    <3>2. SD!Pending = {}  BY <1>2, <1>4, <3>1 DEF SD!Pending
    <3> QED  BY <1>2, <1>4, <2>3, <3>2 DEF SD!End, Ended
  <2> QED  BY <2>1, <2>2, <2>3
<1> QED  BY <1>3, <1>4

\* So does every step of the pipeline.
LEMMA NextDelivers ==
  ASSUME Straight, IInv, Account, [Next]_vars, (Ended => SD!Pending = {})'
  PROVE  [SD!Deliver \/ SD!End]_(SD!vars)
<1>1. CASE UNCHANGED vars  BY <1>1, StutterDelivers
<1>2. ASSUME NEW th \in Threads, Step(th) PROVE [SD!Deliver \/ SD!End]_(SD!vars)
  <2>1. Frame(th)  BY <1>2, StepFrame
  <2>2. Consume(th) \/ consumed' = consumed
    <3>1. Push(th) => consumed' = consumed  BY DEF Push
    <3>2. (~Push(th) /\ ~Consume(th)) => consumed' = consumed  BY <1>2, StepMoves DEF Moved
    <3> QED  BY <3>1, <3>2
  <2> QED  BY <2>1, <2>2, StepDelivers
<1>3. Return => UNCHANGED vars  BY DEF Return
<1> QED  BY <1>1, <1>2, <1>3 DEF Next

\* Nothing is delivered at the start.
LEMMA InitDelivers == Straight /\ IInv /\ Init => SD!Init
<1> SUFFICES ASSUME Straight, IInv, NEW p \in Pipelines, InitFor(p) PROVE SD!Init  BY DEF Init
<1>1. consumed = <<>> /\ \A th \in Threads : pc[th] \in {"join", "loop"}  BY DEF InitFor
<1>2. PICK th \in Threads : CallsUser(th)  BY DEF Straight
<1>3. th \in SinkThreads  BY <1>2, SinksCall DEF IInv
<1>4. ~Ended  BY <1>1, <1>3 DEF Ended, Finished
<1> QED  BY <1>1, <1>4 DEF SD!Init, Ended

\* What a straight pipeline hands to the user is, at any time, a part of what the
\* sequential pipeline does - the first part, in an ordered execution - and all of it
\* when the threads that call the user have returned.
THEOREM StraightDelivers == Straight /\ Spec => DeliversStream
<1>1. Straight /\ IInv /\ Init => SD!Init  BY InitDelivers
<1>2. (IInv /\ Straight /\ Account) /\ [Next]_vars /\ (Ended => SD!Pending = {})'
        => [SD!Deliver \/ SD!End]_(SD!vars)
  BY NextDelivers
<1> QED
  BY <1>1, <1>2, AccountOfTheStream, EndedDelivers, InitKeeps, PTL DEF Spec, SD!Spec, DeliversStream

\* A regular pipeline loses and repeats nothing on the way, and its ordering loops
\* release the elements in the order of their numbers.
THEOREM RegularAccount == RegularStart /\ Spec => []Account
BY RegularStartStraight, AccountOfTheStream, PTL

\* What it consumes is, at any time, what the sequential pipeline consumes of the
\* same stream - in the same order where the pipeline is ordered - and everything
\* when all threads that call the user have finished.
THEOREM RegularDelivers == RegularStart /\ Spec => DeliversStream
BY RegularStartStraight, StraightDelivers, PTL

-----------------------------------------------------------------------------
(* The end markers of the tasks: the two steps of the filter. *)

\* The unordered filter drops what it does not keep.
LEMMA FilterUnorderedSettles ==
  ASSUME Typed, Orders, Wired, NEW t \in Threads, FilterUnordered(t)
  PROVE  Settled(t)
<1>1. PICK item : /\ Pops(t, item)
                  /\ \/ /\ ~Empty(item)
                        /\ \/ Then(t, "loop", <<>>)
                           \/ Then(t, "loop", <<Msg(output_queue(t), item)>>)
                     \/ Empty(item) /\ Then(t, "last", <<Msg(output_queue(t), End)>>)
  BY DEF FilterUnordered, EndOutput
<1>2. kind(t) = "filter" /\ ~IsHost(t) /\ ~OnlyWaits(t)
  BY DEF FilterUnordered, IsHost, OnlyWaits
<1>3. input_queue(t) \in Queues /\ output_queue(t) # User  BY <1>2 DEF Wired, Connected
<1>4. OwnTypes  BY DEF FilterUnordered, Typed, HeldTypes, ReducerTypes, OwnTypes
<1>5. item \in Items /\ (~Empty(item) => item.order >= 0)
  BY <1>1, <1>3, <1>4, PopsTakes DEF OwnTypes
<1>6. IsMarker(input_queue(t), item) <=> Empty(item)  BY <1>2, <1>3, EmptyIsMarker
<1>7. Msg(output_queue(t), item) \in Messages  BY <1>5, MessageTypes
<1>8. CASE Empty(item)  BY <1>1, <1>2, <1>3, <1>4, <1>6, <1>8, TakesEnd
<1>9. CASE ~Empty(item)  BY <1>1, <1>2, <1>4, <1>5, <1>6, <1>7, <1>9, TakesValue
<1> QED  BY <1>8, <1>9

\* The ordering task behind the end marker: its queue is empty, so it releases one of
\* the values it has kept or, if it has kept none, ends the output.
LEMMA DrainFilterSettles ==
  ASSUME IInv, NEW t \in Threads, FilterEnds(t), DrainFilter(t)
  PROVE  Settled(t)
<1>1. Typed /\ Wired /\ InPlace  BY DEF IInv
<1>2. /\ kind(t) = "reorder" /\ out[t] = <<>>
      /\ ~IsReplica(t) /\ ~IsHost(t)
  BY DEF DrainFilter, IsReplica, IsHost
<1>3. pc[t] = "drain"  BY <1>2 DEF DrainFilter, FilterEnds
<1>4. /\ conf' = conf /\ queue' = queue /\ done_threads' = done_threads
      /\ produced' = produced /\ reducer' = reducer
      /\ \/ Release(t, ReleaseOne(held[t]), "drain_pop")
         \/ Then(t, "last", <<Msg(output_queue(t), End)>>) /\ held' = held
  BY <1>3 DEF DrainFilter
<1>5. CASE Release(t, ReleaseOne(held[t]), "drain_pop")
  BY <1>1, <1>2, <1>3, <1>4, <1>5, DrainReleases
<1>6. CASE Then(t, "last", <<Msg(output_queue(t), End)>>) /\ held' = held
  <2>1. output_queue(t) # User  BY <1>1, <1>2 DEF Wired, Connected
  <2> QED  BY <1>1, <1>2, <1>3, <1>4, <1>6, <2>1, EndType, EndsOutput
<1> QED  BY <1>4, <1>5, <1>6

\* The tasks of a pipeline step as the threads of the native back end do, but for these.
LEMMA TaskSettles ==
  ASSUME IInv, NEW t \in Threads, FilterEnds(t), TaskStep(t)
  PROVE  Settled(t) \/ (Pushed(t) /\ (Push(t) \/ Consume(t)))
<1>1. Typed /\ Wired /\ Outgoing /\ InPlace /\ Orders  BY DEF IInv
<1>2. Step(t) \/ FilterUnordered(t) \/ DrainFilter(t)
  BY DEF TaskStep, Step, GeneratorTask, TransformerTask, InnerTask, FarmTaskCount, FarmTaskEnd,
         ContextTaskEnd, FarmSinkTask, ReorderTask, Consumer, ReduceTask, IterationTask,
         FilterOrdered
<1> QED  BY <1>1, <1>2, StepSettles, FilterUnorderedSettles, DrainFilterSettles

-----------------------------------------------------------------------------
(* The end markers of the tasks: the queue between a filter and its ordering task. *)

\* Only the filter has anything to push to it.
LEMMA ToFilterQueue ==
  ASSUME Wired, Outgoing, NEW t \in Threads, kind(t) = "reorder",
         NEW u \in Threads, NEW k \in DOMAIN out[u], out[u][k].to = input_queue(t)
  PROVE  u \in Writers(input_queue(t))
<1> DEFINE q == input_queue(t)
           m == out[u][k]
<1>1. q # User /\ q \in Queues  BY DEF Wired, Connected, OnlyWaits, IsHost
<1>2. \A r \in Readers(q) : kind(r) = "reorder"  BY DEF Wired, FilterQueues
<1>3. ~IsFarmInput(q)  BY DEF Wired, FilterQueues
<1>4. OutgoingOf(u)  BY DEF Outgoing
<1>5. \/ m.to = output_queue(u)
      \/ kind(u) \in {"iterate", "farm_sink"} /\ m.to = input_queue(u)
      \/ IsReplica(u) /\ m.to = FarmInput(u)
  BY <1>1, <1>4 DEF OutgoingOf
<1> QED  BY <1>2, <1>3, <1>5 DEF Readers, Writers, IsFarmInput

\* What the task does that feeds it.
LEMMA FilterSteps ==
  ASSUME IInv, NEW t \in Threads, kind(t) = "reorder", FilterEnds(t),
         NEW w \in Writers(input_queue(t)), Step(w) \/ TaskStep(w)
  PROVE  \/ Push(w) \/ Consume(w)
         \/ /\ pc[w] = "loop" /\ out[w] = <<>> /\ \E item : Pops(w, item)
            /\ \/ pc'[w] = "loop" /\ out'[w] = <<>>
               \/ \E x : /\ pc'[w] = "loop" /\ out'[w] = <<Msg(input_queue(t), x)>>
                         /\ ~IsMarker(input_queue(t), x)
               \/ pc'[w] = "last" /\ out'[w] = <<Msg(input_queue(t), End)>>
<1> DEFINE q == input_queue(t)
<1>1. Typed /\ Wired /\ Orders /\ InPlace  BY DEF IInv
<1>2. w \in Threads /\ kind(w) = "filter" /\ output_queue(w) = q
  BY <1>1 DEF Wired, FilterQueues, Writers
<1>3. pc[w] \in {"loop", "last"}  BY DEF FilterEnds
<1>4. Push(w) \/ Consume(w) \/ Filter(w) \/ FilterUnordered(w)
  <2>1. ~IsHost(w) /\ pc[w] \notin {"join", "test", "again", "again_pop", "drain", "drain_pop"}
    BY <1>2, <1>3 DEF IsHost
  <2> QED
    BY <1>2, <2>1
    DEF Step, TaskStep, GeneratorTask, TransformerTask, InnerTask, FarmTaskCount, FarmTaskEnd,
        ContextTaskEnd, FarmSinkTask, ReorderTask, Consumer, ReduceTask, IterationTask,
        FilterOrdered, DrainFilter, Generate, Stage, HostWork, FarmCount, FarmEnd, ContextEnd,
        FarmSink, Order, OrderingLoop, ConsumeUnordered, Drain, DrainEnd, Reduce, Iterate,
        IterateTest, IterateAgain
<1>5. SUFFICES ASSUME Filter(w) \/ FilterUnordered(w)
               PROVE  /\ pc[w] = "loop" /\ out[w] = <<>> /\ \E item : Pops(w, item)
                      /\ \/ pc'[w] = "loop" /\ out'[w] = <<>>
                         \/ \E x : /\ pc'[w] = "loop" /\ out'[w] = <<Msg(q, x)>>
                                   /\ ~IsMarker(q, x)
                         \/ pc'[w] = "last" /\ out'[w] = <<Msg(q, End)>>
  BY <1>4
<1>6. PICK item :
        /\ Pops(w, item)
        /\ \/ Then(w, "loop", <<>>)
           \/ ~Empty(item) /\ Then(w, "loop", <<Msg(q, item)>>)
           \/ ~Empty(item) /\ Then(w, "loop", <<Msg(q, Item(NoValue, item.order))>>)
           \/ Then(w, "last", <<Msg(q, End)>>)
  BY <1>2, <1>5 DEF Filter, FilterUnordered, EndOutput
<1>7. input_queue(w) \in Queues /\ conf' = conf
  BY <1>1, <1>2, <1>5 DEF Wired, Connected, OnlyWaits, IsHost, Filter, FilterUnordered
<1>8. ~Empty(item) => item.order >= 0 /\ item \in Items
  BY <1>1, <1>2, <1>6, <1>7, PopsTakes
<1>9. ~Empty(item) => ~IsMarker(q, item) /\ ~IsMarker(q, Item(NoValue, item.order))
  <2>1. t \in Readers(q) /\ kind(t) = "reorder"  BY DEF Readers
  <2> QED  BY <1>8, <2>1 DEF IsMarker, Item, Items
<1>10. pc[w] = "loop" /\ out[w] = <<>>  BY <1>6 DEF Pops
<1>11. pc \in [Threads -> Labels] /\ out \in [Threads -> Seq(Messages)]
  BY <1>1 DEF Typed, Messages
<1> QED  BY <1>2, <1>6, <1>9, <1>10, <1>11 DEF Then

\* A step of the filter, or a push or call of it.
LEMMA FilterEndsByWriter ==
  ASSUME IInv, IInv', NEW t \in Threads, kind(t) = "reorder", FilterEnds(t),
         NEW w \in Writers(input_queue(t)), Step(w) \/ TaskStep(w), Frame(w)
  PROVE  FilterEnds(t)'
<1> DEFINE q == input_queue(t)
<1>1. Typed /\ Wired /\ Outgoing  BY DEF IInv
<1>2. /\ q \in Queues /\ q # User /\ w \in Threads /\ w # t /\ output_queue(w) = q
      /\ kind(w) = "filter" /\ input_queue(w) # q /\ input_queue(w) \in Queues
  BY <1>1 DEF Wired, Connected, FilterQueues, Writers, OnlyWaits, IsHost
<1>3. /\ conf' = conf /\ Writers(q)' = Writers(q) /\ input_queue(t)' = q
      /\ kind(t)' = kind(t) /\ pc'[t] = pc[t]
  BY <1>2, RolesStay DEF Frame
<1>4. \A v \in Writers(q) : v = w  BY <1>1 DEF Wired, FilterQueues
<1>5. ~Finished(w) /\ Markers(q) = {} /\ pc[t] = "loop"  BY DEF FilterEnds, Frame
<1>6. /\ pc[w] \in {"loop", "last"} /\ Len(out[w]) <= 1
      /\ \A k \in DOMAIN out[w] : IsEndMsg(out[w][k]) <=> pc[w] = "last"
  BY DEF FilterEnds
<1>7. SUFFICES /\ pc'[w] \in {"loop", "last"} /\ Len(out'[w]) <= 1
               /\ \A k \in DOMAIN out'[w] : IsEndMsg(out'[w][k]) <=> pc'[w] = "last"
               /\ ~Finished(w)' => Markers(q)' = {}
               /\ Markers(q)' \subseteq {Len(queue'[q])}
  BY <1>3, <1>4, <1>5, MarkersStay DEF FilterEnds
<1>8. CASE Push(w) \/ Consume(w)
  <2>1. HandsOver(w)  BY <1>1, <1>2, <1>8, PushDone DEF IInv, Pushed
  <2>2. out[w] \in Seq(Messages) /\ out[w] # <<>> /\ out'[w] = Tail(out[w]) /\ pc'[w] = pc[w]
    BY <1>1, <1>2, <2>1 DEF Typed, Messages, HandsOver
  <2>3. /\ Len(out[w]) = 1 /\ out'[w] = <<>>
        /\ 1 \in DOMAIN out[w] /\ out[w][1] = Head(out[w]) /\ Head(out[w]) \in Messages
    <3>1. /\ Len(out[w]) \in Nat \ {0} /\ (Len(out[w]) = 1 => Tail(out[w]) = <<>>)
          /\ 1 \in DOMAIN out[w] /\ out[w][1] = Head(out[w]) /\ Head(out[w]) \in Messages
      BY <2>2, TailOf
    <3>2. Len(out[w]) = 1
      <4> DEFINE n == Len(out[w])
      <4>1. n \in Nat \ {0} /\ n <= 1  BY <1>6, <3>1
      <4> HIDE DEF n
      <4>2. n = 1  BY <4>1
      <4> QED  BY <4>2 DEF n
    <3> QED  BY <2>2, <3>1, <3>2
  <2> DEFINE m == Head(out[w])
  <2>4. IsEndMsg(m) <=> pc[w] = "last"  BY <1>6, <2>3
  <2>5. CASE queue'[q] = queue[q] /\ pc[w] = "loop"
    <3>1. Markers(q)' = {}  BY <1>3, <1>5, <2>5, SameQueue
    <3>2. Len(out'[w]) = 0 /\ DOMAIN out'[w] = {}  BY <2>3
    <3>3. pc'[w] = "loop"  BY <2>2, <2>5
    <3> QED  BY <3>1, <3>2, <3>3
  <2>6. CASE Push(w) /\ m.to = q
    <3>1. queue'[q] = Append(queue[q], m.item) /\ m.item \in Items
      BY <1>1, <1>2, <2>3, <2>6 DEF Push, Typed, Messages
    <3>2. Markers(q)' = IF IsMarker(q, m.item) THEN {Len(queue[q]) + 1} ELSE {}
      <4>1. queue \in [Queues -> Seq(Items)] /\ conf' = conf /\ Markers(q) = {}
        BY <1>1, <1>3, <1>5 DEF Typed
      <4>2. PICK r : r = q  OBVIOUS
      <4>3. PICK x : x = m.item  OBVIOUS
      <4>4. r \in Queues /\ x \in Items /\ queue'[r] = Append(queue[r], x)
        BY <1>2, <3>1, <4>2, <4>3
      <4>5. Markers(r)' = Markers(r) \cup (IF IsMarker(r, x) THEN {Len(queue[r]) + 1} ELSE {})
        BY <4>1, <4>4, AddedTo
      <4>6. Markers(r)' = IF IsMarker(r, x) THEN {Len(queue[r]) + 1} ELSE {}
        BY <4>1, <4>2, <4>5
      <4>7. Markers(q)' = Markers(r)'  BY <1>3, <4>2
      <4> QED  BY <4>2, <4>3, <4>6, <4>7
    <3>3. Len(queue'[q]) = Len(queue[q]) + 1  BY <1>1, <1>2, <3>1 DEF Typed
    <3>4. IsMarker(q, m.item) <=> pc[w] = "last"  BY <1>2, <2>4, <2>6 DEF IsEndMsg
    <3>5. Finished(w)' <=> pc[w] = "last"  BY <2>2, <2>3 DEF Finished
    <3> QED  BY <1>6, <2>2, <2>3, <3>2, <3>3, <3>4, <3>5
  <2>7. CASE ~(Push(w) /\ m.to = q)
    <3>1. queue'[q] = queue[q]  BY <1>1, <1>2, <1>8, <2>7 DEF Push, Consume, Typed
    <3>2. m.to # q  BY <1>2, <1>8, <2>7 DEF Consume
    <3>3. ~IsEndMsg(m)
      <4>1. OutgoingOf(w)  BY <1>1, <1>2 DEF Outgoing
      <4>2. IsEndMsg(m) => m.to = q
        BY <1>2, <2>3, <4>1 DEF OutgoingOf, IsEndMsg, IsMarker, IsReplica
      <4> QED  BY <3>2, <4>2
    <3>4. pc[w] = "loop"  BY <1>6, <2>4, <3>3
    <3> QED  BY <2>5, <3>1, <3>4
  <2> QED  BY <2>6, <2>7
<1>9. CASE /\ pc[w] = "loop" /\ out[w] = <<>> /\ \E item : Pops(w, item)
           /\ \/ pc'[w] = "loop" /\ out'[w] = <<>>
              \/ \E x : /\ pc'[w] = "loop" /\ out'[w] = <<Msg(q, x)>> /\ ~IsMarker(q, x)
              \/ pc'[w] = "last" /\ out'[w] = <<Msg(q, End)>>
  <2>1. queue'[q] = queue[q]
    BY <1>1, <1>2, <1>9 DEF Pops, Typed
  <2>2. Markers(q)' = {}  BY <1>3, <1>5, <2>1, SameQueue
  <2>3. CASE pc'[w] = "loop" /\ out'[w] = <<>>  BY <2>2, <2>3
  <2>4. ASSUME NEW x, out'[w] = <<Msg(q, x)>>
        PROVE  /\ Len(out'[w]) = 1
               /\ \A k \in DOMAIN out'[w] : IsEndMsg(out'[w][k]) <=> IsMarker(q, x)
    BY <1>2, <2>4 DEF IsEndMsg, Msg
  <2>5. IsMarker(q, End)  BY EndType DEF IsMarker
  <2>6. CASE \E x : pc'[w] = "loop" /\ out'[w] = <<Msg(q, x)>> /\ ~IsMarker(q, x)
    <3>1. PICK x : pc'[w] = "loop" /\ out'[w] = <<Msg(q, x)>> /\ ~IsMarker(q, x)  BY <2>6
    <3>2. Len(out'[w]) = 1 /\ \A k \in DOMAIN out'[w] : ~IsEndMsg(out'[w][k])  BY <2>4, <3>1
    <3> QED  BY <2>2, <3>1, <3>2
  <2>7. CASE pc'[w] = "last" /\ out'[w] = <<Msg(q, End)>>
    <3>1. Len(out'[w]) = 1 /\ \A k \in DOMAIN out'[w] : IsEndMsg(out'[w][k])
      BY <2>4, <2>5, <2>7
    <3> QED  BY <2>2, <2>7, <3>1
  <2> QED  BY <1>9, <2>3, <2>6, <2>7
<1> QED  BY <1>8, <1>9, FilterSteps

\* A step of any other task: only the ordering task takes items from the queue.
LEMMA FilterEndsByOther ==
  ASSUME IInv, NEW t \in Threads, kind(t) = "reorder", FilterEnds(t),
         NEW u \in Threads, u \notin Writers(input_queue(t)),
         Settled(u) \/ (Pushed(u) /\ (Push(u) \/ Consume(u)))
  PROVE  FilterEnds(t)'
<1> DEFINE q == input_queue(t)
<1>1. Typed /\ Wired /\ Outgoing /\ InPlace  BY DEF IInv
<1>2. q \in Queues /\ q # User  BY <1>1 DEF Wired, Connected, OnlyWaits, IsHost
<1>3. Frame(u)  BY DEF Settled, Pushed
<1>4. /\ conf' = conf /\ Writers(q)' = Writers(q) /\ input_queue(t)' = q /\ kind(t)' = kind(t)
      /\ Writers(q) \subseteq Threads
  BY <1>3, RolesStay DEF Frame, Writers
<1>5. \A w \in Writers(q) : /\ pc'[w] = pc[w] /\ out'[w] = out[w]
                             /\ (Finished(w)' <=> Finished(w))
  BY <1>3, <1>4 DEF Frame, Finished
<1>6. SUFFICES /\ (\E w \in Writers(q) : ~Finished(w)) => Markers(q)' = {} /\ pc'[t] = "loop"
               /\ Markers(q)' \subseteq {Len(queue'[q])}
               /\ pc'[t] # "loop" => queue'[q] = <<>>
  BY <1>4, <1>5, MarkersStay DEF FilterEnds
<1>7. /\ (\E w \in Writers(q) : ~Finished(w)) => Markers(q) = {} /\ pc[t] = "loop"
      /\ Markers(q) \subseteq {Len(queue[q])}
      /\ pc[t] # "loop" => queue[q] = <<>>
  BY DEF FilterEnds
<1>8. CASE queue'[q] = queue[q] /\ (pc'[t] = "loop" <=> pc[t] = "loop")
  BY <1>4, <1>7, <1>8, SameQueue
<1>9. CASE Pushed(u) /\ (Push(u) \/ Consume(u))
  <2>1. Consume(u) \/ Head(out[u]).to # q
    <3>1. SUFFICES ASSUME Push(u) PROVE Head(out[u]).to # q  BY <1>9
    <3>2. out[u] \in Seq(Messages) /\ out[u] # <<>>
      BY <1>1, <3>1 DEF Typed, Messages, Push
    <3>3. 1 \in DOMAIN out[u] /\ out[u][1] = Head(out[u])  BY <3>2, TailOf
    <3> QED  BY <1>1, <3>3, ToFilterQueue
  <2>2. queue'[q] = queue[q]  BY <1>1, <1>2, <1>9, <2>1 DEF Push, Consume, Typed
  <2>3. pc' = pc  BY <1>9 DEF Pushed, HandsOver
  <2> QED  BY <1>8, <2>2, <2>3
<1>10. CASE Settled(u) /\ u \notin Readers(q)
  <2>1. u # t /\ input_queue(u) # q  BY <1>10 DEF Readers
  <2>2. queue'[q] = queue[q]  BY <1>1, <1>2, <1>10, <2>1, SettledQueues DEF Takes, Typed
  <2> QED  BY <1>3, <1>8, <2>1, <2>2 DEF Frame
<1>11. CASE Settled(u) /\ u \in Readers(q)
  <2>1. input_queue(u) = q /\ kind(u) = "reorder"
    BY <1>1, <1>11 DEF Readers, Wired, FilterQueues
  <2>2. pc[u] # "test"  BY <1>1, <2>1 DEF InPlace, PlaceOf, IsReplica
  <2>3. \/ queue' = queue /\ (pc'[u] = "loop" <=> pc[u] = "loop")
        \/ \E item : /\ Takes(u, item) /\ ~IsMarker(q, item)
                      /\ (pc'[u] = "loop" <=> pc[u] = "loop")
        \/ \E item : Takes(u, item) /\ IsMarker(q, item)
    BY <1>11, <2>1, <2>2 DEF Settled, Work, Leave, Finish, FarmEnd
  <2>4. pc'[t] = pc[t] \/ t = u  BY <1>3 DEF Frame
  <2>5. CASE queue' = queue /\ (pc'[u] = "loop" <=> pc[u] = "loop")
    BY <1>8, <2>4, <2>5
  <2>6. CASE \E item : Takes(u, item)
    <3>1. PICK item : Takes(u, item)  BY <2>6
    <3>2. queue \in [Queues -> Seq(Items)]  BY <1>1 DEF Typed
    <3>3. /\ \A k \in Markers(q)' : k \in Nat /\ k # 0 /\ k + 1 \in Markers(q)
          /\ IsMarker(q, item) => 1 \in Markers(q)
      BY <1>2, <1>4, <2>1, <3>1, <3>2, TakenFrom
    <3>4. queue[q] \in Seq(Items) /\ queue[q] # <<>> /\ queue'[q] = Tail(queue[q])
      BY <1>2, <2>1, <3>1, <3>2 DEF Takes
    <3>5. /\ Len(queue[q]) \in Nat /\ Len(queue'[q]) = Len(queue[q]) - 1
          /\ Len(queue[q]) = 1 => queue'[q] = <<>>
      BY <3>4, TailOf
    <3>6. Markers(q)' \subseteq {Len(queue'[q])}  BY <1>7, <3>3, <3>5
    <3>7. pc[t] = "loop"  BY <1>7, <3>4
    <3>8. CASE ~IsMarker(q, item)
      <4>1. ASSUME NEW x, Takes(u, x) PROVE x = item  BY <2>1, <3>1, <4>1 DEF Takes
      <4>2. pc'[u] = "loop" <=> pc[u] = "loop"
        <5>1. CASE \E x : Takes(u, x) /\ IsMarker(q, x)  BY <3>8, <4>1, <5>1
        <5> QED  BY <2>3, <2>6, <5>1
      <4>3. pc'[t] = "loop"  BY <2>4, <3>7, <4>2
      <4>4. Markers(q) = {} => Markers(q)' = {}  BY <3>3
      <4> QED  BY <1>7, <3>6, <4>3, <4>4
    <3>9. CASE IsMarker(q, item)
      <4>1. Len(queue[q]) = 1 /\ Markers(q) # {}  BY <1>7, <3>3, <3>9
      <4>2. queue'[q] = <<>>  BY <3>5, <4>1
      <4>3. ~(\E w \in Writers(q) : ~Finished(w))  BY <1>7, <4>1
      <4>4. Len(queue'[q]) = 0 /\ Markers(q)' = {}
        <5>1. \A k \in Markers(q)' : k \in DOMAIN queue'[q]  BY <1>4 DEF Markers
        <5> QED  BY <4>2, <5>1
      <4> QED  BY <3>6, <4>2, <4>3, <4>4
    <3> QED  BY <3>8, <3>9
  <2> QED  BY <2>3, <2>5, <2>6
<1> QED  BY <1>9, <1>10, <1>11

-----------------------------------------------------------------------------
(* The end markers of the tasks: the inductive invariant. *)

\* It says nothing of the team.
LEMMA OmpStutterKeeps ==
  ASSUME OmpIInv, UNCHANGED vars
  PROVE  OmpIInv'
<1>1. conf' = conf /\ queue' = queue /\ pc' = pc /\ out' = out  BY DEF vars
<1>2. IInv'  BY StutterKeeps DEF OmpIInv
<1>3. Threads' = Threads  BY <1>1, RolesStay
<1>4. ASSUME NEW t \in Threads PROVE FilterEnds(t)'
  <2>1. FilterEnds(t)  BY <1>4 DEF OmpIInv
  <2>2. \A q : Markers(q)' = Markers(q) /\ Writers(q)' = Writers(q)
    BY <1>1, SameQueue, RolesStay
  <2> QED  BY <1>1, <2>1, <2>2, RolesStay, MarkersStay DEF FilterEnds, Finished
<1> QED  BY <1>2, <1>3, <1>4 DEF OmpIInv

\* Every step of a task keeps it, and of a thread of the native back end.
LEMMA TaskKeeps ==
  ASSUME OmpIInv, NEW u \in Threads, Step(u) \/ TaskStep(u)
  PROVE  OmpIInv'
<1>1. IInv /\ \A t \in Threads : FilterEnds(t)  BY DEF OmpIInv
<1>2. Settled(u) \/ (Pushed(u) /\ (Push(u) \/ Consume(u)))
  BY <1>1, TaskSettles, StepSettles DEF IInv
<1>3. IInv'  BY <1>1, <1>2, SettledKeeps
<1>4. Frame(u)  BY <1>2 DEF Settled, Pushed
<1>5. Threads' = Threads  BY <1>4, RolesStay DEF Frame
<1>6. ASSUME NEW t \in Threads PROVE FilterEnds(t)'
  <2>1. CASE kind(t) # "reorder"  BY <1>4, <2>1, RolesStay DEF FilterEnds, Frame
  <2>2. CASE kind(t) = "reorder" /\ u \in Writers(input_queue(t))
    BY <1>1, <1>3, <1>4, <2>2, FilterEndsByWriter
  <2>3. CASE kind(t) = "reorder" /\ u \notin Writers(input_queue(t))
    BY <1>1, <1>2, <2>3, FilterEndsByOther
  <2> QED  BY <2>1, <2>2, <2>3
<1> QED  BY <1>3, <1>5, <1>6 DEF OmpIInv

\* So every step does.
LEMMA OmpNextKeeps == OmpIInv /\ [OmpNext]_omp_vars => OmpIInv'
<1> SUFFICES ASSUME OmpIInv, [OmpNext]_omp_vars PROVE OmpIInv'  OBVIOUS
<1>1. CASE UNCHANGED omp_vars  BY <1>1, OmpStutterKeeps DEF omp_vars
<1>2. ASSUME NEW t \in Tasks, Begin(t) \/ BeginInside(t) PROVE OmpIInv'
  BY <1>2, OmpStutterKeeps DEF Begin, BeginInside
<1>3. ASSUME NEW t \in Tasks, TaskStep(t) PROVE OmpIInv'  BY <1>3, TaskKeeps DEF Tasks
<1>4. CASE OmpReturn  BY <1>1, <1>4 DEF OmpReturn
<1> QED  BY <1>1, <1>2, <1>3, <1>4 DEF OmpNext

\* At first no filter has ended.
LEMMA InitKeepsEnds == Init => OmpIInv
<1> SUFFICES ASSUME NEW p \in Pipelines, InitFor(p) PROVE OmpIInv  BY DEF Init
<1>1. IInv  BY InitKeeps DEF Init
<1>2. Started  BY DEF InitFor, Started, Queues
<1>3. ASSUME NEW t \in Threads, kind(t) = "reorder" PROVE FilterEnds(t)
  <2> DEFINE q == input_queue(t)
  <2>1. q \in Queues  BY <1>1, <1>3 DEF IInv, Wired, Connected, OnlyWaits, IsHost
  <2>2. queue[q] = <<>> /\ Markers(q) = {}  BY <1>2, <2>1 DEF Started, Markers
  <2>3. pc[t] = "loop"  BY <1>2, <1>3 DEF Started, OnlyWaits, IsHost
  <2>4. \A w \in Writers(q) : w \in Threads /\ kind(w) = "filter"
    BY <1>1, <1>3 DEF IInv, Wired, FilterQueues, Writers
  <2>5. \A w \in Writers(q) : pc[w] = "loop" /\ out[w] = <<>>
    BY <1>2, <2>4 DEF Started, OnlyWaits, IsHost
  <2> QED  BY <2>2, <2>3, <2>5 DEF FilterEnds
<1> QED  BY <1>1, <1>3 DEF OmpIInv, FilterEnds

\* The tasks begin as the threads do.
LEMMA OmpInitKeeps == OmpInit => OmpIInv
BY InitKeepsEnds DEF OmpInit, Init

\* The threads keep it too: with the ordered filter, which sends an item for what it
\* rejects.
LEMMA NextKeepsEnds == OmpIInv /\ [Next]_vars => OmpIInv'
<1> SUFFICES ASSUME OmpIInv, [Next]_vars PROVE OmpIInv'  OBVIOUS
<1>1. CASE UNCHANGED vars  BY <1>1, OmpStutterKeeps
<1>2. ASSUME NEW t \in Threads, Step(t) PROVE OmpIInv'  BY <1>2, TaskKeeps
<1>3. CASE Return  BY <1>1, <1>3 DEF Return
<1> QED  BY <1>1, <1>2, <1>3 DEF Next

-----------------------------------------------------------------------------
(* The end markers of the tasks: the theorems. *)

\* The invariant of the native back end holds of the tasks, and the queue of an
\* ordering task ends with its end marker: whatever the pipeline and the team.
THEOREM OmpInvariance == OmpSpec => []OmpIInv
BY OmpInitKeeps, OmpNextKeeps, PTL DEF OmpSpec

\* Of the threads of the native back end the same is true.
THEOREM EndsOfFilters == Spec => []OmpIInv
BY InitKeepsEnds, NextKeepsEnds, PTL DEF Spec

\* However few threads the team has and however late the tasks of a farm begin, they
\* agree on which of them ends the output.
THEOREM OneMarkerOfTasks == OmpSpec => []OneEndMarker
<1>1. OmpIInv => OneEndMarker  BY InvOneEndMarker DEF OmpIInv
<1> QED  BY <1>1, OmpInvariance, PTL

\* An iteration task that empties its queue after the end marker pops no empty item.
THEOREM NoEndIsLeftToTasks == OmpSpec => []NoEndLeft
<1>1. OmpIInv => NoEndLeft  BY InvNoEndLeft DEF OmpIInv
<1> QED  BY <1>1, OmpInvariance, PTL

\* A task that leaves its loop leaves nothing behind, though it may begin after the
\* tasks in front of it have ended.
THEOREM NothingIsLeftToTasks == OmpSpec => []NothingLeft
<1>1. OmpIInv => NothingLeft  BY DEF OmpIInv, IInv
<1> QED  BY <1>1, OmpInvariance, PTL

\* When the ordering task of a filter has its end marker, nothing is in its queue and
\* nobody has anything to push there: the filter is done, and the pop at the end of a
\* round of DrainFilter finds nothing, now or later.
THEOREM NothingBehindTheEnd ==
  OmpSpec => [](\A t \in Threads :
    (kind(t) = "reorder" /\ pc[t] # "loop") =>
      /\ queue[input_queue(t)] = <<>>
      /\ \A w \in Writers(input_queue(t)) : Finished(w))
<1>1. OmpIInv => \A t \in Threads :
         (kind(t) = "reorder" /\ pc[t] # "loop") =>
           /\ queue[input_queue(t)] = <<>>
           /\ \A w \in Writers(input_queue(t)) : Finished(w)
  BY DEF OmpIInv, FilterEnds
<1> QED  BY <1>1, OmpInvariance, PTL

-----------------------------------------------------------------------------
(* The account of the tasks. *)

\* Behind its end marker the ordering task of a filter does what the ordering thread
\* does.
LEMMA DrainFilterMoves ==
  ASSUME Straight, IInv, Account, NEW t \in Threads, FilterEnds(t), DrainFilter(t)
  PROVE  Moved(t)
<1>1. Typed /\ Wired /\ InPlace  BY DEF IInv
<1>2. Frame(t)  BY DrainFilterSettles DEF Settled
<1>3. /\ kind(t) = "reorder" /\ out[t] = <<>> /\ pc[t] = "drain"
      /\ queue' = queue /\ consumed' = consumed /\ produced' = produced
  BY DEF DrainFilter, FilterEnds
<1>4. \/ Release(t, ReleaseOne(held[t]), "drain_pop")
      \/ /\ held[t].elements = <<>> /\ held' = held
         /\ Then(t, "last", <<Msg(output_queue(t), End)>>)
  BY <1>3 DEF DrainFilter
<1>5. CASE Release(t, ReleaseOne(held[t]), "drain_pop")
  <2>1. "drain_pop" \in Labels /\ "drain_pop" # "last"  BY DEF Labels
  <2> QED  BY <1>1, <1>2, <1>3, <1>5, <2>1, DrainedMoves
<1>6. CASE /\ held[t].elements = <<>> /\ held' = held
           /\ Then(t, "last", <<Msg(output_queue(t), End)>>)
  <2>1. out'[t] = <<Msg(output_queue(t), End)>> /\ pc'[t] = "last"
    BY <1>1, <1>6 DEF Then, Typed
  <2>2. output_queue(t) \in Queues  BY <1>1, <1>3 DEF Wired, Connected
  <2> QED  BY <1>1, <1>2, <1>3, <1>6, <2>1, <2>2, EndType, EndsMove
<1> QED  BY <1>4, <1>5, <1>6

\* In a straight pipeline the other tasks do what the threads of the native back end do.
LEMMA StraightTask ==
  ASSUME Straight, NEW t \in Threads, TaskStep(t)
  PROVE  Step(t) \/ DrainFilter(t)
<1>1. Step(t) \/ FilterUnordered(t) \/ DrainFilter(t)
  BY DEF TaskStep, Step, GeneratorTask, TransformerTask, InnerTask, FarmTaskCount, FarmTaskEnd,
         ContextTaskEnd, FarmSinkTask, ReorderTask, Consumer, ReduceTask, IterationTask,
         FilterOrdered
<1>2. ~FilterUnordered(t)  BY DEF Straight, FilterUnordered
<1> QED  BY <1>1, <1>2

\* Every step of a task keeps account of the elements.
LEMMA TaskKeepsAccount ==
  ASSUME Straight, OmpIInv, Account, NEW t \in Threads, TaskStep(t)
  PROVE  /\ Frame(t) /\ Straight' /\ Account'
         /\ Consume(t) \/ consumed' = consumed
<1>1. IInv /\ FilterEnds(t)  BY DEF OmpIInv
<1>2. Typed /\ Wired /\ Outgoing /\ InPlace /\ Orders  BY <1>1 DEF IInv
<1>3. Frame(t)  BY <1>1, TaskSettles DEF Settled, Pushed
<1>4. Straight'
  <2>1. conf' = conf /\ DOMAIN queue' = DOMAIN queue  BY <1>3 DEF Frame
  <2> QED  BY <2>1, StraightStays
<1>5. CASE Step(t)
  <2>1. Account'  BY <1>1, <1>5, StepKeepsAccount
  <2>2. Push(t) => consumed' = consumed  BY DEF Push
  <2>3. (~Push(t) /\ ~Consume(t)) => consumed' = consumed
    BY <1>1, <1>5, StepMoves DEF Moved
  <2> QED  BY <1>3, <1>4, <2>1, <2>2, <2>3
<1>6. CASE DrainFilter(t)
  <2>1. Moved(t)  BY <1>1, <1>6, DrainFilterMoves
  <2>2. Account'  BY <1>2, <2>1, MovedKeeps
  <2> QED  BY <1>3, <1>4, <2>1, <2>2 DEF Moved
<1> QED  BY <1>5, <1>6, StraightTask

\* So do all steps.
LEMMA OmpNextKeepsAccount ==
  Straight /\ OmpIInv /\ Account /\ [OmpNext]_omp_vars => Straight' /\ Account'
<1> SUFFICES ASSUME Straight, OmpIInv, Account, [OmpNext]_omp_vars PROVE Straight' /\ Account'
  OBVIOUS
<1>1. ASSUME UNCHANGED vars PROVE Straight' /\ Account'
  <2>1. conf' = conf /\ DOMAIN queue' = DOMAIN queue  BY <1>1 DEF vars
  <2> QED  BY <1>1, <2>1, StraightStays, StutterKeepsAccount
<1>2. UNCHANGED omp_vars => UNCHANGED vars  BY DEF omp_vars
<1>3. \A t \in Tasks : (Begin(t) \/ BeginInside(t)) => UNCHANGED vars  BY DEF Begin, BeginInside
<1>4. \A t \in Tasks : TaskStep(t) => Straight' /\ Account'  BY TaskKeepsAccount DEF Tasks
<1>5. OmpReturn => UNCHANGED vars  BY <1>2 DEF OmpReturn
<1> QED  BY <1>1, <1>2, <1>3, <1>4, <1>5 DEF OmpNext

\* A step of a task delivers, ends the stream or does nothing that the user sees.
LEMMA OmpNextDelivers ==
  ASSUME Straight, OmpIInv, Account, [OmpNext]_omp_vars, (Ended => SD!Pending = {})'
  PROVE  [SD!Deliver \/ SD!End]_(SD!vars)
<1>1. UNCHANGED vars => [SD!Deliver \/ SD!End]_(SD!vars)  BY StutterDelivers
<1>2. UNCHANGED omp_vars => UNCHANGED vars  BY DEF omp_vars
<1>3. \A t \in Tasks : (Begin(t) \/ BeginInside(t)) => UNCHANGED vars  BY DEF Begin, BeginInside
<1>4. ASSUME NEW t \in Tasks, TaskStep(t) PROVE [SD!Deliver \/ SD!End]_(SD!vars)
  <2>1. t \in Threads /\ IInv  BY DEF Tasks, OmpIInv
  <2>2. Frame(t) /\ (Consume(t) \/ consumed' = consumed)  BY <1>4, <2>1, TaskKeepsAccount
  <2> QED  BY <2>1, <2>2, StepDelivers
<1>5. OmpReturn => UNCHANGED vars  BY <1>2 DEF OmpReturn
<1> QED  BY <1>1, <1>2, <1>3, <1>4, <1>5 DEF OmpNext

\* The tasks of a straight pipeline keep account of the stream, whatever the team.
THEOREM AccountOfTheTasks == Straight /\ OmpSpec => [](OmpIInv /\ Straight /\ Account)
<1>1. Straight /\ OmpInit => OmpIInv /\ Straight /\ Account
  BY OmpInitKeeps, InitAccount DEF OmpInit, Init, OmpIInv
<1>2. OmpIInv /\ Straight /\ Account /\ [OmpNext]_omp_vars => (OmpIInv /\ Straight /\ Account)'
  BY OmpNextKeeps, OmpNextKeepsAccount
<1> QED  BY <1>1, <1>2, PTL DEF OmpSpec

\* And deliver it.
THEOREM StraightTasksDeliver == Straight /\ OmpSpec => DeliversStream
<1>1. Straight /\ OmpInit => SD!Init
  BY OmpInitKeeps, InitDelivers DEF OmpInit, Init, OmpIInv
<1>2. (OmpIInv /\ Straight /\ Account) /\ [OmpNext]_omp_vars /\ (Ended => SD!Pending = {})'
        => [SD!Deliver \/ SD!End]_(SD!vars)
  BY OmpNextDelivers
<1>3. OmpIInv /\ Straight /\ Account => (Ended => SD!Pending = {})
  BY EndedDelivers DEF OmpIInv
<1> QED
  BY <1>1, <1>2, <1>3, AccountOfTheTasks, PTL DEF OmpSpec, SD!Spec, DeliversStream

\* A regular pipeline loses and repeats nothing in the hands of tasks that begin late
\* or on the thread of another.
THEOREM RegularTasksAccount == RegularStart /\ OmpSpec => []Account
BY RegularStartStraight, AccountOfTheTasks, PTL

\* Whatever the team, and also when it cannot finish, what the user's last operation
\* has been given is what the sequential execution gives it.
THEOREM RegularTasksDeliver == RegularStart /\ OmpSpec => DeliversStream
BY RegularStartStraight, StraightTasksDeliver, PTL

-----------------------------------------------------------------------------
(* What an ordering loop has passed. *)

\* The places in front of an ordering loop stay the same.
LEMMA BeforeStays ==
  ASSUME conf' = conf, DOMAIN queue' = DOMAIN queue, NEW x
  PROVE  /\ Before(x)' = Before(x)
         /\ \A th : LeadsTo(x, th)' <=> LeadsTo(x, th)
         /\ \A q : InFront(x, q)' <=> InFront(x, q)
<1>1. Spots' = Spots  BY SpotsStay
<1>2. \A q : InFront(x, q)' <=> InFront(x, q)
  BY AccountStays, RolesStay DEF InFront, Behind
<1>3. \A th : LeadsTo(x, th)' <=> LeadsTo(x, th)
  <2>1. SUFFICES ASSUME NEW th PROVE LeadsTo(x, th)' <=> LeadsTo(x, th)  OBVIOUS
  <2>2. input_queue(th)' = input_queue(th) /\ User' = User  BY RolesStay DEF User
  <2> QED  BY <1>2, <2>2 DEF LeadsTo
<1> QED  BY <1>1, <1>2, <1>3 DEF Before

\* What is expected, place by place.
LEMMA ExpectedIs ==
  ASSUME NEW x
  PROVE  /\ Before(x) \subseteq Spots
         /\ \A q \in Queues : <<"queue", q>> \in Before(x) <=> InFront(x, q)
         /\ \A th \in Threads : /\ <<"hand", th>> \in Before(x) <=> th # x /\ LeadsTo(x, th)
                                /\ <<"kept", th>> \in Before(x) <=> LeadsTo(x, th)
         /\ <<"user", User>> \notin Before(x)
         /\ \A e : e \in Expected(x) <=> \E p \in Before(x) : e \in Contents(p)
BY SpotsAre DEF Before, Expected

\* What has to be shown of an ordering loop that releases nothing.
LEMMA PassedStill ==
  ASSUME conf' = conf, DOMAIN queue' = DOMAIN queue, NEW x \in Threads, PassedBy(x),
         held'[x] = held[x], produced \in Nat, produced' \in {produced, produced + 1},
         \A e \in 1 .. produced :
           (Late(input_queue(x)) => e \in conf.keep) => (e \in Expected(x)' <=> e \in Expected(x)),
         produced' # produced =>
           /\ produced' \in Expected(x)'
           /\ held[x].current <= Number(Late(input_queue(x)), produced + 1)
  PROVE  PassedBy(x)'
<1> DEFINE late == Late(input_queue(x))
<1>1. (Late(input_queue(x)))' = late /\ \A e : Number(late, e)' = Number(late, e)
  BY AccountStays, RolesStay
<1>2. \A e \in 1 .. produced : (late => e \in conf.keep) =>
        (e \in Expected(x) <=> held[x].current <= Number(late, e))
  BY DEF PassedBy
<1> HIDE DEF late
<1>3. SUFFICES ASSUME NEW e \in 1 .. produced', late => e \in conf.keep
               PROVE  e \in Expected(x)' <=> held[x].current <= Number(late, e)
  BY <1>1 DEF PassedBy, late
<1>4. CASE e \in 1 .. produced  BY <1>2, <1>3, <1>4 DEF late
<1>5. CASE e \notin 1 .. produced
  <2>1. e = produced + 1 /\ produced' = e /\ produced' # produced  BY <1>3, <1>5
  <2> QED  BY <2>1 DEF late
<1> QED  BY <1>4, <1>5

\* What is rejected behind the first filters is rejected behind them all.
LEMMA LateBehind ==
  ASSUME Straight, Wired, NEW x \in Threads, OrderingLoop(x), NEW th \in Threads, th # x,
         IsReorder(th), LeadsTo(x, th)
  PROVE  Late(input_queue(x))
<1>1. /\ input_queue(th) # User /\ output_queue(th) # User /\ input_queue(x) # User
      /\ output_queue(th) \in Queues /\ input_queue(x) \in Queues
  BY DEF Wired, Connected, OrderingLoop, IsReorder, OnlyWaits, IsHost
<1>2. /\ output_queue(th)[1] \in Nat /\ input_queue(x)[1] \in Nat
  BY <1>1 DEF Wired, Connected
<1>3. CASE ~IsReorder(x)
  <2>1. output_queue(x) = User  BY <1>3 DEF Wired, Connected, OrderingLoop, IsReorder
  <2>2. Behind(th, input_queue(x))  BY <2>1 DEF Straight, Filters
  <2> QED  BY <2>2 DEF Late
<1>4. CASE IsReorder(x)
  <2>1. output_queue(x) # User /\ output_queue(x) \in Queues /\ output_queue(x)[1] \in Nat
    BY <1>4 DEF Wired, Connected, IsReorder
  <2>2. ~Behind(x, input_queue(th))  BY <1>1, <1>4 DEF LeadsTo, InFront
  <2>3. ~Behind(x, output_queue(th))  BY <1>1, <1>4, <2>2 DEF Straight, Filters
  <2>4. Behind(th, output_queue(x))  BY <1>2, <2>1, <2>3 DEF Behind
  <2>5. Behind(th, input_queue(x))  BY <1>1, <2>1, <2>4 DEF Straight, Filters
  <2> QED  BY <2>5 DEF Late
<1> QED  BY <1>3, <1>4

\* A step of another thread.
LEMMA OtherPasses ==
  ASSUME Straight, Wired, Typed, Account, NEW th \in Threads, Moved(th),
         NEW x \in Threads, x # th, OrderingLoop(x), PassedBy(x)
  PROVE  PassedBy(x)'
<1>1. /\ conf' = conf /\ DOMAIN queue' = DOMAIN queue /\ held'[x] = held[x]
      /\ produced \in Nat /\ produced' \in {produced, produced + 1}
  BY DEF Moved, Frame, Typed
<1>2. \A p \in Spots \ Own(th) : Contents(p)' = Contents(p)  BY MovedOwn
<1>3. \A p \in Own(th) : p \in Before(x) <=> LeadsTo(x, th)
  <2>1. /\ <<"hand", th>> \in Before(x) <=> LeadsTo(x, th)
        /\ <<"kept", th>> \in Before(x) <=> LeadsTo(x, th)
    BY ExpectedIs
  <2>2. input_queue(th) # User => (<<"queue", input_queue(th)>> \in Before(x) <=> LeadsTo(x, th))
    BY ExpectedIs DEF LeadsTo, Wired, Connected
  <2> QED  BY <2>1, <2>2 DEF Own
<1>4. Own(th) \subseteq Spots  BY SpotsAre DEF Own, Wired, Connected
<1>5. /\ Before(x)' = Before(x) /\ Before(x) \subseteq Spots
      /\ \A e : e \in Expected(x) <=> \E p \in Before(x) : e \in Contents(p)
      /\ \A e : e \in Expected(x)' <=> \E p \in Before(x) : e \in Contents(p)'
  BY <1>1, BeforeStays, ExpectedIs DEF Expected
<1>6. ASSUME NEW e \in 1 .. produced, Late(input_queue(x)) => e \in conf.keep, e \in Expected(x)'
      PROVE  e \in Expected(x)
  <2>1. PICK p \in Before(x) : e \in Contents(p)'  BY <1>5, <1>6
  <2>2. CASE p \in Own(th)
    <3>1. e # produced + 1  BY <1>1
    <3>2. PICK r \in Own(th) : e \in Contents(r)  BY <2>1, <2>2, <3>1 DEF Moved
    <3>3. r \in Before(x)  BY <1>3, <2>1, <2>2, <3>2
    <3> QED  BY <1>5, <3>2, <3>3
  <2>3. CASE p \notin Own(th)  BY <1>2, <1>5, <2>1, <2>3
  <2> QED  BY <2>2, <2>3
<1>7. ASSUME NEW e \in 1 .. produced, Late(input_queue(x)) => e \in conf.keep, e \in Expected(x)
      PROVE  e \in Expected(x)'
  <2>1. PICK p \in Before(x) : e \in Contents(p)  BY <1>5, <1>7
  <2>2. CASE p \in Own(th)
    <3>1. LeadsTo(x, th)  BY <1>3, <2>1, <2>2
    <3>2. (\E r \in Own(th) : e \in Contents(r)') \/ (IsReorder(th) /\ e \notin conf.keep)
      BY <2>1, <2>2 DEF Moved
    <3>3. ~(IsReorder(th) /\ e \notin conf.keep)  BY <1>7, <3>1, LateBehind
    <3>4. PICK r \in Own(th) : e \in Contents(r)'  BY <3>2, <3>3
    <3>5. r \in Before(x)  BY <1>3, <3>1, <3>4
    <3> QED  BY <1>5, <3>4, <3>5
  <2>3. CASE p \notin Own(th)  BY <1>2, <1>5, <2>1, <2>3
  <2> QED  BY <2>2, <2>3
<1>8. ASSUME produced' # produced PROVE produced' \in Expected(x)'
  <2>1. input_queue(th) = User /\ produced' \in Handed(th)'  BY <1>8 DEF Moved
  <2>2. <<"hand", th>> \in Before(x)  BY <2>1, ExpectedIs DEF LeadsTo
  <2>3. Contents(<<"hand", th>>)' = Handed(th)'  BY <1>1, SpotsStay
  <2> QED  BY <1>5, <2>1, <2>2, <2>3
<1>9. held[x].current <= Number(Late(input_queue(x)), produced + 1)
  BY DEF Account, Released, ReleasedBy
<1>10. \A e \in 1 .. produced :
         (Late(input_queue(x)) => e \in conf.keep) => (e \in Expected(x)' <=> e \in Expected(x))
  BY <1>6, <1>7
<1> QED  BY <1>1, <1>8, <1>9, <1>10, PassedStill

\* Among the elements that come as far as a loop the orders tell them apart.
LEMMA NumberTells ==
  ASSUME Straight, conf.length \in Nat, NEW e \in Nat \ {0}, NEW f \in Nat \ {0}, NEW late,
         late => e \in conf.keep /\ f \in conf.keep, Number(late, e) = Number(late, f)
  PROVE  e = f
<1>1. CASE late
  <2>1. Rank(e) = Rank(f)  BY <1>1 DEF Number
  <2>2. ~(e < f)
    <3>1. e < f => Rank(e) < Rank(f)  BY <1>1, RankSteps
    <3>2. Rank(e) \in Nat /\ Rank(f) \in Nat  BY RankSteps
    <3> QED  BY <2>1, <3>1, <3>2
  <2>3. ~(f < e)
    <3>1. f < e => Rank(f) < Rank(e)  BY <1>1, RankSteps
    <3>2. Rank(e) \in Nat /\ Rank(f) \in Nat  BY RankSteps
    <3> QED  BY <2>1, <3>1, <3>2
  <2> QED  BY <2>2, <2>3
<1>2. CASE ~late
  <2>1. e - 1 = f - 1  BY <1>2 DEF Number
  <2> QED  BY <2>1
<1> QED  BY <1>1, <1>2

\* A step of the loop: what it takes from what is in front of it are the next orders.
LEMMA OwnPasses ==
  ASSUME Straight, Wired, Typed, Account, NEW x \in Threads, Moved(x), OrderingLoop(x),
         PassedBy(x)
  PROVE  PassedBy(x)'
<1> DEFINE late == Late(input_queue(x))
           n == held[x].current
           m == held'[x].current
           ready == KeptBack(x) \cup QueuedIn(x)
           rest == KeptBack(x)' \cup QueuedIn(x)'
           kept == <<"kept", x>>
           N(e) == Number(late, e)
<1>0. PICK in : in = <<"queue", input_queue(x)>>  OBVIOUS
<1> DEFINE others == Before(x) \ {in, kept}
<1>1. /\ conf' = conf /\ DOMAIN queue' = DOMAIN queue
      /\ produced \in Nat /\ conf.length \in Nat
      /\ input_queue(x) \in Queues /\ input_queue(x) # User
  <2>1. input_queue(x) \in Queues /\ input_queue(x) # User  BY OrderingEnds
  <2> QED  BY <2>1 DEF Moved, Frame, Typed
<1>2. produced' = produced  BY <1>1 DEF Moved
<1>3. /\ rest \subseteq ready /\ n <= m /\ n \in Nat /\ m \in Nat
      /\ \A e \in ready \ rest : N(e) < m
      /\ \A k \in n .. m - 1 : \E e \in ready \ rest : N(e) = k /\ (late => e \in conf.keep)
  <2>1. Releases(x) /\ ReleasedBy(x) /\ ReleasedBy(x)'  BY DEF Moved, Account, Released
  <2>2. n \in Nat /\ m \in Nat  BY <2>1 DEF ReleasedBy
  <2> QED  BY <2>1, <2>2 DEF Releases
<1>4. /\ in \in Before(x) /\ kept \in Before(x) /\ in # kept
      /\ <<"hand", x>> \notin Before(x) /\ Before(x) \subseteq Spots
      /\ Before(x)' = Before(x)
      /\ \A e : e \in Expected(x) <=> \E p \in Before(x) : e \in Contents(p)
      /\ \A e : e \in Expected(x)' <=> \E p \in Before(x) : e \in Contents(p)'
  <2>1. InFront(x, input_queue(x))  BY DEF InFront, Straight, Filters
  <2>2. LeadsTo(x, x)  BY <2>1 DEF LeadsTo
  <2>3. Before(x)' = Before(x)  BY <1>1, BeforeStays
  <2>4. Expected(x)' = UNION {Contents(p)' : p \in Before(x)}  BY <2>3 DEF Expected
  <2> QED  BY <1>0, <1>1, <2>1, <2>2, <2>3, <2>4, ExpectedIs
<1>5. /\ Contents(kept) = KeptBack(x) /\ Contents(kept)' = KeptBack(x)'
      /\ Contents(in) = QueuedIn(x) /\ Contents(in)' = QueuedIn(x)'
  <2>1. PICK q : q = input_queue(x)  OBVIOUS
  <2>2. in = <<"queue", q>>  BY <1>0, <2>1
  <2> QED  BY <1>1, <2>1, <2>2, OwnContents
<1>6. \A p \in others : Contents(p)' = Contents(p)
  <2>1. \A p \in others : p \in Spots \ Own(x)  BY <1>0, <1>4 DEF Own
  <2> QED  BY <2>1, MovedOwn
<1>7. \A p \in others : Contents(p) \cap ready = {}
  BY <1>4, <1>5 DEF Account, Once, Separate
<1>8. \A p \in Before(x) : p = in \/ p = kept \/ p \in others  OBVIOUS
<1>9. /\ \A e : e \in Expected(x) <=> (e \in ready \/ \E p \in others : e \in Contents(p))
      /\ \A e : e \in Expected(x)' <=> (e \in rest \/ \E p \in others : e \in Contents(p))
  <2> HIDE DEF others
  <2>1. /\ \A e : e \in ready <=> e \in Contents(kept) \/ e \in Contents(in)
        /\ \A e : e \in rest <=> e \in Contents(kept)' \/ e \in Contents(in)'
    BY <1>5
  <2> HIDE DEF ready, rest, kept
  <2>2. \A p \in others : p \in Before(x)  BY DEF others
  <2> QED  BY <1>4, <1>6, <1>8, <2>1, <2>2
<1>10. \A e \in 1 .. produced : (late => e \in conf.keep) =>
         (e \in Expected(x) <=> n <= N(e))
  BY DEF PassedBy
<1>11. \A e \in ready : e \in 1 .. produced
  BY <1>4, <1>5, ContentsProduced
<1>12. \A e \in 1 .. produced : N(e) \in Nat
  <2>1. \A e \in 1 .. produced : e \in Nat \ {0} /\ e <= e  BY <1>1
  <2> QED  BY <1>1, <2>1, NumberGrows
<1>13. \A e, f \in 1 .. produced :
         (N(e) = N(f) /\ (late => e \in conf.keep /\ f \in conf.keep)) => e = f
  <2>1. \A e \in 1 .. produced : e \in Nat \ {0}  BY <1>1
  <2> QED  BY <1>1, <2>1, NumberTells
<1>14. (Late(input_queue(x)))' = late /\ \A e : Number(late, e)' = Number(late, e)
  BY <1>1, AccountStays, RolesStay
<1> HIDE DEF late, ready, rest, kept, others, n, m
<1>15. ASSUME NEW e \in 1 .. produced, late => e \in conf.keep
       PROVE  e \in Expected(x)' <=> m <= N(e)
  <2>1. e \in Expected(x) <=> n <= N(e)  BY <1>10, <1>15
  <2>2. N(e) \in Nat  BY <1>12
  <2> HIDE DEF N
  <2>3. ASSUME e \in Expected(x)' PROVE m <= N(e)
    <3>1. n <= N(e)  BY <1>3, <1>9, <2>1, <2>3
    <3>2. SUFFICES ASSUME N(e) < m PROVE FALSE  BY <1>3, <2>2
    <3>3. N(e) \in n .. m - 1  BY <1>3, <2>2, <3>1, <3>2
    <3>4. PICK f \in ready \ rest : N(f) = N(e) /\ (late => f \in conf.keep)  BY <1>3, <3>3
    <3>5. f = e  BY <1>11, <1>13, <1>15, <3>4
    <3>6. PICK p \in others : e \in Contents(p)  BY <1>9, <2>3, <3>4, <3>5
    <3> QED  BY <1>7, <3>4, <3>5, <3>6
  <2>4. ASSUME m <= N(e) PROVE e \in Expected(x)'
    <3>1. n <= N(e)  BY <1>3, <2>2, <2>4
    <3>2. e \in ready \/ \E p \in others : e \in Contents(p)  BY <1>9, <2>1, <3>1
    <3>3. e \notin ready \ rest
      <4>1. e \in ready \ rest => N(e) < m  BY <1>3
      <4> QED  BY <1>3, <2>2, <2>4, <4>1
    <3> QED  BY <1>9, <3>2, <3>3
  <2> QED  BY <2>3, <2>4
<1> QED  BY <1>2, <1>14, <1>15, <1>1 DEF PassedBy, late, m

\* The elements S, if any, go from the hand of th to a queue of its or to the user.
Hands(th, to, S) ==
  /\ conf' = conf /\ DOMAIN queue' = DOMAIN queue /\ held' = held /\ produced' = produced
  /\ to \in Spots /\ to # <<"hand", th>>
  /\ S \subseteq Contents(<<"hand", th>>)
  /\ Contents(<<"hand", th>>)' = Contents(<<"hand", th>>) \ S
  /\ Contents(to)' = Contents(to) \cup S
  /\ \A p \in Spots : (p # to /\ p # <<"hand", th>>) => Contents(p)' = Contents(p)
  /\ S # {} => \/ to = <<"user", User>> /\ CallsUser(th)
               \/ \E q \in Queues : /\ to = <<"queue", q>>
                                    /\ q = output_queue(th) \/
                                       (kind(th) \in {"iterate", "farm_sink"} /\ q = input_queue(th))

\* Where an item goes that stands for an element.
LEMMA ElementGoes ==
  ASSUME Wired, Outgoing, NEW th \in Threads, NEW k \in InHand(th), out[th][k].to # User
  PROVE  \/ out[th][k].to = output_queue(th)
         \/ kind(th) \in {"iterate", "farm_sink"} /\ out[th][k].to = input_queue(th)
<1> DEFINE m == out[th][k]
<1>1. k \in DOMAIN out[th] /\ ~IsEndMsg(m) /\ OutgoingOf(th)  BY DEF InHand, Outgoing
<1>2. CASE ~Empty(m.item)  BY <1>1, <1>2 DEF OutgoingOf
<1>3. CASE Empty(m.item)
  <2>1. PICK r \in Readers(m.to) : kind(r) = "reorder"  BY <1>1, <1>3 DEF IsEndMsg, IsMarker
  <2>2. ~IsFarmInput(m.to)  BY <2>1 DEF Wired, FilterQueues, Readers
  <2>3. ~(IsReplica(th) /\ m.to = FarmInput(th))  BY <2>2 DEF IsFarmInput
  <2>4. \/ m.to = output_queue(th)
        \/ kind(th) = "farm_sink" /\ m.to = input_queue(th)
        \/ IsReplica(th) /\ m.to = FarmInput(th)
    BY <1>1, <1>3 DEF OutgoingOf
  <2> QED  BY <2>3, <2>4
<1> QED  BY <1>2, <1>3

\* A push.
LEMMA PushGoes ==
  ASSUME Straight, Wired, Typed, InPlace, Outgoing, Account, NEW th \in Threads, Push(th)
  PROVE  \E to, S : Hands(th, to, S)
<1>1. /\ out[th] # <<>> /\ Head(out[th]).to # User
      /\ queue' = [queue EXCEPT ![Head(out[th]).to] = Append(@, Head(out[th]).item)]
      /\ held' = held /\ produced' = produced /\ pc' = pc /\ consumed' = consumed
  BY DEF Push
<1>2. HandsOver(th)  BY PushDone DEF Pushed
<1>3. /\ out[th] \in Seq(Messages) /\ queue \in [Queues -> Seq(Items)]
  BY DEF Typed, Messages
<1>4. PICK m : m = out[th][1]  OBVIOUS
<1>5. m = Head(out[th]) /\ m \in Messages /\ 1 \in DOMAIN out[th]  BY <1>1, <1>3, <1>4, TailOf
<1>6. PICK q : q = m.to  OBVIOUS
<1>7. /\ HandsOn(th, m) /\ q \in Queues /\ q # User /\ m.item \in Items
      /\ queue'[q] = Append(queue[q], m.item)
      /\ \A s \in Queues : s # q => queue'[s] = queue[s]
  BY <1>1, <1>2, <1>3, <1>4, <1>5, <1>6 DEF HandsOn, Messages
<1>8. /\ conf' = conf /\ DOMAIN queue' = DOMAIN queue
      /\ \A t \in Threads \ {th} : Handed(t)' = Handed(t)
      /\ \A t \in Threads : KeptBack(t)' = KeptBack(t)
      /\ Handed(th)' = IF IsEndMsg(m) THEN Handed(th) ELSE Handed(th) \ {Element(m.item)}
      /\ ~IsEndMsg(m) => Element(m.item) \in Handed(th)
  BY <1>7, HandsThen
<1>9. IsEndMsg(m) <=> IsMarker(q, m.item)  BY <1>6, <1>7 DEF IsEndMsg
<1> DEFINE S == IF IsEndMsg(m) THEN {} ELSE {Element(m.item)}
           to == <<"queue", q>>
<1>10. S \subseteq Handed(th) /\ Handed(th)' = Handed(th) \ S  BY <1>8
<1>11. ~IsMarker(q, m.item) => Element(m.item) \notin Queued(q)
  <2>1. /\ <<"hand", th>> \in Spots /\ Contents(<<"hand", th>>) = Handed(th)
        /\ to \in Spots /\ Contents(to) = Queued(q) /\ <<"hand", th>> # to
    BY <1>7, SpotsAre
  <2>2. Handed(th) \cap Queued(q) = {}  BY <2>1 DEF Account, Once, Separate
  <2> QED  BY <1>8, <1>9, <2>2
<1>12. Queued(q)' = Queued(q) \cup S
  <2>1. Queued(q)' = IF IsMarker(q, m.item) THEN Queued(q) ELSE Queued(q) \cup {Element(m.item)}
    BY <1>3, <1>7, <1>8, <1>11, QueuedAdded DEF Account, Once
  <2> QED  BY <1>9, <2>1
<1>13. \A s \in Queues : s # q => Queued(s)' = Queued(s)  BY <1>7, <1>8, QueuedSame
<1>14. Delivered' = Delivered  BY <1>1 DEF Delivered
<1>15. S # {} => q = output_queue(th) \/
                 (kind(th) \in {"iterate", "farm_sink"} /\ q = input_queue(th))
  <2>1. S # {} => 1 \in InHand(th)  BY <1>4, <1>5 DEF InHand
  <2> QED  BY <1>4, <1>6, <1>7, <2>1, ElementGoes
<1> HIDE DEF S
<1>16. /\ to \in Spots /\ to # <<"hand", th>> /\ Contents(to)' = Contents(to) \cup S
       /\ S \subseteq Contents(<<"hand", th>>)
       /\ Contents(<<"hand", th>>)' = Contents(<<"hand", th>>) \ S
  BY <1>7, <1>8, <1>10, <1>12, SpotsAre, SpotsStay
<1>17. ASSUME NEW p \in Spots, p # to, p # <<"hand", th>> PROVE Contents(p)' = Contents(p)
  <2>1. ASSUME NEW s \in Queues, p = <<"queue", s>> PROVE Contents(p)' = Contents(p)
    BY <1>8, <1>13, <1>17, <2>1, SpotsSame
  <2>2. ASSUME NEW t \in Threads, p = <<"hand", t>> \/ p = <<"kept", t>>
        PROVE  Contents(p)' = Contents(p)
    <3>1. p = <<"hand", t>> => t # th  BY <1>17
    <3>2. KeptBack(t)' = KeptBack(t) /\ (t # th => Handed(t)' = Handed(t))  BY <1>8
    <3> QED  BY <1>8, <2>2, <3>1, <3>2, SpotsSame
  <2>3. CASE p = <<"user", User>>  BY <1>8, <1>14, <2>3, SpotsSame
  <2> QED  BY <2>1, <2>2, <2>3, SpotsAre
<1>18. S # {} => \E r \in Queues :
         /\ to = <<"queue", r>>
         /\ r = output_queue(th) \/
            (kind(th) \in {"iterate", "farm_sink"} /\ r = input_queue(th))
  BY <1>7, <1>15
<1> HIDE DEF to
<1>19. Hands(th, to, S)  BY <1>1, <1>8, <1>16, <1>17, <1>18 DEF Hands
<1> QED  BY <1>19

\* A call.
LEMMA ConsumeGoes ==
  ASSUME Straight, Wired, Typed, InPlace, Outgoing, Account, NEW th \in Threads, Consume(th)
  PROVE  \E to, S : Hands(th, to, S)
<1>1. /\ out[th] # <<>> /\ Head(out[th]).to = User
      /\ held' = held /\ produced' = produced /\ pc' = pc /\ queue' = queue
      /\ consumed' = Append(consumed, Head(out[th]).item.value)
  BY DEF Consume
<1>2. HandsOver(th)  BY PushDone DEF Pushed
<1>3. out[th] \in Seq(Messages)  BY DEF Typed, Messages
<1>4. PICK m : m = out[th][1]  OBVIOUS
<1>5. m = Head(out[th]) /\ m \in Messages /\ 1 \in DOMAIN out[th]  BY <1>1, <1>3, <1>4, TailOf
<1>6. m.to = User /\ HandsOn(th, m) /\ ~IsEndMsg(m)
  BY <1>1, <1>2, <1>4, <1>5 DEF HandsOn, IsEndMsg
<1>7. /\ conf' = conf /\ DOMAIN queue' = DOMAIN queue
      /\ \A t \in Threads \ {th} : Handed(t)' = Handed(t)
      /\ \A t \in Threads : KeptBack(t)' = KeptBack(t)
      /\ Handed(th)' = Handed(th) \ {Element(m.item)}
      /\ Element(m.item) \in Handed(th)
  BY <1>6, HandsThen
<1>8. CallsUser(th)  BY <1>1, <1>4, <1>6, CalledWith
<1>9. PICK e \in Chosen \cap 1 .. produced :
        /\ e = Element(m.item) /\ e \in Handed(th) /\ m.item.value = <<e>>
        /\ m.item.order = Number(Late(input_queue(th)), e)
        /\ \A k \in DOMAIN consumed : consumed[k][1] # e
  BY <1>1, <1>4, <1>6, CalledWith
<1>10. Delivered' = Delivered \cup {e}
  <2>1. consumed \in Seq(Seq(Int)) /\ <<e>> \in Seq(Int) /\ consumed' = Append(consumed, <<e>>)
    BY <1>1, <1>5, <1>9 DEF Account, Numbered
  <2>2. PICK n : n = Len(consumed)  OBVIOUS
  <2>3. /\ n \in Nat /\ DOMAIN consumed = 1 .. n /\ DOMAIN consumed' = 1 .. n + 1
        /\ \A k \in 1 .. n : consumed'[k] = consumed[k]
        /\ consumed'[n + 1] = <<e>>
    BY <2>1, <2>2
  <2>4. Delivered' = {consumed'[k][1] : k \in DOMAIN consumed'}  BY DEF Delivered
  <2>5. \A k \in DOMAIN consumed' : k \in DOMAIN consumed \/ k = n + 1  BY <2>3
  <2>6. \A k \in DOMAIN consumed : k \in DOMAIN consumed' /\ consumed'[k] = consumed[k]  BY <2>3
  <2>7. n + 1 \in DOMAIN consumed' /\ consumed'[n + 1][1] = e  BY <2>3
  <2> QED  BY <2>4, <2>5, <2>6, <2>7 DEF Delivered
<1> DEFINE S == {e}
           to == <<"user", User>>
<1>11. /\ to \in Spots /\ to # <<"hand", th>> /\ Contents(to)' = Contents(to) \cup S
       /\ S \subseteq Contents(<<"hand", th>>)
       /\ Contents(<<"hand", th>>)' = Contents(<<"hand", th>>) \ S
  BY <1>7, <1>9, <1>10, SpotsAre, SpotsStay
<1>12. ASSUME NEW p \in Spots, p # to, p # <<"hand", th>> PROVE Contents(p)' = Contents(p)
  <2>1. ASSUME NEW s \in Queues, p = <<"queue", s>> PROVE Contents(p)' = Contents(p)
    <3>1. Queued(s)' = Queued(s)  BY <1>1, <1>7, QueuedSame
    <3> QED  BY <1>7, <2>1, <3>1, SpotsSame
  <2>2. ASSUME NEW t \in Threads, p = <<"hand", t>> \/ p = <<"kept", t>>
        PROVE  Contents(p)' = Contents(p)
    <3>1. p = <<"hand", t>> => t # th  BY <1>12
    <3>2. KeptBack(t)' = KeptBack(t) /\ (t # th => Handed(t)' = Handed(t))  BY <1>7
    <3> QED  BY <1>7, <2>2, <3>1, <3>2, SpotsSame
  <2> QED  BY <1>12, <2>1, <2>2, SpotsAre
<1>13. S # {} => to = <<"user", User>> /\ CallsUser(th)  BY <1>8
<1> HIDE DEF to, S
<1>14. Hands(th, to, S)  BY <1>1, <1>7, <1>11, <1>12, <1>13 DEF Hands
<1> QED  BY <1>14

\* A thread that calls the user is behind every ordering loop, or is it.
LEMMA CallerBehind ==
  ASSUME Straight, Wired, NEW th \in Threads, CallsUser(th), NEW x \in Threads, OrderingLoop(x)
  PROVE  ~(th # x /\ LeadsTo(x, th))
<1>1. CASE kind(x) = "consume"
  <2>1. th = x  BY <1>1 DEF Straight
  <2> QED  BY <2>1
<1>2. CASE kind(x) # "consume"
  <2>1. IsReorder(x)  BY <1>2 DEF OrderingLoop, IsReorder
  <2>2. input_queue(th) # User  BY DEF Wired, Connected, CallsUser, OnlyWaits, IsHost
  <2>3. th # x => Behind(x, input_queue(th))  BY <2>1 DEF Straight, Filters, CallsUser
  <2> QED  BY <2>1, <2>2, <2>3 DEF LeadsTo, InFront
<1> QED  BY <1>1, <1>2

\* A thread is on the same side of an ordering loop as the queues it pushes elements to.
LEMMA OneSide ==
  ASSUME Straight, Wired, NEW th \in Threads, NEW x \in Threads, OrderingLoop(x),
         NEW q \in Queues,
         q = output_queue(th) \/ (kind(th) \in {"iterate", "farm_sink"} /\ q = input_queue(th))
  PROVE  InFront(x, q) <=> th # x /\ LeadsTo(x, th)
<1>1. q # User  BY DEF Wired, Connected
<1>2. CASE q = output_queue(th)
  <2>1. CASE IsReorder(x)
    <3>1. CASE th = x
      <4>1. q[1] \in Nat  BY DEF Wired, Connected
      <4>2. ~InFront(x, q)  BY <1>2, <2>1, <3>1, <4>1 DEF InFront, Behind
      <4> QED  BY <3>1, <4>2
    <3>2. CASE th # x
      <4>1. input_queue(th) = User => ~Behind(x, q)
        BY <1>2, <2>1, <3>2 DEF Straight, Filters
      <4>2. input_queue(th) # User => (Behind(x, input_queue(th)) <=> Behind(x, q))
        BY <1>1, <1>2, <2>1, <3>2 DEF Straight, Filters
      <4> QED  BY <2>1, <3>2, <4>1, <4>2 DEF InFront, LeadsTo
    <3> QED  BY <3>1, <3>2
  <2>2. CASE ~IsReorder(x)
    <3>1. kind(x) = "consume"  BY <2>2 DEF OrderingLoop, IsReorder
    <3>2. th # x  BY <1>1, <1>2, <3>1 DEF Wired, Connected
    <3> QED  BY <2>2, <3>2 DEF InFront, LeadsTo
  <2> QED  BY <2>1, <2>2
<1>3. CASE kind(th) \in {"iterate", "farm_sink"} /\ q = input_queue(th)
  <2>1. th # x  BY <1>3 DEF OrderingLoop
  <2> QED  BY <1>1, <1>3, <2>1 DEF LeadsTo
<1> QED  BY <1>2, <1>3

\* An element that is handed over does not pass an ordering loop, unless this does it.
LEMMA HandsPass ==
  ASSUME Straight, Wired, Typed, NEW th \in Threads, NEW to, NEW S, Hands(th, to, S), S # {},
         NEW x \in Threads, OrderingLoop(x)
  PROVE  to \in Before(x) <=> <<"hand", th>> \in Before(x)
<1>1. /\ <<"hand", th>> \in Before(x) <=> th # x /\ LeadsTo(x, th)
      /\ <<"user", User>> \notin Before(x)
      /\ \A q \in Queues : <<"queue", q>> \in Before(x) <=> InFront(x, q)
  BY ExpectedIs
<1>2. CASE to = <<"user", User>> /\ CallsUser(th)  BY <1>1, <1>2, CallerBehind
<1>3. ASSUME NEW q \in Queues, to = <<"queue", q>>,
             q = output_queue(th) \/ (kind(th) \in {"iterate", "farm_sink"} /\ q = input_queue(th))
      PROVE  to \in Before(x) <=> <<"hand", th>> \in Before(x)
  <2>1. InFront(x, q) <=> th # x /\ LeadsTo(x, th)  BY <1>3, OneSide
  <2> QED  BY <1>1, <1>3, <2>1
<1>4. \/ to = <<"user", User>> /\ CallsUser(th)
      \/ \E q \in Queues : /\ to = <<"queue", q>>
                           /\ q = output_queue(th) \/
                              (kind(th) \in {"iterate", "farm_sink"} /\ q = input_queue(th))
  BY DEF Hands
<1> QED  BY <1>2, <1>3, <1>4

\* So a push or a call passes none.
LEMMA HandsKeepPassed ==
  ASSUME Straight, Wired, Typed, NEW th \in Threads, NEW to, NEW S, Hands(th, to, S),
         NEW x \in Threads, OrderingLoop(x), PassedBy(x)
  PROVE  PassedBy(x)'
<1> DEFINE from == <<"hand", th>>
<1>1. /\ conf' = conf /\ DOMAIN queue' = DOMAIN queue /\ held' = held /\ produced' = produced
      /\ produced \in Nat
  BY DEF Hands, Typed
<1>2. /\ Before(x)' = Before(x) /\ Before(x) \subseteq Spots
      /\ \A e : e \in Expected(x) <=> \E p \in Before(x) : e \in Contents(p)
      /\ \A e : e \in Expected(x)' <=> \E p \in Before(x) : e \in Contents(p)'
  BY <1>1, BeforeStays, ExpectedIs DEF Expected
<1>3. /\ S \subseteq Contents(from) /\ Contents(from)' = Contents(from) \ S
      /\ Contents(to)' = Contents(to) \cup S
      /\ \A p \in Spots : (p # to /\ p # from) => Contents(p)' = Contents(p)
  BY DEF Hands
<1>4. S # {} => (to \in Before(x) <=> from \in Before(x))  BY HandsPass
<1> HIDE DEF from
<1>5. ASSUME NEW e PROVE e \in Expected(x)' <=> e \in Expected(x)
  <2>1. ASSUME NEW p \in Before(x), e \in Contents(p) PROVE \E r \in Before(x) : e \in Contents(r)'
    <3>1. CASE p = from /\ e \in S
      <4>1. to \in Before(x) /\ e \in Contents(to)'  BY <1>3, <1>4, <3>1
      <4> QED  BY <4>1
    <3>2. CASE ~(p = from /\ e \in S)
      <4>1. e \in Contents(p)'  BY <1>2, <1>3, <2>1, <3>2
      <4> QED  BY <4>1
    <3> QED  BY <3>1, <3>2
  <2>2. ASSUME NEW p \in Before(x), e \in Contents(p)' PROVE \E r \in Before(x) : e \in Contents(r)
    <3>1. CASE p = to /\ e \in S
      <4>1. from \in Before(x) /\ e \in Contents(from)  BY <1>3, <1>4, <3>1
      <4> QED  BY <4>1
    <3>2. CASE ~(p = to /\ e \in S)
      <4>1. e \in Contents(p)  BY <1>2, <1>3, <2>2, <3>2
      <4> QED  BY <4>1
    <3> QED  BY <3>1, <3>2
  <2> QED  BY <1>2, <2>1, <2>2
<1> QED  BY <1>1, <1>5, PassedStill

\* If nothing happens, none is passed.
LEMMA StutterPasses ==
  ASSUME Typed, Passed, UNCHANGED vars
  PROVE  Passed'
<1>1. /\ conf' = conf /\ queue' = queue /\ out' = out /\ produced' = produced
      /\ held' = held /\ consumed' = consumed /\ DOMAIN queue' = DOMAIN queue
      /\ produced \in Nat
  BY DEF vars, Typed
<1>2. /\ \A q \in Queues : Queued(q)' = Queued(q)
      /\ \A th \in Threads : Handed(th)' = Handed(th) /\ KeptBack(th)' = KeptBack(th)
      /\ Delivered' = Delivered
  BY <1>1, QueuedSame, HandedSame, ItemsStay DEF KeptBack, Delivered
<1>3. ASSUME NEW p \in Spots PROVE Contents(p)' = Contents(p)
  <2>1. /\ \A q \in Queues : Contents(<<"queue", q>>)' = Contents(<<"queue", q>>)
        /\ Contents(<<"user", User>>)' = Contents(<<"user", User>>)
    BY <1>1, <1>2, SpotsSame
  <2>2. \A th \in Threads : /\ Contents(<<"hand", th>>)' = Contents(<<"hand", th>>)
                            /\ Contents(<<"kept", th>>)' = Contents(<<"kept", th>>)
    <3>1. \A th \in Threads : Contents(<<"hand", th>>)' = Contents(<<"hand", th>>)
      BY <1>1, <1>2, SpotsSame
    <3>2. \A th \in Threads : Contents(<<"kept", th>>)' = Contents(<<"kept", th>>)
      BY <1>1, <1>2, SpotsSame
    <3> QED  BY <3>1, <3>2
  <2> QED  BY <2>1, <2>2, SpotsAre
<1>4. ASSUME NEW x \in Threads, OrderingLoop(x) PROVE PassedBy(x)'
  <2>1. PassedBy(x)  BY <1>4 DEF Passed
  <2>2. /\ Before(x)' = Before(x) /\ Before(x) \subseteq Spots
        /\ \A e : e \in Expected(x) <=> \E p \in Before(x) : e \in Contents(p)
        /\ \A e : e \in Expected(x)' <=> \E p \in Before(x) : e \in Contents(p)'
    BY <1>1, BeforeStays, ExpectedIs DEF Expected
  <2>3. \A e : e \in Expected(x)' <=> e \in Expected(x)  BY <1>3, <2>2
  <2> QED  BY <1>1, <2>1, <2>3, PassedStill
<1>5. Threads' = Threads /\ \A x \in Threads : (OrderingLoop(x)' <=> OrderingLoop(x))
  BY <1>1, RolesStay DEF OrderingLoop
<1> QED  BY <1>4, <1>5 DEF Passed

\* Every step of a thread passes what it releases, and so do the tasks.
LEMMA StepPasses ==
  ASSUME Straight, OmpIInv, Account, Passed, NEW th \in Threads, Step(th) \/ DrainFilter(th)
  PROVE  Passed'
<1>1. IInv /\ FilterEnds(th)  BY DEF OmpIInv
<1>2. Typed /\ Wired /\ Outgoing /\ InPlace /\ Orders  BY <1>1 DEF IInv
<1>3. Frame(th)  BY <1>1, StepFrame, DrainFilterSettles DEF Settled
<1>4. Threads' = Threads /\ \A x \in Threads : (OrderingLoop(x)' <=> OrderingLoop(x))
  BY <1>3, RolesStay DEF OrderingLoop, Frame
<1>5. SUFFICES ASSUME NEW x \in Threads, OrderingLoop(x), PassedBy(x) PROVE PassedBy(x)'
  BY <1>4 DEF Passed
<1>6. CASE Push(th) \/ Consume(th)
  <2>1. \E to, S : Hands(th, to, S)  BY <1>2, <1>6, PushGoes, ConsumeGoes
  <2> QED  BY <1>2, <1>5, <2>1, HandsKeepPassed
<1>7. CASE ~Push(th) /\ ~Consume(th)
  <2>1. Moved(th)  BY <1>1, <1>7, StepMoves, DrainFilterMoves
  <2> QED  BY <1>2, <1>5, <2>1, OtherPasses, OwnPasses
<1> QED  BY <1>6, <1>7

\* At first there is nothing to pass.
LEMMA InitPassed == Init => Passed
<1> SUFFICES ASSUME NEW p \in Pipelines, InitFor(p) PROVE Passed  BY DEF Init
<1>1. produced = 0  BY DEF InitFor
<1> QED  BY <1>1 DEF Passed, PassedBy

\* The threads of the native back end.
LEMMA NextPasses == Straight /\ OmpIInv /\ Account /\ Passed /\ [Next]_vars => Passed'
<1> SUFFICES ASSUME Straight, OmpIInv, Account, Passed, [Next]_vars PROVE Passed'  OBVIOUS
<1>1. Typed  BY DEF OmpIInv, IInv
<1>2. UNCHANGED vars => Passed'  BY <1>1, StutterPasses
<1>3. \A th \in Threads : Step(th) => Passed'  BY StepPasses
<1>4. Return => UNCHANGED vars  BY DEF Return
<1> QED  BY <1>2, <1>3, <1>4 DEF Next

\* The tasks.
LEMMA OmpNextPasses == Straight /\ OmpIInv /\ Account /\ Passed /\ [OmpNext]_omp_vars => Passed'
<1> SUFFICES ASSUME Straight, OmpIInv, Account, Passed, [OmpNext]_omp_vars PROVE Passed'  OBVIOUS
<1>1. Typed  BY DEF OmpIInv, IInv
<1>2. UNCHANGED vars => Passed'  BY <1>1, StutterPasses
<1>3. UNCHANGED omp_vars => UNCHANGED vars  BY DEF omp_vars
<1>4. \A t \in Tasks : (Begin(t) \/ BeginInside(t)) => UNCHANGED vars  BY DEF Begin, BeginInside
<1>5. \A t \in Tasks : TaskStep(t) => Passed'  BY StepPasses, StraightTask DEF Tasks
<1>6. OmpReturn => UNCHANGED vars  BY <1>3 DEF OmpReturn
<1> QED  BY <1>2, <1>3, <1>4, <1>5, <1>6 DEF OmpNext

-----------------------------------------------------------------------------
(* Behind the end marker of an ordering loop. *)

\* When the loop has ended, the queues in front of it have run dry.
LEMMA DrainedDry ==
  ASSUME Straight, IInv, NEW x \in Threads, OrderingLoop(x), pc[x] # "loop",
         NEW q \in Queues, InFront(x, q)
  PROVE  RunDry(q)
<1> DEFINE W == {s \in Queues : RunDry(s)}
<1>1. Wired /\ NothingLeft  BY DEF IInv
<1>2. Upstream(W) /\ W \in SUBSET Queues  BY DryUpstream
<1>3. input_queue(x) \in Queues /\ x \in Readers(input_queue(x))
  BY <1>1, OrderingEnds DEF Readers
<1>4. HasLeft(x)  BY DEF HasLeft, OrderingLoop
<1>5. input_queue(x) \in W  BY <1>1, <1>3, <1>4, LeftDry
<1> HIDE DEF W
<1>6. q \in W
  <2>1. CASE IsReorder(x)
    <3>1. \A s \in Queues : Behind(x, s) \/ s \in W
      BY <1>2, <1>5, <2>1 DEF Straight, Leads
    <3> QED  BY <2>1, <3>1 DEF InFront
  <2>2. CASE ~IsReorder(x)
    <3>1. kind(x) = "consume"  BY <2>2 DEF OrderingLoop, IsReorder
    <3>2. \A th \in Threads : CallsUser(th) => th = x  BY <3>1 DEF Straight
    <3>3. W = Queues  BY <1>2, <1>5, <3>2 DEF Straight, Leads
    <3> QED  BY <3>3
  <2> QED  BY <2>1, <2>2
<1> QED  BY <1>6 DEF W

\* What a filter has rejected does not wait for an ordering loop behind that filter.
LEMMA RejectedInFront ==
  ASSUME Straight, Wired, NEW x \in Threads, OrderingLoop(x), NEW q \in Queues, InFront(x, q),
         NEW item, Empty(item), ~IsMarker(q, item), InSeries(produced, q, item),
         Late(input_queue(x)) => Element(item) \in conf.keep
  PROVE  IsReorder(x) /\ q = input_queue(x)
<1>1. ~Late(input_queue(x))  BY DEF InSeries
<1>2. PICK r \in Readers(q) : IsReorder(r)  BY DEF IsMarker, IsReorder
<1>3. r \in Threads /\ input_queue(r) = q  BY <1>2 DEF Readers
<1>4. LeadsTo(x, r)  BY <1>3 DEF LeadsTo
<1>5. r = x  BY <1>1, <1>2, <1>3, <1>4, LateBehind
<1> QED  BY <1>2, <1>3, <1>5

\* Then what it expects is what it has kept.
LEMMA NoneInFront ==
  ASSUME Straight, OmpIInv, Account, NEW x \in Threads, OrderingLoop(x), pc[x] # "loop",
         NEW p \in Before(x), NEW e \in Contents(p), Late(input_queue(x)) => e \in conf.keep
  PROVE  p = <<"kept", x>>
<1>1. IInv /\ Typed /\ Wired /\ Outgoing /\ FilterEnds(x)  BY DEF OmpIInv, IInv
<1>2. \A q \in Queues : InFront(x, q) => RunDry(q)  BY <1>1, DrainedDry
<1>3. /\ \A q \in Queues : <<"queue", q>> \in Before(x) <=> InFront(x, q)
      /\ \A th \in Threads : /\ <<"hand", th>> \in Before(x) <=> th # x /\ LeadsTo(x, th)
                             /\ <<"kept", th>> \in Before(x) <=> LeadsTo(x, th)
      /\ <<"user", User>> \notin Before(x) /\ Before(x) \subseteq Spots
  BY ExpectedIs
<1>4. ASSUME NEW q \in Queues, p = <<"queue", q>> PROVE FALSE
  <2>1. InFront(x, q)  BY <1>3, <1>4
  <2>2. PICK k \in OnQueue(q) : e = Element(queue[q][k])  BY <1>4, SpotsAre DEF Queued
  <2>3. k \in DOMAIN queue[q] /\ ~IsMarker(q, queue[q][k])  BY <2>2 DEF OnQueue
  <2>4. Empty(queue[q][k])  BY <1>2, <2>1, <2>3 DEF RunDry
  <2>5. InSeries(produced, q, queue[q][k])  BY <2>2 DEF Account, Numbered
  <2>6. IsReorder(x) /\ q = input_queue(x)
    BY <1>1, <2>1, <2>2, <2>3, <2>4, <2>5, RejectedInFront
  <2>7. queue[q] = <<>>  BY <1>1, <2>6 DEF FilterEnds, IsReorder
  <2> QED  BY <2>3, <2>7
<1>5. ASSUME NEW th \in Threads, p = <<"hand", th>> PROVE FALSE
  <2>1. th # x /\ LeadsTo(x, th)  BY <1>3, <1>5
  <2>2. PICK k \in InHand(th) : e = Element(out[th][k].item)  BY <1>5, SpotsAre DEF Handed
  <2>3. k \in DOMAIN out[th] /\ ~IsEndMsg(out[th][k])  BY <2>2 DEF InHand
  <2>4. out[th][k].to # User
    <3>1. out[th][k].to = User => CallsUser(th)  BY <2>3 DEF Account, Ends, EndsOf
    <3> QED  BY <1>1, <2>1, <3>1, CallerBehind
  <2>5. PICK q : q = out[th][k].to  OBVIOUS
  <2>6. q \in Queues
    <3>1. out[th] \in Seq(Messages)  BY <1>1 DEF Typed, Messages
    <3>2. out[th][k] \in Messages  BY <2>3, <3>1
    <3> QED  BY <2>4, <2>5, <3>2 DEF Messages
  <2>7. InFront(x, q)
    <3>1. \/ q = output_queue(th)
          \/ kind(th) \in {"iterate", "farm_sink"} /\ q = input_queue(th)
      BY <1>1, <2>2, <2>4, <2>5, ElementGoes
    <3> QED  BY <1>1, <2>1, <2>6, <3>1, OneSide
  <2>8. Empty(out[th][k].item)  BY <1>2, <2>3, <2>5, <2>6, <2>7 DEF RunDry
  <2>9. InSeries(produced, q, out[th][k].item)
    BY <2>2, <2>4, <2>5 DEF Account, Numbered, Source
  <2>10. ~IsMarker(q, out[th][k].item)  BY <2>3, <2>4, <2>5 DEF IsEndMsg
  <2>11. IsReorder(x) /\ q = input_queue(x)
    BY <1>1, <2>2, <2>6, <2>7, <2>8, <2>9, <2>10, RejectedInFront
  <2>12. th \in Writers(input_queue(x))
    BY <1>1, <2>3, <2>5, <2>11, ToFilterQueue DEF IsReorder
  <2>13. Finished(th)  BY <1>1, <2>11, <2>12 DEF FilterEnds, IsReorder
  <2>14. out[th] = <<>>  BY <2>13 DEF Finished
  <2> QED  BY <2>3, <2>14
<1>6. ASSUME NEW th \in Threads, p = <<"kept", th>>, th # x PROVE FALSE
  <2>1. LeadsTo(x, th)  BY <1>3, <1>6
  <2>2. held[th].elements # <<>>
    <3>1. e \in KeptBack(th)  BY <1>6, SpotsAre
    <3> QED  BY <3>1, NoItem DEF KeptBack
  <2>3. OrderingLoop(th) /\ pc[th] # "last"  BY <2>2 DEF Account, Released, ReleasedBy
  <2>4. ~CallsUser(th)  BY <1>1, <1>6, <2>1, CallerBehind
  <2>5. output_queue(th) \in Queues  BY <1>1, <2>4 DEF Wired, Connected, CallsUser
  <2>6. InFront(x, output_queue(th))  BY <1>1, <1>6, <2>1, <2>5, OneSide
  <2> QED  BY <1>2, <2>3, <2>5, <2>6 DEF RunDry
<1> QED  BY <1>3, <1>4, <1>5, <1>6, SpotsAre

\* The order an ordering loop waits for is that of an element, if it has one behind it.
LEMMA NextExpected ==
  ASSUME Straight, produced \in Nat, conf.length \in Nat, NEW x \in Threads, NEW n \in Nat,
         NEW f \in 1 .. produced, Late(input_queue(x)) => f \in conf.keep,
         n <= Number(Late(input_queue(x)), f)
  PROVE  \E e \in 1 .. produced : /\ Late(input_queue(x)) => e \in conf.keep
                                  /\ Number(Late(input_queue(x)), e) = n
<1> DEFINE late == Late(input_queue(x))
<1>1. CASE ~late
  <2>1. n <= f - 1  BY <1>1 DEF Number
  <2>2. n + 1 \in 1 .. produced  BY <2>1
  <2>3. Number(late, n + 1) = n  BY <1>1 DEF Number
  <2> QED  BY <1>1, <2>2, <2>3
<1>2. CASE late
  <2>1. \E y \in Threads : IsReorder(y)  BY <1>2 DEF Late
  <2>2. Chosen = conf.keep /\ f \in Chosen  BY <1>2, <2>1 DEF Chosen
  <2>3. /\ \A k \in DOMAIN conf.expected :
             \E e \in Chosen : conf.expected[k] = <<e>> /\ Rank(e) = k - 1
        /\ \A e \in Chosen : \E k \in DOMAIN conf.expected : conf.expected[k] = <<e>>
    BY <2>1 DEF Straight, Enumerates, Number
  <2>4. PICK k \in DOMAIN conf.expected : conf.expected[k] = <<f>>  BY <2>2, <2>3
  <2>5. Rank(f) = k - 1
    <3>1. PICK e \in Chosen : conf.expected[k] = <<e>> /\ Rank(e) = k - 1  BY <2>3
    <3>2. e = f  BY <2>4, <3>1
    <3> QED  BY <3>1, <3>2
  <2>6. n <= Rank(f)  BY <1>2 DEF Number
  <2>7. n + 1 \in DOMAIN conf.expected
    <3>1. conf.expected \in Seq(Seq(Int))  BY DEF Straight
    <3>2. k \in 1 .. Len(conf.expected) /\ Len(conf.expected) \in Nat  BY <3>1
    <3>3. n + 1 \in 1 .. Len(conf.expected)  BY <2>5, <2>6, <3>2
    <3> QED  BY <3>1, <3>3
  <2>8. PICK e \in Chosen : Rank(e) = n + 1 - 1  BY <2>3, <2>7
  <2>9. e \in 1 .. conf.length  BY <2>2 DEF Straight
  <2>10. e <= f
    <3>1. SUFFICES ASSUME f < e PROVE FALSE  BY <2>9
    <3>2. Rank(f) < Rank(e) /\ Rank(f) \in Nat
      BY <1>2, <2>9, <3>1, RankSteps
    <3> QED  BY <2>6, <2>8, <3>2
  <2> QED  BY <1>2, <2>2, <2>8, <2>9, <2>10 DEF Number
<1> QED  BY <1>1, <1>2

\* So it finds that element among those it has kept.
LEMMA PassedFinds ==
  ASSUME Straight, OmpIInv, Account, Passed
  PROVE  DrainFindsNext
<1>1. SUFFICES ASSUME NEW x \in Threads, pc[x] = "drain", held[x].elements # <<>>
               PROVE  Positions(held[x]) # {}
  BY DEF DrainFindsNext
<1> DEFINE late == Late(input_queue(x))
           n == held[x].current
           N(e) == Number(late, e)
<1>2. /\ Typed /\ Wired /\ OrderingLoop(x) /\ n \in Nat
      /\ produced \in Nat /\ conf.length \in Nat
  BY <1>1 DEF OmpIInv, IInv, Typed, Account, Ends, EndsOf, Released, ReleasedBy
<1>3. \A e \in 1 .. produced : (late => e \in conf.keep) => (e \in Expected(x) <=> n <= N(e))
  BY <1>2 DEF Passed, PassedBy
<1>4. <<"kept", x>> \in Before(x)
  <2>1. InFront(x, input_queue(x))  BY DEF InFront, Straight, Filters
  <2> QED  BY <2>1, ExpectedIs DEF LeadsTo
<1>5. ASSUME NEW k \in DOMAIN held[x].elements
      PROVE  LET e == Element(held[x].elements[k]) IN
             /\ e \in 1 .. produced /\ (late => e \in conf.keep)
             /\ e \in Contents(<<"kept", x>>) /\ held[x].elements[k].order = N(e)
  <2>1. InSeries(produced, input_queue(x), held[x].elements[k])  BY DEF Account, Numbered
  <2> QED  BY <2>1, SpotsAre DEF InSeries, KeptBack, Stands
<1>6. PICK k \in DOMAIN held[x].elements : TRUE
  <2>1. held[x].elements \in Seq(Items)  BY <1>2 DEF Typed, HeldTypes
  <2>2. 1 \in DOMAIN held[x].elements  BY <1>1, <2>1, TailOf
  <2> QED  BY <2>2
<1>7. PICK f \in 1 .. produced : (late => f \in conf.keep) /\ f \in Contents(<<"kept", x>>)
  BY <1>5, <1>6
<1>8. n <= N(f)
  <2>1. f \in Expected(x)  BY <1>4, <1>7, ExpectedIs
  <2> QED  BY <1>3, <1>7, <2>1
<1>9. PICK e \in 1 .. produced : (late => e \in conf.keep) /\ N(e) = n
  BY <1>2, <1>7, <1>8, NextExpected
<1>10. e \in Expected(x)  BY <1>2, <1>3, <1>9
<1>11. PICK p \in Before(x) : e \in Contents(p)  BY <1>10, ExpectedIs
<1>12. p = <<"kept", x>>  BY <1>1, <1>2, <1>9, <1>11, NoneInFront
<1>13. PICK j \in DOMAIN held[x].elements : Element(held[x].elements[j]) = e
  BY <1>11, <1>12, SpotsAre DEF KeptBack, Stands
<1>14. held[x].elements[j].order = n  BY <1>5, <1>9, <1>13
<1> QED  BY <1>14 DEF Positions

-----------------------------------------------------------------------------
(* The theorems of the ordering loops. *)

\* In a straight pipeline the ordering loops pass every element once, in its turn.
THEOREM StraightPasses == Straight /\ Spec => []Passed
<1>1. Init => Passed  BY InitPassed
<1>2. OmpIInv /\ Straight /\ Account /\ Passed /\ [Next]_vars => Passed'  BY NextPasses
<1>3. Spec => []OmpIInv  BY EndsOfFilters
<1> QED  BY <1>1, <1>2, <1>3, AccountOfTheStream, PTL DEF Spec

\* So they do in the hands of the tasks.
THEOREM StraightTasksPass == Straight /\ OmpSpec => []Passed
<1>1. OmpInit => Passed  BY InitPassed DEF OmpInit, Init
<1>2. OmpIInv /\ Straight /\ Account /\ Passed /\ [OmpNext]_omp_vars => Passed'
  BY OmpNextPasses
<1> QED  BY <1>1, <1>2, AccountOfTheTasks, PTL DEF OmpSpec

\* An ordering loop of a regular pipeline releases each element in its turn, and what
\* is still to come is in front of it: no order is ever missing.
THEOREM RegularPasses == RegularStart /\ Spec => []Passed
BY RegularStartStraight, StraightPasses, PTL

\* Of the pipelines that are not straight nothing is said here: whether one is does not
\* change while it runs.
LEMMA NeverStraight ==
  ASSUME IInv, ~Straight, [Next]_vars
  PROVE  ~Straight'
<1>1. CASE UNCHANGED vars  BY <1>1, StraightStays DEF vars
<1>2. ASSUME NEW th \in Threads, Step(th) PROVE ~Straight'
  BY <1>2, StepFrame, StraightStays DEF Frame
<1>3. Return => UNCHANGED vars  BY DEF Return
<1> QED  BY <1>1, <1>2, <1>3 DEF Next

\* Every straight pipeline loses, repeats and misnumbers nothing, in every state.
THEOREM StreamAccounted == Spec => []Accounted
<1>1. IInv /\ ~Straight /\ [Next]_vars => ~Straight'  BY NeverStraight
<1>2. Straight /\ Account /\ Passed => Accounted  BY DEF Accounted
<1>3. ~Straight => Accounted  BY DEF Accounted
<1> QED
  BY <1>1, <1>2, <1>3, Invariance, AccountOfTheStream, StraightPasses, PTL DEF Spec

\* So behind the end marker it finds the next order among the elements it has kept,
\* until it has none left: it does not spin for ever.
THEOREM RegularFindsNext == RegularStart /\ Spec => []DrainFindsNext
<1>1. Straight /\ OmpIInv /\ Account /\ Passed => DrainFindsNext  BY PassedFinds
<1>2. Spec => []OmpIInv  BY EndsOfFilters
<1> QED  BY <1>1, <1>2, RegularStartStraight, AccountOfTheStream, StraightPasses, PTL

\* The tasks do the same, whatever the team.
THEOREM TasksAccounted == OmpSpec => []Accounted
<1>1. OmpIInv /\ ~Straight /\ [OmpNext]_omp_vars => ~Straight'
  <2> SUFFICES ASSUME OmpIInv, ~Straight, [OmpNext]_omp_vars PROVE ~Straight'  OBVIOUS
  <2>1. CASE UNCHANGED vars  BY <2>1, StraightStays DEF vars
  <2>2. ASSUME NEW t \in Threads, TaskStep(t) PROVE ~Straight'
    <3>1. IInv /\ FilterEnds(t)  BY DEF OmpIInv
    <3>2. Frame(t)  BY <2>2, <3>1, TaskSettles DEF Settled, Pushed
    <3> QED  BY <3>2, StraightStays DEF Frame
  <2>3. UNCHANGED omp_vars => UNCHANGED vars  BY DEF omp_vars
  <2>4. \A t \in Tasks : (Begin(t) \/ BeginInside(t)) => UNCHANGED vars  BY DEF Begin, BeginInside
  <2>5. OmpReturn => UNCHANGED vars  BY <2>3 DEF OmpReturn
  <2> QED  BY <2>1, <2>2, <2>3, <2>4, <2>5 DEF OmpNext, Tasks
<1>2. Straight /\ Account /\ Passed => Accounted  BY DEF Accounted
<1>3. ~Straight => Accounted  BY DEF Accounted
<1> QED
  BY <1>1, <1>2, <1>3, OmpInvariance, AccountOfTheTasks, StraightTasksPass, PTL DEF OmpSpec

\* So they find the next order too.
THEOREM RegularTasksFindNext == RegularStart /\ OmpSpec => []DrainFindsNext
<1>1. Straight /\ OmpIInv /\ Account /\ Passed => DrainFindsNext  BY PassedFinds
<1> QED  BY <1>1, RegularStartStraight, AccountOfTheTasks, StraightTasksPass, PTL

-----------------------------------------------------------------------------
(* The bounds of the type invariant. *)

\* An item whose order is that of an end marker or of the stream, and which has been
\* through fewer rounds than its value needs.  The orders of values are in Numbered.
Fits(item) ==
  /\ Empty(item) => item.order \in -1 .. conf.length
  /\ item.rounds # 0 =>
       /\ ~Empty(item) /\ \E x \in Threads : kind(x) = "iterate"
       /\ item.rounds \in 1 .. conf.need[item.value[1]] - 1

AllFit(s) == \A k \in DOMAIN s : Fits(s[k])
HandFits(th) == \A k \in DOMAIN out[th] : Fits(out[th][k].item)

\* What a thread says of its own variables.
OwnBounds(th) ==
  /\ HandFits(th) /\ AllFit(held[th].elements)
  /\ ~OrderingLoop(th) => held[th].current = 0
  /\ reducer[th].remaining \in Nat

Bounded ==
  /\ \A q \in Queues : Len(queue[q]) <= conf.size /\ AllFit(queue[q])
  /\ \A th \in Threads : OwnBounds(th)

\* The results of the predicate of an iteration.
NeedsRounds ==
  (\E x \in Threads : kind(x) = "iterate") => conf.need \in [1 .. conf.length -> 1 .. MaxRounds]

\* What fits goes on to.
LEMMA FitsStays ==
  ASSUME conf' = conf
  PROVE  /\ \A item : Fits(item)' <=> Fits(item)
         /\ \A s : AllFit(s)' <=> AllFit(s)
         /\ NeedsRounds' <=> NeedsRounds
<1>1. \A item : Fits(item)' <=> Fits(item)  BY ItemsStay, RolesStay DEF Fits
<1>2. \A s : AllFit(s)' <=> AllFit(s)  BY <1>1 DEF AllFit
<1>3. NeedsRounds' <=> NeedsRounds  BY RolesStay DEF NeedsRounds
<1> QED  BY <1>1, <1>2, <1>3

\* A new end marker fits.
LEMMA EmptyFits ==
  ASSUME NEW o \in -1 .. conf.length
  PROVE  Fits(Item(NoValue, o))
BY DEF Fits, Item, Empty

LEMMA EndFits ==
  ASSUME Typed
  PROVE  Fits(End) /\ Fits(Item(NoValue, 0))
<1>1. -1 \in -1 .. conf.length /\ 0 \in -1 .. conf.length  BY DEF Typed
<1> QED  BY <1>1, EmptyFits DEF End

\* What a thread finds in its queue.
LEMMA PoppedFits ==
  ASSUME Typed, Bounded, conf' = conf, NEW th, NEW item, Takes(th, item),
         input_queue(th) \in Queues
  PROVE  Fits(item) /\ item \in Items
<1>1. /\ item \in Items
      /\ \E j \in DOMAIN queue[input_queue(th)] : item = queue[input_queue(th)][j]
  BY TakeKeepsQueue
<1> QED  BY <1>1 DEF Bounded, AllFit

-----------------------------------------------------------------------------
(* What a step of a thread other than a push or a call does to the bounds. *)

Shortens(th) == queue' = queue \/ (input_queue(th) \in Queues /\ \E item : Takes(th, item))

Offers(th) ==
  /\ Frame(th) /\ Shortens(th)
  /\ \A t \in Threads \ {th} : held'[t] = held[t]
  /\ reducer' = reducer
  /\ \A k \in DOMAIN out'[th] : Fits(out'[th][k].item)
  /\ AllFit(held'[th].elements)
  /\ ~OrderingLoop(th) => held'[th].current = held[th].current

\* Shorter queues and the new messages keep them.
LEMMA OffersKeeps ==
  ASSUME Typed, Bounded, NEW th \in Threads, Offers(th)
  PROVE  Bounded'
<1>1. /\ conf' = conf /\ Threads' = Threads /\ Queues' = Queues
      /\ \A t : OrderingLoop(t)' <=> OrderingLoop(t)
  BY RolesStay, AccountStays DEF Offers, Frame, Queues
<1>2. \A s : AllFit(s)' <=> AllFit(s)  BY <1>1, FitsStays
<1>3. ASSUME NEW q \in Queues PROVE Len(queue'[q]) <= conf.size /\ AllFit(queue'[q])
  <2>1. CASE queue' = queue  BY <2>1 DEF Bounded
  <2>2. CASE input_queue(th) \in Queues /\ \E item : Takes(th, item)
    <3>1. PICK item : Takes(th, item)  BY <2>2
    <3>2. \A k \in DOMAIN queue'[q] : \E j \in DOMAIN queue[q] : queue'[q][k] = queue[q][j]
      BY <1>1, <2>2, <3>1, TakeKeepsQueue
    <3>3. AllFit(queue'[q])  BY <3>2 DEF Bounded, AllFit
    <3>4. /\ queue \in [Queues -> Seq(Items)] /\ queue[input_queue(th)] # <<>>
          /\ queue' = [queue EXCEPT ![input_queue(th)] = Tail(@)]
      BY <3>1 DEF Takes, Typed
    <3>5. CASE q # input_queue(th)  BY <3>3, <3>4, <3>5 DEF Bounded
    <3>6. CASE q = input_queue(th)
      <4>1. queue[q] \in Seq(Items) /\ queue[q] # <<>> /\ queue'[q] = Tail(queue[q])
        BY <3>4, <3>6
      <4>2. Len(queue'[q]) = Len(queue[q]) - 1 /\ Len(queue[q]) \in Nat  BY <4>1, TailOf
      <4>3. Len(queue[q]) <= conf.size /\ conf.size \in Nat  BY DEF Bounded, Typed
      <4> QED  BY <3>3, <4>2, <4>3
    <3> QED  BY <3>5, <3>6
  <2> QED  BY <2>1, <2>2 DEF Offers, Shortens
<1>4. ASSUME NEW t \in Threads PROVE OwnBounds(t)'
  <2>1. OwnBounds(t)  BY DEF Bounded
  <2>2. \A k \in DOMAIN out'[t] : Fits(out'[t][k].item)
    BY <2>1 DEF Offers, Frame, OwnBounds, HandFits
  <2>3. HandFits(t)'  BY <1>1, <2>2, FitsStays DEF HandFits
  <2>4. AllFit(held'[t].elements)  BY <2>1 DEF Offers, OwnBounds
  <2>5. AllFit(held[t].elements)'  BY <1>2, <2>4
  <2>6. ~OrderingLoop(t) => held'[t].current = 0  BY <2>1 DEF Offers, OwnBounds
  <2>7. reducer'[t].remaining \in Nat  BY <2>1 DEF Offers, OwnBounds
  <2> QED  BY <1>1, <2>3, <2>5, <2>6, <2>7 DEF OwnBounds
<1>5. \A q \in Queues' : (Len(queue[q]) <= conf.size /\ AllFit(queue[q]))'
  BY <1>1, <1>2, <1>3
<1> QED  BY <1>1, <1>4, <1>5 DEF Bounded

\* A thread that is no ordering loop hands on one item at most.
LEMMA OffersOne ==
  ASSUME Typed, Bounded, NEW th \in Threads, Frame(th), held' = held, reducer' = reducer,
         Shortens(th), NEW l, NEW msgs, Then(th, l, msgs),
         msgs = <<>> \/ \E m : msgs = <<m>> /\ Fits(m.item)
  PROVE  Offers(th)
<1>1. out'[th] = msgs  BY DEF Then, Typed
<1>2. \A k \in DOMAIN msgs : Fits(msgs[k].item)
  <2>1. CASE msgs = <<>>  BY <2>1
  <2>2. ASSUME NEW m, msgs = <<m>>, Fits(m.item) PROVE \A k \in DOMAIN msgs : Fits(msgs[k].item)
    <3>1. DOMAIN msgs = {1} /\ msgs[1] = m  BY <2>2
    <3> QED  BY <2>2, <3>1
  <2> QED  BY <2>1, <2>2
<1>3. AllFit(held'[th].elements)  BY DEF Bounded, OwnBounds
<1> QED  BY <1>1, <1>2, <1>3 DEF Offers

\* The same behind a pop.
LEMMA PopOffers ==
  ASSUME Typed, Orders, Bounded, NEW th \in Threads, Frame(th), held' = held, reducer' = reducer,
         NEW item, Pops(th, item), input_queue(th) \in Queues, NEW l, NEW msgs, Then(th, l, msgs),
         msgs = <<>> \/ \E m : msgs = <<m>> /\ (Fits(item) => Fits(m.item))
  PROVE  Offers(th)
<1>1. conf' = conf /\ Takes(th, item)  BY PopsTakes DEF Frame
<1>2. Fits(item)  BY <1>1, PoppedFits
<1>3. Shortens(th)  BY <1>1 DEF Shortens
<1> QED  BY <1>2, <1>3, OffersOne

-----------------------------------------------------------------------------
(* The actions, one by one. *)

\* Stages, sinks and hosts.
LEMMA StageOffers ==
  ASSUME Typed, Orders, Wired, Bounded, NEW th \in Threads, Frame(th), Stage(th)
  PROVE  Offers(th)
<1>1. PICK item : /\ Pops(th, item)
                  /\ \/ ~Empty(item) /\ Then(th, "loop", <<Msg(output_queue(th), item)>>)
                     \/ Empty(item) /\ Then(th, "last", <<Msg(output_queue(th), End)>>)
  BY DEF Stage
<1>2. held' = held /\ reducer' = reducer /\ kind(th) = "stage"  BY DEF Stage
<1>3. input_queue(th) \in Queues  BY <1>2 DEF Wired, Connected, OnlyWaits, IsHost
<1>4. Msg(output_queue(th), item).item = item /\ Msg(output_queue(th), End).item = End
  BY DEF Msg
<1> QED  BY <1>1, <1>2, <1>3, <1>4, EndFits, PopOffers

LEMMA ConsumeUnorderedOffers ==
  ASSUME Typed, Orders, Wired, Bounded, NEW th \in Threads, Frame(th), ConsumeUnordered(th)
  PROVE  Offers(th)
<1>1. PICK item : /\ Pops(th, item)
                  /\ \/ ~Empty(item) /\ Then(th, "loop", <<Msg(User, item)>>)
                     \/ Empty(item) /\ Then(th, "last", <<>>)
  BY DEF ConsumeUnordered
<1>2. held' = held /\ reducer' = reducer /\ kind(th) = "consume"  BY DEF ConsumeUnordered
<1>3. input_queue(th) \in Queues  BY <1>2 DEF Wired, Connected, OnlyWaits, IsHost
<1>4. Msg(User, item).item = item  BY DEF Msg
<1> QED  BY <1>1, <1>2, <1>3, <1>4, PopOffers

LEMMA FarmSinkOffers ==
  ASSUME Typed, Orders, Wired, Bounded, NEW th \in Threads, Frame(th), FarmSink(th)
  PROVE  Offers(th)
<1>1. PICK item : /\ Pops(th, item)
                  /\ \/ ~Empty(item) /\ Then(th, "loop", <<Msg(User, item)>>)
                     \/ Empty(item) /\ Then(th, "last", <<Msg(input_queue(th), item)>>)
  BY DEF FarmSink
<1>2. held' = held /\ reducer' = reducer /\ kind(th) = "farm_sink"  BY DEF FarmSink
<1>3. input_queue(th) \in Queues  BY <1>2 DEF Wired, Connected, OnlyWaits, IsHost
<1>4. Msg(User, item).item = item /\ Msg(input_queue(th), item).item = item  BY DEF Msg
<1> QED  BY <1>1, <1>2, <1>3, <1>4, PopOffers

LEMMA HostWorkOffers ==
  ASSUME Typed, Orders, Wired, InPlace, Bounded, NEW th \in Threads, Frame(th), HostWork(th)
  PROVE  Offers(th)
<1>1. PICK item : /\ Pops(th, item)
                  /\ \/ Then(th, "loop", <<Msg(output_queue(th), item)>>)
                     \/ Then(th, "loop", <<>>)
                     \/ Then(th, "join", <<Msg(output_queue(th), End)>>)
                     \/ Then(th, "join", <<>>)
  BY DEF HostWork
<1>2. held' = held /\ reducer' = reducer /\ IsHost(th) /\ pc[th] = "loop"  BY DEF HostWork
<1>3. input_queue(th) \in Queues
  BY <1>2 DEF Wired, Connected, OnlyWaits, IsHost, InPlace, PlaceOf
<1>4. Msg(output_queue(th), item).item = item /\ Msg(output_queue(th), End).item = End
  BY DEF Msg
<1> QED  BY <1>1, <1>2, <1>3, <1>4, EndFits, PopOffers

\* There are fewer kept elements before one than elements.
LEMMA RankBelow ==
  ASSUME Straight, conf.length \in Nat, NEW e \in Nat \ {0}
  PROVE  Rank(e) \in Nat /\ Rank(e) <= e - 1
<1> DEFINE S == {y \in conf.keep : y < e}
<1>1. S \subseteq 1 .. e - 1  BY DEF Straight
<1>2. IsFiniteSet(1 .. e - 1) /\ Cardinality(1 .. e - 1) = e - 1
  <2> DEFINE m == e - 1
  <2>1. 1 \in Int /\ m \in Int /\ (IF 1 > m THEN 0 ELSE m - 1 + 1) = m  OBVIOUS
  <2> HIDE DEF m
  <2>2. IsFiniteSet(1 .. m) /\ Cardinality(1 .. m) = m  BY <2>1, FS_Interval
  <2> QED  BY <2>2 DEF m
<1> HIDE DEF S
<1>3. Cardinality(S) <= e - 1 /\ Cardinality(S) \in Nat
  BY <1>1, <1>2, FS_Subset, FS_CardinalityType
<1> QED  BY <1>3 DEF Rank, S

\* The order of a value is within the stream.
LEMMA ValueOrder ==
  ASSUME Straight, Typed, Account, NEW q, NEW item, InSeries(produced, q, item)
  PROVE  item.order \in -1 .. conf.length /\ Element(item) \in 1 .. conf.length
<1>1. Element(item) \in 1 .. produced /\ item.order = Number(Late(q), Element(item))
  BY DEF InSeries
<1>2. produced \in Nat /\ produced <= conf.length /\ conf.length \in Nat
  BY DEF Typed, Account, Ends
<1>3. \A e \in 1 .. conf.length : Rank(e) \in Nat /\ Rank(e) <= e - 1
  BY <1>2, RankBelow
<1> QED  BY <1>1, <1>2, <1>3 DEF Number

LEMMA FilterOffers ==
  ASSUME Straight, Typed, Orders, Wired, Account, Bounded, NEW th \in Threads, Frame(th),
         Filter(th)
  PROVE  Offers(th)
<1>1. PICK item :
        /\ Pops(th, item)
        /\ \/ Then(th, "loop", <<Msg(output_queue(th), item)>>)
           \/ /\ ~Empty(item)
              /\ Then(th, "loop", <<Msg(output_queue(th), Item(NoValue, item.order))>>)
           \/ Then(th, "last", <<Msg(output_queue(th), End)>>)
  BY DEF Filter
<1>2. held' = held /\ reducer' = reducer /\ kind(th) = "filter"  BY DEF Filter
<1>3. input_queue(th) \in Queues  BY <1>2 DEF Wired, Connected, OnlyWaits, IsHost
<1>4. /\ Msg(output_queue(th), item).item = item /\ Msg(output_queue(th), End).item = End
      /\ Msg(output_queue(th), Item(NoValue, item.order)).item = Item(NoValue, item.order)
  BY DEF Msg
<1>5. ~Empty(item) => Fits(Item(NoValue, item.order))
  <2>1. Takes(th, item) /\ conf' = conf  BY <1>1, <1>3, PopsTakes DEF Frame
  <2>2. IsMarker(input_queue(th), item) <=> Empty(item)  BY <1>2, <1>3, EmptyIsMarker
  <2>3. ~Empty(item) => InSeries(produced, input_queue(th), item)
    BY <1>3, <2>1, <2>2, InTaken
  <2>4. ~Empty(item) => item.order \in -1 .. conf.length  BY <2>3, ValueOrder
  <2> QED  BY <2>4, EmptyFits
<1> QED  BY <1>1, <1>2, <1>3, <1>4, <1>5, EndFits, PopOffers

\* The generator, and threads that leave their loops.
LEMMA GenerateOffers ==
  ASSUME Typed, Bounded, Account, NEW th \in Threads, Frame(th), Generate(th)
  PROVE  Offers(th)
<1>1. \/ Then(th, "loop", <<Msg(output_queue(th), Item(<<produced + 1>>, produced))>>)
      \/ Then(th, "last", <<Msg(output_queue(th), Item(NoValue, produced))>>)
  BY DEF Generate
<1>2. held' = held /\ reducer' = reducer /\ Shortens(th)  BY DEF Generate, Shortens
<1>3. produced \in -1 .. conf.length  BY DEF Typed, Account, Ends
<1>4. Fits(Item(<<produced + 1>>, produced)) /\ Fits(Item(NoValue, produced))
  BY <1>3, EmptyFits DEF Fits, Item, Empty, NoValue
<1>5. \A item : Msg(output_queue(th), item).item = item  BY DEF Msg
<1> QED  BY <1>1, <1>2, <1>4, <1>5, OffersOne

LEMMA LeavingOffers ==
  ASSUME Typed, Bounded, NEW th \in Threads, Frame(th),
         \/ FarmEnd(th) \/ ContextEnd(th) \/ DrainEnd(th) \/ IterateTest(th)
  PROVE  Offers(th)
<1>1. held' = held /\ reducer' = reducer /\ Shortens(th)
  BY DEF FarmEnd, ContextEnd, DrainEnd, IterateTest, Shortens
<1>2. \E l, msgs : /\ Then(th, l, msgs)
                   /\ \/ msgs = <<>> \/ msgs = <<Msg(output_queue(th), End)>>
                      \/ msgs = <<Msg(FarmInput(th), Item(NoValue, 0))>>
  BY DEF FarmEnd, ContextEnd, DrainEnd, IterateTest, EndOutput, PutBack
<1>3. \A q, item : Msg(q, item).item = item  BY DEF Msg
<1>4. PICK l, msgs : /\ Then(th, l, msgs)
                     /\ msgs = <<>> \/ \E m : msgs = <<m>> /\ Fits(m.item)
  BY <1>2, <1>3, EndFits
<1> QED  BY <1>1, <1>4, OffersOne

LEMMA FarmCountOffers ==
  ASSUME Typed, Bounded, NEW th \in Threads, Frame(th), FarmCount(th)
  PROVE  Offers(th)
<1>1. held' = held /\ reducer' = reducer /\ Shortens(th) /\ out' = out
  BY DEF FarmCount, Shortens
<1> QED  BY <1>1 DEF Offers, Bounded, OwnBounds, HandFits

-----------------------------------------------------------------------------
(* Iterations. *)

\* A value that goes round again has fewer rounds behind it than it needs.
LEMMA IteratedFits ==
  ASSUME Straight, Typed, Account, NeedsRounds, MaxRounds \in Nat,
         NEW th \in Threads, kind(th) = "iterate", NEW q, NEW item \in Items, Fits(item),
         ~Empty(item), InSeries(produced, q, item)
  PROVE  Fits(Iterated(th, item).item)
<1> DEFINE v == item.value
           e == item.value[1]
           n == conf.need[e]
           one == [value |-> v, order |-> item.order, rounds |-> item.rounds + 1]
           zero == [value |-> v, order |-> item.order, rounds |-> 0]
<1>1. e \in 1 .. conf.length  BY ValueOrder DEF Element
<1>2. n \in 1 .. MaxRounds  BY <1>1 DEF NeedsRounds
<1>3. item.rounds \in 0 .. n - 1  BY <1>2 DEF Fits, Items
<1>4. [item EXCEPT !.rounds = @ + 1] = one /\ [one EXCEPT !.rounds = 0] = zero
  BY DEF Items
<1>5. one.value = v /\ one.rounds = item.rounds + 1 /\ zero.value = v /\ zero.rounds = 0
  OBVIOUS
<1> HIDE DEF one, zero
<1>6. Iterated(th, item) = IF one.rounds = conf.need[one.value[1]]
                           THEN Msg(output_queue(th), zero) ELSE Msg(input_queue(th), one)
  BY <1>4 DEF Iterated
<1>7. Iterated(th, item).item = IF item.rounds + 1 = n THEN zero ELSE one
  BY <1>5, <1>6 DEF Msg
<1>8. Fits(zero)  BY <1>5 DEF Fits, Empty
<1>9. item.rounds + 1 # n => Fits(one)
  <2>1. item.rounds + 1 # n => item.rounds + 1 \in 1 .. n - 1  BY <1>2, <1>3
  <2> QED  BY <1>5, <2>1 DEF Fits, Empty
<1> QED  BY <1>7, <1>8, <1>9

LEMMA IterateOffers ==
  ASSUME Straight, Typed, Orders, Wired, Account, Bounded, NeedsRounds, MaxRounds \in Nat,
         NEW th \in Threads, Frame(th), Iterate(th)
  PROVE  Offers(th)
<1>1. PICK item : /\ Pops(th, item)
                  /\ \/ ~Empty(item) /\ Then(th, "loop", <<Iterated(th, item)>>)
                     \/ Empty(item) /\ Then(th, "again", <<>>)
  BY DEF Iterate
<1>2. held' = held /\ reducer' = reducer /\ kind(th) = "iterate"  BY DEF Iterate
<1>3. input_queue(th) \in Queues  BY <1>2 DEF Wired, Connected, OnlyWaits, IsHost
<1>4. Takes(th, item) /\ conf' = conf  BY <1>1, <1>3, PopsTakes DEF Frame
<1>5. (IsMarker(input_queue(th), item) <=> Empty(item)) /\ item \in Items
  BY <1>2, <1>3, <1>4, EmptyIsMarker, PoppedFits
<1>6. ~Empty(item) => InSeries(produced, input_queue(th), item)
  BY <1>3, <1>4, <1>5, InTaken
<1>7. ~Empty(item) => (Fits(item) => Fits(Iterated(th, item).item))
  BY <1>2, <1>5, <1>6, IteratedFits
<1> QED  BY <1>1, <1>2, <1>3, <1>7, PopOffers

LEMMA IterateAgainOffers ==
  ASSUME Straight, Typed, Orders, Wired, InPlace, Account, Bounded, NeedsRounds,
         MaxRounds \in Nat, NEW th \in Threads, Frame(th), IterateAgain(th)
  PROVE  Offers(th)
<1>1. PICK item \in ToSet(queue[input_queue(th)]) :
         /\ item = Head(queue[input_queue(th)]) /\ ~Empty(item)
         /\ queue' = [queue EXCEPT ![input_queue(th)] = Tail(@)]
         /\ Then(th, "again", <<Iterated(th, item)>>)
  BY DEF IterateAgain
<1>2. held' = held /\ reducer' = reducer /\ kind(th) = "iterate"
  BY DEF IterateAgain, InPlace, PlaceOf
<1>3. input_queue(th) \in Queues  BY <1>2 DEF Wired, Connected, OnlyWaits, IsHost
<1>4. Takes(th, item) /\ conf' = conf  BY <1>1 DEF Frame, Takes, ToSet
<1>5. (IsMarker(input_queue(th), item) <=> Empty(item)) /\ item \in Items /\ Fits(item)
  BY <1>2, <1>3, <1>4, EmptyIsMarker, PoppedFits
<1>6. InSeries(produced, input_queue(th), item)  BY <1>1, <1>3, <1>4, <1>5, InTaken
<1>7. Fits(Iterated(th, item).item)  BY <1>1, <1>2, <1>5, <1>6, IteratedFits
<1>8. Shortens(th)  BY <1>3, <1>4 DEF Shortens
<1> QED  BY <1>1, <1>2, <1>7, <1>8, OffersOne

-----------------------------------------------------------------------------
(* Ordering loops. *)

\* The values among two items at most keep their rounds.
LEMMA RenumberedFits ==
  ASSUME NEW given \in Seq(Items), Len(given) \in 0 .. 2, NEW n \in Nat, AllFit(given)
  PROVE  AllFit(Renumbered(given, n))
<1> DEFINE V == ValuesOf(given)
           T(x, k) == [x EXCEPT !.order = n + k - 1]
<1>1. Renumbered(given, n) = [k \in DOMAIN V |-> T(V[k], k)]  BY DEF Renumbered, ValuesOf
<1>2. ASSUME NEW x \in Items, ~Empty(x), Fits(x), NEW k PROVE Fits(T(x, k))
  <2>1. T(x, k).value = x.value /\ T(x, k).rounds = x.rounds  BY DEF Items
  <2> QED  BY <1>2, <2>1 DEF Fits, Empty
<1>3. \A j \in DOMAIN given : given[j] \in Items /\ Fits(given[j])  BY DEF AllFit
<1>4. \A k \in DOMAIN V : V[k] \in Items /\ ~Empty(V[k]) /\ Fits(V[k])
  <2>1. \/ V = <<>>
        \/ \E x \in Items : V = <<x>> /\ ~Empty(x) /\ Fits(x)
        \/ \E x, y \in Items : V = <<x, y>> /\ ~Empty(x) /\ ~Empty(y) /\ Fits(x) /\ Fits(y)
    <3>1. DOMAIN given = 1 .. Len(given)  OBVIOUS
    <3> HIDE DEF V
    <3>2. V = CASE Len(given) = 0 -> <<>>
                [] Len(given) = 1 -> IF Empty(given[1]) THEN <<>> ELSE <<given[1]>>
                [] OTHER -> IF Empty(given[1])
                            THEN IF Empty(given[2]) THEN <<>> ELSE <<given[2]>>
                            ELSE IF Empty(given[2]) THEN <<given[1]>>
                                                    ELSE <<given[1], given[2]>>
      BY ValuesOfTwo DEF V
    <3>3. Len(given) = 0 \/ Len(given) = 1 \/ Len(given) = 2  OBVIOUS
    <3>4. CASE Len(given) = 0  BY <3>2, <3>4
    <3>5. CASE Len(given) = 1
      <4>1. given[1] \in Items /\ Fits(given[1])  BY <1>3, <3>1, <3>5
      <4> QED  BY <3>2, <3>5, <4>1
    <3>6. CASE Len(given) = 2
      <4>1. given[1] \in Items /\ Fits(given[1]) /\ given[2] \in Items /\ Fits(given[2])
        BY <1>3, <3>1, <3>6
      <4> QED  BY <3>2, <3>6, <4>1
    <3> QED  BY <3>3, <3>4, <3>5, <3>6
  <2> HIDE DEF V
  <2>2. CASE V = <<>>  BY <2>2
  <2>3. ASSUME NEW x \in Items, V = <<x>>, ~Empty(x), Fits(x)
        PROVE  \A k \in DOMAIN V : V[k] \in Items /\ ~Empty(V[k]) /\ Fits(V[k])
    <3>1. DOMAIN V = {1} /\ V[1] = x  BY <2>3
    <3> QED  BY <2>3, <3>1
  <2>4. ASSUME NEW x \in Items, NEW y \in Items, V = <<x, y>>, ~Empty(x), ~Empty(y), Fits(x), Fits(y)
        PROVE  \A k \in DOMAIN V : V[k] \in Items /\ ~Empty(V[k]) /\ Fits(V[k])
    <3>1. DOMAIN V = {1, 2} /\ V[1] = x /\ V[2] = y  BY <2>4
    <3> QED  BY <2>4, <3>1
  <2> QED  BY <2>1, <2>2, <2>3, <2>4
<1> HIDE DEF V, T
<1>5. \A k \in DOMAIN V : Fits(T(V[k], k))  BY <1>2, <1>4
<1> QED  BY <1>1, <1>5 DEF AllFit

\* What an ordering loop has taken and kept fits, and so does what it hands on.
LEMMA ReleaseOffers ==
  ASSUME Typed, Wired, Bounded, NEW th \in Threads, Frame(th), Shortens(th), reducer' = reducer,
         OrderingLoop(th), NEW s, NEW n, NEW r, NEW l, Splits(s, n, r), AllFit(s),
         Release(th, r, l)
  PROVE  Offers(th)
<1>1. /\ r.given \in Seq(Items) /\ Len(r.given) \in 0 .. 2 /\ r.held \in HeldTypes
      /\ AllFit(r.given) /\ AllFit(r.held.elements)
  BY DEF Splits, AllFit
<1> DEFINE kept == Renumbered(r.given, r.held.order)
<1>2. AllFit(kept)  BY <1>1, RenumberedFits DEF HeldTypes
<1>3. held \in [Threads -> HeldTypes]  BY DEF Typed, HeldTypes
<1>4. \A q, item : Msg(q, item).item = item  BY DEF Msg
<1>5. CASE /\ Then(th, l, Calls(r.given))
           /\ held' = [held EXCEPT ![th] = r.held]
  <2>1. out'[th] = Calls(r.given)  BY <1>5 DEF Then, Typed
  <2>2. \A k \in DOMAIN out'[th] : Fits(out'[th][k].item)
    BY <1>1, <1>4, <2>1 DEF Calls, AllFit
  <2>3. held'[th] = r.held /\ \A t \in Threads \ {th} : held'[t] = held[t]
    BY <1>3, <1>5
  <2> QED  BY <1>1, <2>2, <2>3 DEF Offers
<1> HIDE DEF kept
<1>6. CASE /\ Then(th, l, [k \in DOMAIN kept |-> Msg(output_queue(th), kept[k])])
           /\ held' = [held EXCEPT ![th] = [r.held EXCEPT !.order = @ + Len(kept)]]
  <2>1. out'[th] = [k \in DOMAIN kept |-> Msg(output_queue(th), kept[k])]
    BY <1>6 DEF Then, Typed
  <2>2. \A k \in DOMAIN out'[th] : Fits(out'[th][k].item)
    BY <1>2, <1>4, <2>1 DEF AllFit
  <2>3. /\ held'[th].elements = r.held.elements
        /\ \A t \in Threads \ {th} : held'[t] = held[t]
    <3>1. held'[th] = [r.held EXCEPT !.order = @ + Len(kept)]  BY <1>3, <1>6
    <3> QED  BY <1>1, <1>3, <1>6, <3>1 DEF HeldTypes
  <2> QED  BY <1>1, <2>2, <2>3 DEF Offers
<1> QED  BY <1>5, <1>6 DEF Release, kept

LEMMA OrderOffers ==
  ASSUME Typed, Orders, Wired, Account, Bounded, NEW th \in Threads, Frame(th), Order(th)
  PROVE  Offers(th)
<1>1. PICK item :
        /\ Pops(th, item)
        /\ \/ ~EndsOrdering(th, item) /\ Release(th, ReleaseWith(held[th], item), "loop")
           \/ EndsOrdering(th, item) /\ Then(th, "drain", <<>>) /\ held' = held
  BY DEF Order
<1>2. OrderingLoop(th) /\ reducer' = reducer /\ held[th] \in HeldTypes
  BY DEF Order, Typed, HeldTypes
<1>3. /\ input_queue(th) \in Queues
      /\ (IsMarker(input_queue(th), item) <=> EndsOrdering(th, item))
  BY <1>2, OrderingEnds
<1>4. Takes(th, item) /\ conf' = conf  BY <1>1, <1>3, PopsTakes DEF Frame
<1>5. item \in Items /\ Fits(item)  BY <1>3, <1>4, PoppedFits
<1>6. CASE EndsOrdering(th, item) /\ Then(th, "drain", <<>>) /\ held' = held
  BY <1>1, <1>2, <1>3, <1>6, PopOffers
<1>7. CASE ~EndsOrdering(th, item) /\ Release(th, ReleaseWith(held[th], item), "loop")
  <2> DEFINE h == held[th]
             s == Append(h.elements, item)
  <2>1. Element(item) \in QueuedIn(th)  BY <1>3, <1>4, <1>7, InTaken
  <2>2. KeptBack(th) \cap QueuedIn(th) = {} /\ OnceIn(h.elements)  BY OwnBefore
  <2>3. KeptBack(th) = Stands(h.elements)  BY DEF KeptBack
  <2>4. Splits(s, h.current, ReleaseWith(h, item))
    BY <1>2, <1>5, <2>1, <2>2, <2>3, ReleaseWithSplits
  <2>5. AllFit(s)
    <3>1. h.elements \in Seq(Items) /\ AllFit(h.elements)
      BY <1>2 DEF HeldTypes, Bounded, OwnBounds
    <3>2. \A k \in DOMAIN s : s[k] = item \/ \E j \in DOMAIN h.elements : s[k] = h.elements[j]
      BY <1>5, <3>1, StandsAppend
    <3> QED  BY <1>5, <3>1, <3>2 DEF AllFit
  <2>6. Shortens(th)  BY <1>3, <1>4 DEF Shortens
  <2> HIDE DEF s
  <2>7. PICK n, r : n = h.current /\ r = ReleaseWith(h, item)  OBVIOUS
  <2>8. Splits(s, n, r) /\ Release(th, r, "loop")  BY <1>7, <2>4, <2>7
  <2> QED  BY <1>2, <2>5, <2>6, <2>8, ReleaseOffers
<1> QED  BY <1>1, <1>6, <1>7

\* Behind the end marker, wherever the loop goes on.
LEMMA DrainedOffers ==
  ASSUME Typed, Wired, Account, Bounded, NEW th \in Threads, Frame(th), pc[th] = "drain",
         NEW l, Release(th, ReleaseOne(held[th]), l), queue' = queue, reducer' = reducer
  PROVE  Offers(th)
<1>1. OrderingLoop(th) /\ held[th] \in HeldTypes
  BY DEF Account, Ends, EndsOf, Typed, HeldTypes
<1>2. OnceIn(held[th].elements)  BY DEF Account, Once
<1>3. Splits(held[th].elements, held[th].current, ReleaseOne(held[th]))
  BY <1>1, <1>2, ReleaseOneSplits
<1>4. AllFit(held[th].elements) /\ Shortens(th)  BY DEF Bounded, OwnBounds, Shortens
<1>5. PICK s, n, r : /\ s = held[th].elements /\ n = held[th].current
                     /\ r = ReleaseOne(held[th])
  OBVIOUS
<1>6. Splits(s, n, r) /\ Release(th, r, l) /\ AllFit(s)  BY <1>3, <1>4, <1>5
<1> QED  BY <1>1, <1>4, <1>6, ReleaseOffers

-----------------------------------------------------------------------------
(* Pushes and calls. *)

\* A message leaves a thread: a push waits for room.
LEMMA PushKeepsBounds ==
  ASSUME Typed, Bounded, NEW th \in Threads, Push(th) \/ Consume(th)
  PROVE  Bounded'
<1>1. /\ conf' = conf /\ held' = held /\ reducer' = reducer
      /\ out[th] # <<>> /\ out' = [out EXCEPT ![th] = Tail(@)]
  BY DEF Push, Consume
<1>2. /\ out[th] \in Seq(Messages) /\ \A t \in Threads : t # th => out'[t] = out[t]
      /\ out'[th] = Tail(out[th])
  BY <1>1 DEF Typed, Messages
<1>3. /\ 1 \in DOMAIN out[th] /\ out[th][1] = Head(out[th]) /\ Head(out[th]) \in Messages
      /\ \A k \in DOMAIN Tail(out[th]) : k + 1 \in DOMAIN out[th] /\ Tail(out[th])[k] = out[th][k + 1]
  BY <1>1, <1>2, TailOf
<1>4. \A k \in DOMAIN out[th] : Fits(out[th][k].item)  BY DEF Bounded, OwnBounds, HandFits
<1>5. ASSUME NEW q \in Queues
      PROVE  Len(queue'[q]) <= conf.size /\ AllFit(queue'[q]) /\ DOMAIN queue' = DOMAIN queue
  <2>1. Len(queue[q]) <= conf.size /\ AllFit(queue[q]) /\ queue[q] \in Seq(Items)
    BY DEF Bounded, Typed
  <2>2. CASE Consume(th)  BY <2>1, <2>2 DEF Consume
  <2>3. CASE Push(th)
    <3>1. PICK m : m = Head(out[th])  OBVIOUS
    <3>2. /\ Len(queue[m.to]) < conf.size
          /\ queue' = [queue EXCEPT ![m.to] = Append(@, m.item)]
      BY <2>3, <3>1 DEF Push
    <3>3. m.item \in Items /\ Fits(m.item)  BY <1>3, <1>4, <3>1 DEF Messages
    <3>4. queue \in [Queues -> Seq(Items)] /\ conf.size \in Nat  BY DEF Typed
    <3>5. CASE q = m.to
      <4>1. PICK s : s = queue[q]  OBVIOUS
      <4>2. queue'[q] = Append(s, m.item) /\ s \in Seq(Items) /\ AllFit(s) /\ Len(s) < conf.size
        BY <2>1, <3>2, <3>4, <3>5, <4>1
      <4>3. Len(Append(s, m.item)) = Len(s) + 1 /\ Len(s) \in Nat  BY <3>3, <4>2
      <4>4. AllFit(Append(s, m.item))  BY <3>3, <4>2, StandsAppend DEF AllFit
      <4>5. DOMAIN queue' = DOMAIN queue  BY <3>2
      <4> QED  BY <3>4, <4>2, <4>3, <4>4, <4>5
    <3>6. CASE q # m.to  BY <2>1, <3>2, <3>4, <3>6
    <3> QED  BY <3>5, <3>6
  <2> QED  BY <2>2, <2>3
<1>6. /\ Threads' = Threads /\ Queues' = Queues
      /\ \A t : OrderingLoop(t)' <=> OrderingLoop(t)
      /\ \A s : AllFit(s)' <=> AllFit(s)
      /\ \A item : Fits(item)' <=> Fits(item)
  <2>1. Queues' = Queues
    <3>1. CASE Queues = {}
      <4>1. CASE Consume(th)  BY <4>1 DEF Consume, Queues
      <4>2. CASE Push(th)  BY <4>2 DEF Push, Queues
      <4> QED  BY <4>1, <4>2
    <3>2. CASE Queues # {}  BY <1>5, <3>2 DEF Queues
    <3> QED  BY <3>1, <3>2
  <2> QED  BY <1>1, <2>1, RolesStay, AccountStays, FitsStays
<1>7. ASSUME NEW t \in Threads PROVE OwnBounds(t)'
  <2>1. OwnBounds(t)  BY DEF Bounded
  <2>2. \A k \in DOMAIN out'[t] : Fits(out'[t][k].item)
    <3>1. CASE t = th  BY <1>2, <1>3, <1>4, <3>1
    <3>2. CASE t # th  BY <1>2, <2>1, <3>2 DEF OwnBounds, HandFits
    <3> QED  BY <3>1, <3>2
  <2>3. HandFits(t)'  BY <1>6, <2>2 DEF HandFits
  <2> QED  BY <1>1, <1>6, <2>1, <2>3 DEF OwnBounds
<1>8. \A q \in Queues' : (Len(queue[q]) <= conf.size /\ AllFit(queue[q]))'
  BY <1>1, <1>5, <1>6
<1> QED  BY <1>6, <1>7, <1>8 DEF Bounded

-----------------------------------------------------------------------------
(* The bounds are kept, in a straight pipeline. *)

LEMMA StepKeepsBounds ==
  ASSUME Straight, IInv, Account, Bounded, NeedsRounds, MaxRounds \in Nat,
         NEW th \in Threads, Step(th)
  PROVE  Bounded'
<1>1. Typed /\ Wired /\ InPlace /\ Orders  BY DEF IInv
<1>2. Frame(th)  BY StepFrame
<1>3. ~Reduce(th)  BY DEF Straight, Reduce
<1>4. CASE Push(th) \/ Consume(th)  BY <1>1, <1>4, PushKeepsBounds
<1>5. Drain(th) => Offers(th)  BY <1>1, <1>2, DrainedOffers DEF Drain
<1>6. CASE ~Push(th) /\ ~Consume(th)
  <2>1. \/ Generate(th) \/ Stage(th) \/ HostWork(th) \/ FarmCount(th) \/ FarmEnd(th)
        \/ ContextEnd(th) \/ FarmSink(th) \/ Order(th) \/ Drain(th) \/ DrainEnd(th)
        \/ ConsumeUnordered(th) \/ Filter(th) \/ Iterate(th) \/ IterateTest(th)
        \/ IterateAgain(th)
    BY <1>3, <1>6 DEF Step
  <2>2. Offers(th)
    BY <1>1, <1>2, <1>5, <2>1, GenerateOffers, StageOffers, HostWorkOffers, FarmCountOffers,
       LeavingOffers, FarmSinkOffers, OrderOffers, ConsumeUnorderedOffers, FilterOffers,
       IterateOffers, IterateAgainOffers
  <2> QED  BY <1>1, <2>2, OffersKeeps
<1> QED  BY <1>4, <1>6

LEMMA StutterKeepsBounds ==
  ASSUME UNCHANGED vars
  PROVE  (Bounded' <=> Bounded) /\ (NeedsRounds' <=> NeedsRounds)
<1>1. /\ conf' = conf /\ queue' = queue /\ out' = out /\ held' = held /\ reducer' = reducer
      /\ DOMAIN queue' = DOMAIN queue
  BY DEF vars
<1>2. /\ Threads' = Threads /\ Queues' = Queues
      /\ \A t : OrderingLoop(t)' <=> OrderingLoop(t)
  BY <1>1, RolesStay, AccountStays DEF Queues
<1>3. /\ \A item : Fits(item)' <=> Fits(item)
      /\ \A s : AllFit(s)' <=> AllFit(s)
      /\ NeedsRounds' <=> NeedsRounds
  BY <1>1, FitsStays
<1>4. \A th : OwnBounds(th)' <=> OwnBounds(th)
  <2> TAKE th
  <2>1. HandFits(th)' <=> HandFits(th)  BY <1>1, <1>3 DEF HandFits
  <2>2. AllFit(held[th].elements)' <=> AllFit(held[th].elements)  BY <1>1, <1>3
  <2> QED  BY <1>1, <1>2, <2>1, <2>2 DEF OwnBounds
<1>5. \A q : (Len(queue[q]) <= conf.size /\ AllFit(queue[q]))'
               <=> (Len(queue[q]) <= conf.size /\ AllFit(queue[q]))
  BY <1>1, <1>3
<1> QED  BY <1>2, <1>3, <1>4, <1>5 DEF Bounded

\* A thread of the native back end does not stop between the test and the pop.
Undivided == \A th \in Threads : pc[th] # "drain_pop"

LEMMA NextKeepsBounds ==
  ASSUME Straight, IInv, Account, Bounded, NeedsRounds, Undivided, MaxRounds \in Nat, [Next]_vars
  PROVE  Bounded' /\ NeedsRounds' /\ Undivided'
<1>1. CASE UNCHANGED vars
  <2>1. conf' = conf /\ pc' = pc  BY <1>1 DEF vars
  <2> QED  BY <1>1, <2>1, StutterKeepsBounds, RolesStay DEF Undivided
<1>2. ASSUME NEW th \in Threads, Step(th) PROVE Bounded' /\ NeedsRounds' /\ Undivided'
  <2>1. Frame(th)  BY <1>2, StepFrame
  <2>2. Bounded' /\ NeedsRounds'  BY <1>2, <2>1, StepKeepsBounds, FitsStays DEF Frame
  <2>3. pc \in [Threads -> Labels]  BY DEF IInv, Typed
  <2>4. \/ pc' = pc
        \/ \E l : pc' = [pc EXCEPT ![th] = l] /\ l # "drain_pop"
    <3>1. Push(th) \/ Consume(th) => pc' = pc  BY DEF Push, Consume
    <3>2. Stage(th) \/ ConsumeUnordered(th) \/ FarmSink(th) \/ HostWork(th) \/ Filter(th)
            => \E l \in {"loop", "last", "join"} : pc' = [pc EXCEPT ![th] = l]
      BY DEF Stage, ConsumeUnordered, FarmSink, HostWork, Filter, Then
    <3>3. Generate(th) \/ FarmCount(th) \/ FarmEnd(th) \/ ContextEnd(th) \/ DrainEnd(th)
            => \E l \in {"loop", "last", "test"} : pc' = [pc EXCEPT ![th] = l]
      BY DEF Generate, FarmCount, FarmEnd, ContextEnd, DrainEnd, EndOutput, PutBack, Then
    <3>4. Iterate(th) \/ IterateTest(th) \/ IterateAgain(th)
            => \E l \in {"loop", "again", "again_pop", "last"} : pc' = [pc EXCEPT ![th] = l]
      BY DEF Iterate, IterateTest, IterateAgain, EndOutput, Then
    <3>5. Order(th) \/ Drain(th) => \E l \in {"loop", "drain"} : pc' = [pc EXCEPT ![th] = l]
      BY DEF Order, Drain, Release, Then
    <3>6. ~Reduce(th)  BY DEF Straight, Reduce
    <3> QED  BY <1>2, <3>1, <3>2, <3>3, <3>4, <3>5, <3>6 DEF Step
  <2>5. Threads' = Threads  BY <2>1, RolesStay DEF Frame
  <2>6. Undivided'  BY <2>3, <2>4, <2>5 DEF Undivided
  <2> QED  BY <2>2, <2>6
<1>3. Return => UNCHANGED vars  BY DEF Return
<1> QED  BY <1>1, <1>2, <1>3 DEF Next

-----------------------------------------------------------------------------
(* At the start. *)

\* What the predicates of a pipeline with an iteration need.
LEMMA InitNeeds ==
  ASSUME NEW p, IsPipeline(p), InitFor(p)
  PROVE  NeedsRounds
<1> DEFINE Kinds == {s.kind : s \in ToSet(Unfolded(Unfolded(p.stages)))}
           role == [id \in {r.id : r \in Roles(p)} |-> CHOOSE r \in Roles(p) : r.id = id]
           K == IF "filter" \in Kinds THEN SUBSET (1 .. p.length) ELSE {1 .. p.length}
           N == IF "iterate" \in Kinds THEN [1 .. p.length -> 1 .. MaxRounds] ELSE {<<>>}
           X(keep) == SeqPipelineOutput(p.stages, p.length, keep)
<1>1. \E keep \in K : \E need \in N :
        conf = [role |-> role, ordered |-> p.ordered, size |-> p.size,
                length |-> p.length, keep |-> keep, need |-> need, expected |-> X(keep)]
  BY DEF InitFor
<1>2. "iterate" \in Kinds => N = [1 .. p.length -> 1 .. MaxRounds]  OBVIOUS
<1>3. \A r \in Roles(p) : r.kind = "iterate" => "iterate" \in Kinds  BY PipelineIterates
<1> HIDE DEF K, N, X, role, Kinds
<1>4. conf.length = p.length /\ conf.need \in N  BY <1>1
<1>5. Linked(Roles(p), p.ordered)  BY PipelineLinked
<1>6. Carries(Roles(p))  BY <1>5, InitCarries DEF Linked, LinkedThreads
<1>7. \A x \in Threads : kind(x) = "iterate" => \E r \in Roles(p) : r.kind = "iterate"
  BY <1>6, ReadRole
<1> QED  BY <1>2, <1>3, <1>4, <1>7 DEF NeedsRounds

\* Nothing has gone anywhere.
LEMMA InitBounds ==
  ASSUME NEW p, InitFor(p), Straight, Typed
  PROVE  Bounded /\ Undivided
<1>1. /\ \A q \in Queues : queue[q] = <<>>
      /\ \A th \in Threads : /\ out[th] = <<>> /\ pc[th] \in {"join", "loop"}
                             /\ held[th].elements = <<>> /\ held[th].current = 0
  BY DEF InitFor, Queues
<1>2. \A th \in Threads : reducer[th].remaining \in Nat
  <2>1. \A th \in Threads : kind(th) # "reduce"  BY DEF Straight
  <2>2. \A th \in Threads : reducer[th] = EmptyReduce  BY <2>1 DEF InitFor
  <2> QED  BY <2>2 DEF EmptyReduce
<1>3. DOMAIN <<>> = {} /\ Len(<<>>) = 0  OBVIOUS
<1>4. \A q \in Queues : Len(queue[q]) <= conf.size /\ AllFit(queue[q])
  BY <1>1, <1>3 DEF AllFit, Typed
<1>5. \A th \in Threads : OwnBounds(th)
  BY <1>1, <1>2, <1>3 DEF OwnBounds, HandFits, AllFit
<1> QED  BY <1>1, <1>4, <1>5 DEF Bounded, Undivided

-----------------------------------------------------------------------------
(* The type invariant. *)

\* An item that stands for an element, or ends the stream.
LEMMA FitsType ==
  ASSUME Straight, Typed, Account, NeedsRounds, MaxRounds \in Nat, NEW item \in Items, Fits(item),
         NEW q, Empty(item) \/ InSeries(produced, q, item)
  PROVE  ItemType(item)
<1>1. item.order \in -1 .. conf.length
  BY ValueOrder DEF Fits
<1>2. item.rounds \in 0 .. MaxRounds
  <2>1. CASE item.rounds = 0  BY <2>1
  <2>2. CASE item.rounds # 0
    <3> DEFINE e == item.value[1]
    <3>1. /\ ~Empty(item) /\ \E x \in Threads : kind(x) = "iterate"
          /\ item.rounds \in 1 .. conf.need[e] - 1
      BY <2>2 DEF Fits
    <3>2. e \in 1 .. conf.length  BY <3>1, ValueOrder DEF Element
    <3>3. conf.need[e] \in 1 .. MaxRounds  BY <3>1, <3>2 DEF NeedsRounds
    <3> HIDE DEF e
    <3> QED  BY <3>1, <3>3
  <2> QED  BY <2>1, <2>2
<1> QED  BY <1>1, <1>2 DEF ItemType, Items

\* How far an ordering loop can have come.
LEMMA CurrentType ==
  ASSUME Straight, Typed, Account, Bounded, NEW th \in Threads
  PROVE  held[th].current \in 0 .. conf.length
<1>1. produced \in Nat /\ produced <= conf.length /\ conf.length \in Nat
  BY DEF Typed, Account, Ends
<1>2. CASE OrderingLoop(th)
  <2> DEFINE late == Late(input_queue(th))
             e == produced + 1
  <2>1. held[th].current \in Nat /\ held[th].current <= Number(late, e)
    BY <1>2 DEF Account, Released, ReleasedBy
  <2>2. e \in Nat \ {0} /\ e - 1 = produced  BY <1>1
  <2> HIDE DEF late, e
  <2>3. Rank(e) \in Nat /\ Rank(e) <= e - 1  BY <1>1, <2>2, RankBelow
  <2>4. Number(late, e) \in Nat /\ Number(late, e) <= produced
    BY <1>1, <2>2, <2>3 DEF Number
  <2> QED  BY <1>1, <2>1, <2>4
<1>3. CASE ~OrderingLoop(th)  BY <1>1, <1>3 DEF Bounded, OwnBounds
<1> QED  BY <1>2, <1>3

\* No replica is counted twice.
LEMMA CounterType ==
  ASSUME Wired, Typed, Counted, NEW th \in Threads, kind(th) = "replica"
  PROVE  done_threads[FarmOf(th)] \in 0 .. stage(th).n
<1> DEFINE R == Replicas(FarmOf(th))
           S == {t \in R : pc[t] \in {"test", "last"}}
<1>1. IsFiniteSet(R) /\ Cardinality(R) = stage(th).n /\ stage(th).n \in Nat
  BY DEF Wired, FarmQueues, IsReplica
<1>2. done_threads[FarmOf(th)] = Cardinality(S)  BY DEF Counted, IsReplica
<1>3. S \subseteq R  OBVIOUS
<1> HIDE DEF R, S
<1>4. IsFiniteSet(S) /\ Cardinality(S) <= Cardinality(R) /\ Cardinality(S) \in Nat
  BY <1>1, <1>3, FS_Subset, FS_CardinalityType
<1> QED  BY <1>1, <1>2, <1>4

\* So the items in the queues and in the hands of the threads have their types.
LEMMA ItemTypes ==
  ASSUME Straight, IInv, Account, Bounded, NeedsRounds, MaxRounds \in Nat
  PROVE  /\ \A q \in DOMAIN queue :
              Len(queue[q]) <= conf.size /\ \A k \in DOMAIN queue[q] : ItemType(queue[q][k])
         /\ \A th \in Threads : \A k \in DOMAIN out[th] :
              /\ out[th][k].to \in {User} \cup DOMAIN queue
              /\ ItemType(out[th][k].item)
<1>1. Typed  BY DEF IInv
<1>2. ASSUME NEW q \in DOMAIN queue
      PROVE  Len(queue[q]) <= conf.size /\ \A k \in DOMAIN queue[q] : ItemType(queue[q][k])
  <2>1. Len(queue[q]) <= conf.size /\ AllFit(queue[q]) /\ queue[q] \in Seq(Items)
    BY <1>1, <1>2 DEF Bounded, Typed, Queues
  <2>2. ASSUME NEW k \in DOMAIN queue[q] PROVE ItemType(queue[q][k])
    <3> DEFINE item == queue[q][k]
    <3>1. item \in Items /\ Fits(item)  BY <2>1 DEF AllFit
    <3>2. ~Empty(item) => InSeries(produced, q, item)
      BY DEF Account, Numbered, OnQueue, IsMarker, Queues
    <3> HIDE DEF item
    <3>3. ItemType(item)  BY <1>1, <3>1, <3>2, FitsType
    <3> QED  BY <3>3 DEF item
  <2> QED  BY <2>1, <2>2
<1>3. ASSUME NEW th \in Threads, NEW k \in DOMAIN out[th]
      PROVE  /\ out[th][k].to \in {User} \cup DOMAIN queue
             /\ ItemType(out[th][k].item)
  <2>1. out[th] \in Seq(Messages) /\ HandFits(th)
    BY <1>1 DEF Typed, Messages, Bounded, OwnBounds
  <2>2. out[th][k] \in Messages /\ Fits(out[th][k].item)  BY <2>1 DEF HandFits
  <2> DEFINE item == out[th][k].item
             q == Source(th, out[th][k])
  <2>3. ~Empty(item) => InSeries(produced, q, item)
    BY DEF Account, Numbered, InHand, IsEndMsg, IsMarker
  <2>4. item \in Items /\ Fits(item) /\ out[th][k].to \in {User} \cup DOMAIN queue
    BY <2>2 DEF Messages, Queues
  <2> HIDE DEF item, q
  <2>5. ItemType(item)  BY <1>1, <2>3, <2>4, FitsType
  <2> QED  BY <2>4, <2>5 DEF item
<1> QED  BY <1>2, <1>3

LEMMA BoundsType ==
  ASSUME Straight, IInv, Account, Bounded, NeedsRounds, Undivided, MaxRounds \in Nat
  PROVE  TypeOK
<1>1. Typed /\ Wired /\ Counted  BY DEF IInv
<1>2. \A q \in DOMAIN queue :
        Len(queue[q]) <= conf.size /\ \A k \in DOMAIN queue[q] : ItemType(queue[q][k])
  BY ItemTypes
<1>3. \A th \in Threads : \A k \in DOMAIN out[th] :
        /\ out[th][k].to \in {User} \cup DOMAIN queue
        /\ ItemType(out[th][k].item)
  BY ItemTypes
<1>4. ASSUME NEW th \in Threads
      PROVE  /\ pc[th] \in {"loop", "join", "test", "drain", "again", "again_pop", "last"}
             /\ held[th].current \in 0 .. conf.length
             /\ reducer[th].remaining \in Nat
             /\ kind(th) = "replica" => done_threads[FarmOf(th)] \in 0 .. stage(th).n
  BY <1>1, CurrentType, CounterType DEF Typed, Labels, Undivided, Bounded, OwnBounds
<1>5. produced \in 0 .. conf.length  BY <1>1 DEF Typed, Account, Ends
<1> QED  BY <1>2, <1>3, <1>4, <1>5 DEF TypeOK

\* Whatever the regular pipeline: no queue holds more than it has room for, each item
\* has an order and a number of rounds within the stream, no counter of a farm passes
\* the number of its replicas, and no ordering loop passes the end of the stream.
THEOREM RegularTyped == RegularStart /\ Spec => []TypeOK
<1> DEFINE B == Straight /\ IInv /\ Account /\ Bounded /\ NeedsRounds /\ Undivided
<1>1. RegularStart /\ Init => B
  <2> SUFFICES ASSUME RegularStart, Init PROVE B  OBVIOUS
  <2>1. Straight /\ IInv /\ Account  BY RegularStartStraight, InitKeeps, InitAccount
  <2>2. PICK p \in Pipelines : InitFor(p)  BY DEF Init
  <2>3. NeedsRounds  BY <2>2, PipelinesAssumption, InitNeeds
  <2>4. Bounded /\ Undivided  BY <2>1, <2>2, InitBounds DEF IInv
  <2> QED  BY <2>1, <2>3, <2>4
<1>2. B /\ [Next]_vars => B'
  BY MaxRoundsAssumption, NextKeeps, NextKeepsAccount, NextKeepsBounds
<1>3. B => TypeOK  BY MaxRoundsAssumption, BoundsType
<1> QED  BY <1>1, <1>2, <1>3, PTL DEF Spec

-----------------------------------------------------------------------------
(* The team: no more tasks are executed than it has threads. *)

\* What a task has done before it begins.
Untouched(t) == pc[t] = (IF OnlyWaits(t) THEN "join" ELSE "loop") /\ out[t] = <<>>

TeamHolds ==
  /\ inside \subseteq started /\ started \subseteq Tasks
  /\ \A t \in Tasks \ started : Untouched(t)
  /\ BusyThreads <= team.threads

\* The rest of the inductive invariant.
TeamInv ==
  /\ TeamHolds
  /\ IsFiniteSet(Threads) /\ team.threads \in Nat
  /\ \A f \in DOMAIN done_threads : \E t \in Threads : IsReplica(t) /\ FarmOf(t) = f

\* A set of tasks has a number, and a larger set no smaller one.
LEMMA TasksCounted ==
  ASSUME IsFiniteSet(Threads), NEW S \in SUBSET Threads
  PROVE  IsFiniteSet(S) /\ Cardinality(S) \in Nat
BY FS_Subset, FS_CardinalityType

LEMMA BusyFewer ==
  ASSUME IsFiniteSet(Threads), started \subseteq Threads, started' \subseteq Threads,
         (Running \ inside)' \subseteq Running \ inside
  PROVE  BusyThreads' <= BusyThreads
<1>1. Running \ inside \in SUBSET Threads  BY DEF Running
<1>2. IsFiniteSet(Running \ inside)  BY <1>1, TasksCounted
<1> QED  BY <1>2, FS_Subset DEF BusyThreads

\* A step of a task: nobody begins, and who has ended stays so.
LEMMA TaskKeepsTeam ==
  ASSUME OmpIInv, TeamInv, NEW th \in Threads, TaskStep(th)
  PROVE  TeamInv'
<1>1. Frame(th)  BY TaskSettles DEF OmpIInv, Settled, Pushed
<1>2. /\ conf' = conf /\ DOMAIN done_threads' = DOMAIN done_threads
      /\ \A t \in Threads \ {th} : pc'[t] = pc[t] /\ out'[t] = out[t]
      /\ ~Finished(th)
  BY <1>1 DEF Frame
<1>3. /\ Threads' = Threads /\ \A t : IsReplica(t)' <=> IsReplica(t)
      /\ \A t : OnlyWaits(t)' <=> OnlyWaits(t)
  BY <1>2, RolesStay
<1>4. team' = team /\ started' = started /\ inside' = inside /\ th \in started
  BY DEF TaskStep
<1>5. inside \subseteq started /\ started \subseteq Threads /\ IsFiniteSet(Threads)
      /\ team.threads \in Nat /\ BusyThreads <= team.threads
  BY DEF TeamInv, TeamHolds, Tasks
<1>6. \A t \in Tasks' \ started' : Untouched(t)'
  <2>1. \A t \in Threads \ started : t # th /\ Untouched(t)
    BY <1>4 DEF TeamInv, TeamHolds, Tasks
  <2> QED  BY <1>2, <1>3, <1>4, <2>1 DEF Untouched, Tasks
<1>7. Running' \subseteq Running
  <2>1. \A t \in started : Finished(t) => Finished(t)'  BY <1>2, <1>5 DEF Finished
  <2> QED  BY <1>4, <2>1 DEF Running
<1>8. BusyThreads' <= team.threads
  <2>1. (Running \ inside)' \subseteq Running \ inside  BY <1>4, <1>7
  <2>2. BusyThreads' <= BusyThreads  BY <1>4, <1>5, <2>1, BusyFewer
  <2>3. BusyThreads \in Nat /\ BusyThreads' \in Nat
    BY <1>3, <1>4, <1>5, TasksCounted DEF BusyThreads, Running
  <2> QED  BY <1>5, <2>2, <2>3
<1>9. \A f \in DOMAIN done_threads' : \E t \in Threads : IsReplica(t)' /\ FarmOf(t) = f
  BY <1>2, <1>3 DEF TeamInv
<1> QED  BY <1>3, <1>4, <1>5, <1>6, <1>8, <1>9 DEF TeamInv, TeamHolds, Tasks, FarmOf

\* A task begins: on a thread that is free, or on that of a task that waits.
LEMMA BeginKeepsTeam ==
  ASSUME TeamInv, NEW t \in Threads, Begin(t) \/ BeginInside(t)
  PROVE  TeamInv'
<1>1. UNCHANGED vars /\ team' = team /\ started' = started \cup {t} /\ inside' \subseteq inside \cup {t}
      /\ inside \subseteq inside'
  BY DEF Begin, BeginInside
<1>2. conf' = conf /\ pc' = pc /\ out' = out /\ done_threads' = done_threads  BY <1>1 DEF vars
<1>3. /\ Threads' = Threads /\ \A u : IsReplica(u)' <=> IsReplica(u)
      /\ \A u : OnlyWaits(u)' <=> OnlyWaits(u)
  BY <1>2, RolesStay
<1>4. \A u : (Finished(u)' <=> Finished(u)) /\ (Untouched(u)' <=> Untouched(u))
  BY <1>2, <1>3 DEF Finished, Untouched
<1>5. inside \subseteq started /\ started \subseteq Threads /\ IsFiniteSet(Threads)
      /\ team.threads \in Nat /\ BusyThreads <= team.threads
  BY DEF TeamInv, TeamHolds, Tasks
<1>6. inside' \subseteq started' /\ started' \subseteq Threads  BY <1>1, <1>5
      DEF Begin, BeginInside
<1>7. \A u \in Tasks' \ started' : Untouched(u)'
  BY <1>1, <1>3, <1>4 DEF TeamInv, TeamHolds, Tasks
<1>8. Running' \subseteq Running \cup {t}  BY <1>1, <1>4 DEF Running
<1>9. BusyThreads \in Nat /\ BusyThreads' \in Nat
  <2>1. Running \ inside \in SUBSET Threads /\ (Running \ inside)' \in SUBSET Threads
    BY <1>5, <1>6 DEF Running
  <2> QED  BY <1>5, <2>1, TasksCounted DEF BusyThreads
<1>10. BusyThreads' <= team.threads
  <2>1. CASE Begin(t)
    <3> DEFINE B == Running \ inside
    <3>1. BusyThreads < team.threads /\ inside' = inside  BY <2>1 DEF Begin
    <3>2. B \in SUBSET Threads  BY <1>5 DEF Running
    <3>3. IsFiniteSet(B)  BY <1>5, <3>2, TasksCounted
    <3>4. IsFiniteSet(B \cup {t}) /\ Cardinality(B \cup {t}) <= Cardinality(B) + 1
          /\ Cardinality(B) \in Nat
      <4>1. Cardinality(B) \in Nat  BY <3>3, FS_CardinalityType
      <4>2. IsFiniteSet(B \cup {t})
            /\ Cardinality(B \cup {t}) = IF t \in B THEN Cardinality(B) ELSE Cardinality(B) + 1
        BY <3>3, FS_AddElement
      <4> HIDE DEF B
      <4> QED  BY <4>1, <4>2
    <3>5. (Running \ inside)' \in SUBSET (B \cup {t})  BY <1>8, <3>1
    <3>6. Cardinality((Running \ inside)') <= Cardinality(B \cup {t})  BY <3>4, <3>5, FS_Subset
    <3>7. Cardinality(B \cup {t}) \in Nat  BY <3>4, FS_CardinalityType
    <3>8. BusyThreads = Cardinality(B) /\ BusyThreads' = Cardinality((Running \ inside)')
      BY DEF BusyThreads
    <3> HIDE DEF B
    <3> QED  BY <1>5, <1>9, <3>1, <3>4, <3>6, <3>7, <3>8
  <2>2. CASE BeginInside(t)
    <3>1. inside' = inside \cup {t}  BY <2>2 DEF BeginInside
    <3>2. (Running \ inside)' \subseteq Running \ inside  BY <1>8, <3>1
    <3>3. BusyThreads' <= BusyThreads  BY <1>5, <1>6, <3>2, BusyFewer
    <3> QED  BY <1>5, <1>9, <3>3
  <2> QED  BY <2>1, <2>2
<1>11. \A f \in DOMAIN done_threads' : \E u \in Threads : IsReplica(u)' /\ FarmOf(u) = f
  BY <1>2, <1>3 DEF TeamInv
<1> QED  BY <1>1, <1>3, <1>5, <1>6, <1>7, <1>10, <1>11 DEF TeamInv, TeamHolds, Tasks, FarmOf

LEMMA OmpNextKeepsTeam == OmpIInv /\ TeamInv /\ [OmpNext]_omp_vars => TeamInv'
<1> SUFFICES ASSUME OmpIInv, TeamInv, [OmpNext]_omp_vars PROVE TeamInv'  OBVIOUS
<1>1. CASE UNCHANGED omp_vars
  <2>1. UNCHANGED vars /\ team' = team /\ started' = started /\ inside' = inside
    BY <1>1 DEF omp_vars
  <2>2. conf' = conf /\ pc' = pc /\ out' = out /\ done_threads' = done_threads  BY <2>1 DEF vars
  <2>3. /\ Threads' = Threads /\ \A u : IsReplica(u)' <=> IsReplica(u)
        /\ \A u : OnlyWaits(u)' <=> OnlyWaits(u)
    BY <2>2, RolesStay
  <2>4. \A u : (Finished(u)' <=> Finished(u)) /\ (Untouched(u)' <=> Untouched(u))
    BY <2>2, <2>3 DEF Finished, Untouched
  <2>5. BusyThreads' = BusyThreads
    <3>1. Running' = Running  BY <2>1, <2>4 DEF Running
    <3> QED  BY <2>1, <3>1 DEF BusyThreads
  <2>6. TeamHolds'  BY <2>1, <2>3, <2>4, <2>5 DEF TeamInv, TeamHolds, Tasks
  <2> QED  BY <2>1, <2>2, <2>3, <2>6 DEF TeamInv, FarmOf
<1>2. \A t \in Tasks : (Begin(t) \/ BeginInside(t)) => TeamInv'  BY BeginKeepsTeam DEF Tasks
<1>3. \A t \in Tasks : TaskStep(t) => TeamInv'  BY TaskKeepsTeam DEF Tasks
<1>4. OmpReturn => UNCHANGED omp_vars  BY DEF OmpReturn
<1> QED  BY <1>1, <1>2, <1>3, <1>4 DEF OmpNext

LEMMA InitTeam == OmpInit => TeamInv
<1> SUFFICES ASSUME NEW p \in Pipelines, InitFor(p), team = p.team,
                    started = {r.id : r \in {r \in Roles(p) : r.kind = "consume"}}, inside = {}
             PROVE  TeamInv
  BY DEF OmpInit
<1> DEFINE R == Roles(p)
<1>1. IsPipeline(p) /\ IsTeam(p.team)  BY PipelinesAssumption, TeamsAssumption
<1>2. IsFiniteSet(R) /\ \A r, s \in R : (r.kind = "consume" /\ s.kind = "consume") => r = s
  BY <1>1, RolesFinite, OneConsumeRole
<1>3. Linked(R, p.ordered)  BY <1>1, PipelineLinked
<1>4. Carries(R)  BY <1>3, InitCarries DEF Linked, LinkedThreads
<1>5. /\ \A th \in Threads : Untouched(th)
      /\ \A f \in DOMAIN done_threads : \E t \in Threads : IsReplica(t) /\ FarmOf(t) = f
  BY DEF InitFor, Untouched, IsReplica
<1> HIDE DEF R
<1>6. Threads = {r.id : r \in R}  BY <1>4 DEF Carries, Ids
<1>7. IsFiniteSet(Threads)
  <2> DEFINE f == [r \in R |-> r.id]
  <2>1. Threads = {f[r] : r \in R}  BY <1>6
  <2> HIDE DEF f
  <2> QED  BY <1>2, <2>1, ImageFinite
<1>8. started \subseteq Threads  BY <1>6 DEF R
<1>9. BusyThreads <= team.threads /\ team.threads \in Nat
  <2>1. team.threads \in Nat \ {0}  BY <1>1 DEF IsTeam
  <2>2. Running \ inside \in SUBSET started  BY DEF Running
  <2>3. \A x, y \in started : x = y  BY <1>2 DEF R
  <2>4. CASE Running \ inside = {}
    <3>1. BusyThreads = 0  BY <2>4, FS_EmptySet DEF BusyThreads
    <3> QED  BY <2>1, <3>1
  <2>5. CASE Running \ inside # {}
    <3>1. PICK x : x \in Running \ inside  BY <2>5
    <3>2. Running \ inside = {x}  BY <2>2, <2>3, <3>1
    <3>3. BusyThreads = 1  BY <3>2, FS_Singleton DEF BusyThreads
    <3> QED  BY <2>1, <3>3
  <2> QED  BY <2>4, <2>5
<1> QED  BY <1>5, <1>7, <1>8, <1>9 DEF TeamInv, TeamHolds, Tasks

\* Whatever the pipeline and the team: no more tasks hold a thread than the team has,
\* those that begin inside another counted with it, and a task that has not begun has
\* not left the start of its loop and has nothing to hand on.
THEOREM TeamIsEnough == OmpSpec => []TeamHolds
<1>1. TeamInv => TeamHolds  BY DEF TeamInv
<1> QED  BY <1>1, InitTeam, OmpInitKeeps, OmpNextKeeps, OmpNextKeepsTeam, PTL DEF OmpSpec

-----------------------------------------------------------------------------
(* The bounds of the tasks. *)

\* Behind its end marker the ordering task of a filter hands on what it has kept, or
\* an end marker.
LEMMA DrainFilterOffers ==
  ASSUME IInv, Account, Bounded, NEW t \in Threads, FilterEnds(t), DrainFilter(t), Frame(t)
  PROVE  Offers(t)
<1>1. Typed /\ Wired  BY DEF IInv
<1>2. pc[t] = "drain" /\ queue' = queue /\ reducer' = reducer
  BY DEF DrainFilter, FilterEnds
<1>3. \/ Release(t, ReleaseOne(held[t]), "drain_pop")
      \/ held' = held /\ Then(t, "last", <<Msg(output_queue(t), End)>>)
  BY <1>2 DEF DrainFilter
<1>4. CASE Release(t, ReleaseOne(held[t]), "drain_pop")  BY <1>1, <1>2, <1>4, DrainedOffers
<1>5. CASE held' = held /\ Then(t, "last", <<Msg(output_queue(t), End)>>)
  <2>1. Msg(output_queue(t), End).item = End /\ Shortens(t)  BY <1>2 DEF Msg, Shortens
  <2> QED  BY <1>1, <1>2, <1>5, <2>1, EndFits, OffersOne
<1> QED  BY <1>3, <1>4, <1>5

LEMMA OmpNextKeepsBounds ==
  ASSUME Straight, OmpIInv, Account, Bounded, NeedsRounds, MaxRounds \in Nat, [OmpNext]_omp_vars
  PROVE  Bounded' /\ NeedsRounds'
<1>1. UNCHANGED vars => Bounded' /\ NeedsRounds'  BY StutterKeepsBounds
<1>2. (UNCHANGED omp_vars) \/ OmpReturn => UNCHANGED vars  BY DEF omp_vars, OmpReturn
<1>3. \A t \in Tasks : (Begin(t) \/ BeginInside(t)) => UNCHANGED vars  BY DEF Begin, BeginInside
<1>4. ASSUME NEW t \in Tasks, TaskStep(t) PROVE Bounded' /\ NeedsRounds'
  <2>1. t \in Threads /\ IInv /\ FilterEnds(t)  BY DEF Tasks, OmpIInv
  <2>2. Frame(t)  BY <1>4, <2>1, TaskSettles DEF Settled, Pushed
  <2>3. NeedsRounds'  BY <2>2, FitsStays DEF Frame
  <2>4. Step(t) => Bounded'  BY <2>1, StepKeepsBounds
  <2>5. DrainFilter(t) => Bounded'
    BY <2>1, <2>2, DrainFilterOffers, OffersKeeps DEF IInv
  <2> QED  BY <1>4, <2>1, <2>3, <2>4, <2>5, StraightTask
<1> QED  BY <1>1, <1>2, <1>3, <1>4 DEF OmpNext

\* A farm has as many replicas as it is given.
LEMMA FarmTasks ==
  ASSUME Wired, Typed, Counted, TeamInv, NEW f \in DOMAIN done_threads
  PROVE  done_threads[f] <= Cardinality({t \in Tasks : FarmOf(t) = f})
<1> DEFINE S == {t \in Replicas(f) : pc[t] \in {"test", "last"}}
           F == {t \in Tasks : FarmOf(t) = f}
<1>1. PICK r \in Threads : IsReplica(r) /\ FarmOf(r) = f  BY DEF TeamInv
<1>2. done_threads[f] = Cardinality(S)  BY <1>1 DEF Counted
<1>3. S \subseteq F /\ F \subseteq Threads  BY DEF Replicas, Tasks
<1> HIDE DEF S, F
<1>4. IsFiniteSet(F)  BY <1>3, TasksCounted DEF TeamInv
<1> QED  BY <1>2, <1>3, <1>4, FS_Subset DEF F

LEMMA OmpBoundsType ==
  ASSUME Straight, OmpIInv, TeamInv, Account, Bounded, NeedsRounds, MaxRounds \in Nat
  PROVE  OmpTypeOK
<1>1. IInv  BY DEF OmpIInv
<1>2. Typed /\ Wired /\ Counted  BY <1>1 DEF IInv
<1>3. \A q \in DOMAIN queue :
        Len(queue[q]) <= conf.size /\ \A k \in DOMAIN queue[q] : ItemType(queue[q][k])
  BY <1>1, ItemTypes
<1>4. ASSUME NEW t \in Tasks
      PROVE  /\ pc[t] \in {"loop", "join", "test", "drain", "drain_pop", "again", "again_pop", "last"}
             /\ held[t].current \in 0 .. conf.length
             /\ \A k \in DOMAIN out[t] : ItemType(out[t][k].item)
             /\ t \notin started => pc[t] = (IF OnlyWaits(t) THEN "join" ELSE "loop")
                                  /\ out[t] = <<>>
  <2>1. t \in Threads  BY DEF Tasks
  <2>2. pc[t] \in Labels  BY <1>2, <2>1 DEF Typed
  <2>3. t \notin started => Untouched(t)  BY DEF TeamInv, TeamHolds
  <2> QED  BY <1>1, <1>2, <2>1, <2>2, <2>3, ItemTypes, CurrentType DEF Labels, Untouched
<1>5. \A f \in DOMAIN done_threads :
        done_threads[f] <= Cardinality({t \in Tasks : FarmOf(t) = f})
  BY <1>2, FarmTasks
<1>6. produced \in 0 .. conf.length  BY <1>2 DEF Typed, Account, Ends
<1> QED  BY <1>3, <1>4, <1>5, <1>6 DEF OmpTypeOK, TeamInv, TeamHolds

\* The same of the tasks of a regular pipeline, with what TeamHolds says of the team.
THEOREM RegularTasksTyped == RegularStart /\ OmpSpec => []OmpTypeOK
<1> DEFINE B == Straight /\ OmpIInv /\ TeamInv /\ Account /\ Bounded /\ NeedsRounds
<1>1. RegularStart /\ OmpInit => B
  <2> SUFFICES ASSUME RegularStart, OmpInit PROVE B  OBVIOUS
  <2>1. Init  BY DEF OmpInit, Init
  <2>2. Straight /\ OmpIInv /\ IInv /\ TeamInv /\ Account
    BY <2>1, RegularStartStraight, OmpInitKeeps, InitTeam, InitAccount DEF OmpIInv
  <2>3. PICK p \in Pipelines : InitFor(p)  BY <2>1 DEF Init
  <2>4. NeedsRounds  BY <2>3, PipelinesAssumption, InitNeeds
  <2>5. Bounded  BY <2>2, <2>3, InitBounds DEF IInv
  <2> QED  BY <2>2, <2>4, <2>5
<1>2. B /\ [OmpNext]_omp_vars => B'
  BY MaxRoundsAssumption, OmpNextKeeps, OmpNextKeepsAccount, OmpNextKeepsTeam, OmpNextKeepsBounds
<1>3. B => OmpTypeOK  BY MaxRoundsAssumption, OmpBoundsType
<1> QED  BY <1>1, <1>2, <1>3, PTL DEF OmpSpec

=============================================================================
