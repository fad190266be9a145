-------------------------- MODULE CrossElements_proofs --------------------------
(***************************************************************************)
(* For every list of hours, every number of repetitions and every number   *)
(* of files in each hour, the generator of the GrPPI port returns, item    *)
(* for item, what the element Product of the dispel4py workflow writes.    *)
(***************************************************************************)
EXTENDS CrossElements, SequenceLemmas

(* The pairs of an hour, one file more at a time. *)

CrossRow(n) == [j \in 1 .. n |-> <<j - 1, n>>]
CrossRows(n) == [i \in 1 .. n |-> [j \in 1 .. i - 1 |-> <<j - 1, i - 1>>]]

\* With one more file, its pairs with all the others come behind those of the
\* others.
LEMMA CrossListStep ==
  ASSUME NEW n \in Nat
  PROVE  /\ CrossList(n) \in Seq(Nat \X Nat)
         /\ CrossRow(n) \in Seq(Nat \X Nat)
         /\ CrossList(n + 1) = CrossList(n) \o CrossRow(n)
<1>1. CrossRow(n) \in Seq(Nat \X Nat)  BY DEF CrossRow
<1>2. ASSUME NEW i \in 1 .. n PROVE [j \in 1 .. i - 1 |-> <<j - 1, i - 1>>] \in Seq(Nat \X Nat)
  OBVIOUS
<1>3. CrossRows(n) \in Seq(Seq(Nat \X Nat))
  <2> DEFINE Q == Seq(Nat \X Nat)
             row(i) == [j \in 1 .. i - 1 |-> <<j - 1, i - 1>>]
  <2>1. \A i \in 1 .. n : row(i) \in Q  BY <1>2
  <2> HIDE DEF Q, row
  <2>2. [i \in 1 .. n |-> row(i)] \in Seq(Q)  BY <2>1
  <2> QED  BY <2>2 DEF CrossRows, Q, row
<1>4. CrossRows(n + 1) = Append(CrossRows(n), CrossRow(n))
  <2> DEFINE row(i) == [j \in 1 .. i - 1 |-> <<j - 1, i - 1>>]
  <2>1. row(n + 1) = CrossRow(n)
    <3>1. (n + 1) - 1 = n  OBVIOUS
    <3> QED  BY <3>1 DEF CrossRow
  <2> HIDE DEF row
  <2>2. [i \in 1 .. n + 1 |-> row(i)] = Append([i \in 1 .. n |-> row(i)], row(n + 1))
    OBVIOUS
  <2> QED  BY <2>1, <2>2 DEF CrossRows, row
<1>5. CrossList(n) = FlattenSeq(CrossRows(n)) /\ CrossList(n + 1) = FlattenSeq(CrossRows(n + 1))
  BY DEF CrossList, CrossRows
<1> DEFINE S == Nat \X Nat
           rows == CrossRows(n)
           row == CrossRow(n)
<1>6. rows \in Seq(Seq(S)) /\ row \in Seq(S)  BY <1>1, <1>3
<1> HIDE DEF S, rows, row
<1>7. FlattenSeq(rows) \in Seq(S)  BY ONLY <1>6, FlattenType
<1>8. FlattenSeq(Append(rows, row)) = FlattenSeq(rows) \o row  BY ONLY <1>6, FlattenAppend
<1> QED  BY <1>1, <1>4, <1>5, <1>7, <1>8 DEF S, rows, row

\* Without files there are no pairs.
LEMMA CrossListNone == CrossList(0) = <<>>
<1>1. [i \in 1 .. 0 |-> [j \in 1 .. i - 1 |-> <<j - 1, i - 1>>]] = <<>>  OBVIOUS
<1> QED  BY <1>1, FlattenEmpty DEF CrossList

(* What the code relies on: the pairs are of two files of the hour, and a pair of  *)
(* two files other than the first comes after the pairs of each with the first.   *)
FirstPairs(c, n) ==
  /\ \A m \in 1 .. Len(c) : c[m][1] < c[m][2] /\ c[m][2] < n
  /\ \A i \in 1 .. n - 1 : \E m \in 1 .. Len(c) : c[m] = <<0, i>>
  /\ \A m \in 1 .. Len(c) : c[m][1] > 0 =>
       /\ \E k \in 1 .. m - 1 : c[k] = <<0, c[m][1]>>
       /\ \E k \in 1 .. m - 1 : c[k] = <<0, c[m][2]>>

\* The pairs of one more file keep this.
LEMMA FirstPairsStep ==
  ASSUME NEW n \in Nat, NEW c \in Seq(Nat \X Nat), FirstPairs(c, n)
  PROVE  FirstPairs(c \o CrossRow(n), n + 1)
<1> DEFINE r == CrossRow(n)
           d == c \o r
           L == Len(c)
<1>1. r \in Seq(Nat \X Nat) /\ Len(r) = n /\ \A j \in 1 .. n : r[j] = <<j - 1, n>>
  BY DEF CrossRow
<1>2. /\ d \in Seq(Nat \X Nat) /\ L \in Nat /\ Len(d) = L + n
      /\ \A m \in 1 .. L : d[m] = c[m]
      /\ \A j \in 1 .. n : d[L + j] = <<j - 1, n>>
  <2> DEFINE S == Nat \X Nat
  <2>1. c \in Seq(S) /\ r \in Seq(S)  BY <1>1
  <2> HIDE DEF r, S
  <2>2. /\ d \in Seq(S) /\ Len(c) \in Nat /\ Len(d) = Len(c) + Len(r)
        /\ \A m \in 1 .. Len(c) : d[m] = c[m]
        /\ \A m \in 1 .. Len(r) : d[Len(c) + m] = r[m]
    BY ONLY <2>1, ConcatElements
  <2> HIDE DEF d
  <2> QED  BY <1>1, <2>2 DEF S
<1>3. \A m \in 1 .. L : c[m] \in Nat \X Nat  OBVIOUS
<1> HIDE DEF r, d, L
<1>4. \A m \in 1 .. L + n : m \in 1 .. L \/ \E j \in 1 .. n : m = L + j
  <2> TAKE m \in 1 .. L + n
  <2>1. m \in 1 .. L \/ m - L \in 1 .. n  BY <1>2
  <2>2. m = L + (m - L)  BY <1>2
  <2> QED  BY <2>1, <2>2
<1>5. ASSUME NEW m \in 1 .. L + n PROVE d[m][1] < d[m][2] /\ d[m][2] < n + 1
  <2>1. CASE m \in 1 .. L
    <3>1. c[m][1] < c[m][2] /\ c[m][2] < n  BY <2>1 DEF FirstPairs, L
    <3>2. d[m] = c[m] /\ c[m][2] \in Nat  BY <1>2, <1>3, <2>1
    <3> QED  BY <3>1, <3>2
  <2>2. ASSUME NEW j \in 1 .. n, m = L + j PROVE d[m][1] < d[m][2] /\ d[m][2] < n + 1
    <3>1. d[m] = <<j - 1, n>>  BY <1>2, <2>2
    <3> QED  BY <3>1
  <2> QED  BY <1>4, <2>1, <2>2
<1>6. ASSUME NEW i \in 1 .. (n + 1) - 1 PROVE \E m \in 1 .. L + n : d[m] = <<0, i>>
  <2>1. CASE i = n
    <3>1. d[L + 1] = <<0, n>> /\ L + 1 \in 1 .. L + n  BY <1>2, <2>1
    <3> QED  BY <2>1, <3>1
  <2>2. CASE i # n
    <3>0. i \in 1 .. n - 1  BY <2>2
    <3>1. PICK m \in 1 .. L : c[m] = <<0, i>>  BY <3>0 DEF FirstPairs, L
    <3>2. m \in 1 .. L + n /\ d[m] = c[m]  BY <1>2
    <3> QED  BY <3>1, <3>2
  <2> QED  BY <2>1, <2>2
<1>7. ASSUME NEW m \in 1 .. L + n, d[m][1] > 0
      PROVE  /\ \E k \in 1 .. m - 1 : d[k] = <<0, d[m][1]>>
             /\ \E k \in 1 .. m - 1 : d[k] = <<0, d[m][2]>>
  <2>1. CASE m \in 1 .. L
    <3>1. d[m] = c[m] /\ c[m][1] > 0  BY <1>2, <1>7, <2>1
    <3>2. PICK k \in 1 .. m - 1 : c[k] = <<0, c[m][1]>>  BY <2>1, <3>1 DEF FirstPairs, L
    <3>3. PICK l \in 1 .. m - 1 : c[l] = <<0, c[m][2]>>  BY <2>1, <3>1 DEF FirstPairs, L
    <3>4. d[k] = c[k] /\ d[l] = c[l]  BY <1>2, <2>1
    <3> QED  BY <3>1, <3>2, <3>3, <3>4
  <2>2. ASSUME NEW j \in 1 .. n, m = L + j
        PROVE  /\ \E k \in 1 .. m - 1 : d[k] = <<0, d[m][1]>>
               /\ \E k \in 1 .. m - 1 : d[k] = <<0, d[m][2]>>
    <3>1. d[L + j] = <<j - 1, n>>  BY <1>2
    <3>2. d[m] = <<j - 1, n>>  BY <2>2, <3>1
    <3>3. j > 1  BY <1>7, <3>2
    <3>4. PICK k \in 1 .. L : c[k] = <<0, j - 1>>
      <4>1. j - 1 \in 1 .. n - 1  BY <3>3
      <4> QED  BY <4>1 DEF FirstPairs, L
    <3>5. L \in Nat /\ k \in 1 .. m - 1 /\ L + 1 \in 1 .. m - 1 /\ 1 \in 1 .. n
      BY <1>2, <2>2, <3>3
    <3>6. d[k] = <<0, j - 1>>  BY <1>2, <3>4
    <3>7. d[L + 1] = <<1 - 1, n>>  BY <1>2, <3>5
    <3> QED  BY <3>2, <3>5, <3>6, <3>7
  <2> QED  BY <1>4, <2>1, <2>2
<1>8. FirstPairs(d, n + 1)
  BY <1>2, <1>5, <1>6, <1>7 DEF FirstPairs
<1> QED  BY <1>8 DEF d, r

\* So it holds of the pairs of any number of files.
LEMMA CrossListShape ==
  ASSUME NEW n \in Nat
  PROVE  CrossList(n) \in Seq(Nat \X Nat) /\ FirstPairs(CrossList(n), n)
<1> DEFINE D == {k \in Nat : CrossList(k) \in Seq(Nat \X Nat) /\ FirstPairs(CrossList(k), k)}
<1>1. 0 \in D
  <2>1. <<>> \in Seq(Nat \X Nat) /\ FirstPairs(<<>>, 0)  BY DEF FirstPairs
  <2> QED  BY <2>1, CrossListNone
<1>2. ASSUME NEW k \in Nat, k \in D PROVE k + 1 \in D
  <2>1. CrossList(k) \in Seq(Nat \X Nat) /\ FirstPairs(CrossList(k), k)  BY <1>2
  <2>2. CrossList(k + 1) = CrossList(k) \o CrossRow(k)  BY CrossListStep
  <2>3. FirstPairs(CrossList(k) \o CrossRow(k), k + 1)  BY <2>1, FirstPairsStep
  <2>4. k + 1 \in Nat /\ CrossList(k + 1) \in Seq(Nat \X Nat)
    <3>1. k + 1 \in Nat  OBVIOUS
    <3> QED  BY <3>1, CrossListStep
  <2> QED  BY <2>2, <2>3, <2>4
<1> HIDE DEF D
<1>3. Nat \subseteq D  BY <1>1, <1>2, SetInduction
<1> QED  BY <1>3 DEF D

-----------------------------------------------------------------------------
(* What Product writes for an hour. *)

Items == {Pair(h, i, j) : h \in Nat, i \in Nat, j \in Nat}
HourRow(hour, n) == [i \in 1 .. n |-> Pair(hour, i - 1, n)]
HourRows(hour, n) == [k \in 1 .. n |-> [i \in 1 .. k - 1 |-> Pair(hour, i - 1, k - 1)]]

\* With one more file, Product writes its pairs with all the others at the end.
LEMMA HourOutputStep ==
  ASSUME NEW hour \in Nat, NEW n \in Nat
  PROVE  /\ HourOutput(hour, n) \in Seq(Items)
         /\ HourRow(hour, n) \in Seq(Items)
         /\ HourOutput(hour, n + 1) = HourOutput(hour, n) \o HourRow(hour, n)
<1>0. \A i \in Nat, j \in Nat : Pair(hour, i, j) \in Items  BY DEF Items
<1>1. HourRow(hour, n) \in Seq(Items)
  <2> DEFINE P(i) == Pair(hour, i - 1, n)
  <2>1. \A i \in 1 .. n : P(i) \in Items  BY <1>0
  <2> HIDE DEF P
  <2>2. [i \in 1 .. n |-> P(i)] \in Seq(Items)  BY <2>1
  <2> QED  BY <2>2 DEF HourRow, P
<1>2. ASSUME NEW k \in 1 .. n
      PROVE [i \in 1 .. k - 1 |-> Pair(hour, i - 1, k - 1)] \in Seq(Items)
  <2> DEFINE P(i) == Pair(hour, i - 1, k - 1)
  <2>1. \A i \in 1 .. k - 1 : P(i) \in Items  BY <1>0
  <2> HIDE DEF P
  <2>2. [i \in 1 .. k - 1 |-> P(i)] \in Seq(Items)  BY <2>1
  <2> QED  BY <2>2 DEF P
<1>3. HourRows(hour, n) \in Seq(Seq(Items))
  <2> DEFINE Q == Seq(Items)
             row(k) == [i \in 1 .. k - 1 |-> Pair(hour, i - 1, k - 1)]
  <2>1. \A k \in 1 .. n : row(k) \in Q  BY <1>2
  <2> HIDE DEF Q, row
  <2>2. [k \in 1 .. n |-> row(k)] \in Seq(Q)  BY <2>1
  <2> QED  BY <2>2 DEF HourRows, Q, row
<1>4. HourRows(hour, n + 1) = Append(HourRows(hour, n), HourRow(hour, n))
  <2> DEFINE row(k) == [i \in 1 .. k - 1 |-> Pair(hour, i - 1, k - 1)]
  <2>1. row(n + 1) = HourRow(hour, n)
    <3>1. (n + 1) - 1 = n  OBVIOUS
    <3> QED  BY <3>1 DEF HourRow
  <2> HIDE DEF row
  <2>2. [k \in 1 .. n + 1 |-> row(k)] = Append([k \in 1 .. n |-> row(k)], row(n + 1))
    OBVIOUS
  <2> QED  BY <2>1, <2>2 DEF HourRows, row
<1>5. /\ HourOutput(hour, n) = FlattenSeq(HourRows(hour, n))
      /\ HourOutput(hour, n + 1) = FlattenSeq(HourRows(hour, n + 1))
  BY DEF HourOutput, HourRows
<1> DEFINE rows == HourRows(hour, n)
           row == HourRow(hour, n)
<1>6. rows \in Seq(Seq(Items)) /\ row \in Seq(Items)  BY <1>1, <1>3
<1> HIDE DEF rows, row
<1>7. FlattenSeq(rows) \in Seq(Items)  BY ONLY <1>6, FlattenType
<1>8. FlattenSeq(Append(rows, row)) = FlattenSeq(rows) \o row  BY ONLY <1>6, FlattenAppend
<1> QED  BY <1>1, <1>4, <1>5, <1>7, <1>8 DEF rows, row

\* Product writes nothing for an hour without files.
LEMMA HourOutputNone == ASSUME NEW hour PROVE HourOutput(hour, 0) = <<>>
<1>1. [k \in 1 .. 0 |-> [i \in 1 .. k - 1 |-> Pair(hour, i - 1, k - 1)]] = <<>>  OBVIOUS
<1> QED  BY <1>1, FlattenEmpty DEF HourOutput

\* o is, pair by pair, what c lists.
PairsOf(o, c, hour) ==
  /\ Len(o) = Len(c)
  /\ \A m \in 1 .. Len(c) : o[m] = Pair(hour, c[m][1], c[m][2])

\* One more file adds the same pairs to both.
LEMMA PairsOfStep ==
  ASSUME NEW hour \in Nat, NEW n \in Nat, NEW c \in Seq(Nat \X Nat), NEW o \in Seq(Items),
         PairsOf(o, c, hour)
  PROVE  PairsOf(o \o HourRow(hour, n), c \o CrossRow(n), hour)
<1> DEFINE S == Nat \X Nat
           r == CrossRow(n)
           w == HourRow(hour, n)
           d == c \o r
           e == o \o w
           L == Len(c)
<1>1. /\ r \in Seq(S) /\ Len(r) = n /\ \A j \in 1 .. n : r[j] = <<j - 1, n>>
      /\ w \in Seq(Items) /\ Len(w) = n /\ \A j \in 1 .. n : w[j] = Pair(hour, j - 1, n)
  <2>1. r \in Seq(S) /\ w \in Seq(Items)  BY CrossListStep, HourOutputStep
  <2> QED  BY <2>1 DEF CrossRow, HourRow
<1>2. c \in Seq(S) /\ o \in Seq(Items) /\ Len(o) = L  BY DEF PairsOf
<1>9. c \in Seq(S) /\ r \in Seq(S)  BY <1>1
<1>10. o \in Seq(Items) /\ w \in Seq(Items)  BY <1>1
<1> HIDE DEF S, r, w
<1>3. /\ Len(c) \in Nat /\ Len(d) = Len(c) + Len(r)
      /\ \A m \in 1 .. Len(c) : d[m] = c[m]
      /\ \A m \in 1 .. Len(r) : d[Len(c) + m] = r[m]
  BY ONLY <1>9, ConcatElements
<1>4. /\ Len(e) = Len(o) + Len(w)
      /\ \A m \in 1 .. Len(o) : e[m] = o[m]
      /\ \A m \in 1 .. Len(w) : e[Len(o) + m] = w[m]
  BY ONLY <1>10, ConcatElements
<1>5. \A m \in 1 .. L : o[m] = Pair(hour, c[m][1], c[m][2])  BY DEF PairsOf
<1> HIDE DEF d, e, L
<1>6. Len(d) = L + n /\ Len(e) = L + n /\ L \in Nat  BY <1>1, <1>2, <1>3, <1>4 DEF L
<1>7. ASSUME NEW m \in 1 .. L + n PROVE e[m] = Pair(hour, d[m][1], d[m][2])
  <2>1. CASE m \in 1 .. L
    <3>1. d[m] = c[m] /\ e[m] = o[m]  BY <1>2, <1>3, <1>4, <2>1 DEF L
    <3> QED  BY <1>5, <2>1, <3>1
  <2>2. CASE m \notin 1 .. L
    <3> DEFINE j == m - L
    <3>1. j \in 1 .. n /\ m = L + j  BY <1>6, <2>2
    <3> HIDE DEF j
    <3>2. d[m] = r[j] /\ e[m] = w[j]  BY <1>1, <1>2, <1>3, <1>4, <3>1 DEF L
    <3>3. r[j] = <<j - 1, n>> /\ w[j] = Pair(hour, j - 1, n)  BY <1>1, <3>1
    <3> QED  BY <3>2, <3>3
  <2> QED  BY <2>1, <2>2
<1>8. PairsOf(e, d, hour)  BY <1>6, <1>7 DEF PairsOf
<1> QED  BY <1>8 DEF d, e, r, w

\* For an hour of any number of files.
LEMMA HourOutputPairs ==
  ASSUME NEW hour \in Nat, NEW n \in Nat
  PROVE  HourOutput(hour, n) \in Seq(Items) /\ PairsOf(HourOutput(hour, n), CrossList(n), hour)
<1> DEFINE D == {k \in Nat : PairsOf(HourOutput(hour, k), CrossList(k), hour)}
<1>1. 0 \in D
  <2>1. PairsOf(<<>>, <<>>, hour)  BY DEF PairsOf
  <2> QED  BY <2>1, CrossListNone, HourOutputNone
<1>2. ASSUME NEW k \in Nat, k \in D PROVE k + 1 \in D
  <2>1. PairsOf(HourOutput(hour, k), CrossList(k), hour)  BY <1>2
  <2>2. /\ HourOutput(hour, k) \in Seq(Items) /\ CrossList(k) \in Seq(Nat \X Nat)
        /\ HourOutput(hour, k + 1) = HourOutput(hour, k) \o HourRow(hour, k)
        /\ CrossList(k + 1) = CrossList(k) \o CrossRow(k)
    BY CrossListStep, HourOutputStep
  <2>3. PairsOf(HourOutput(hour, k) \o HourRow(hour, k), CrossList(k) \o CrossRow(k), hour)
    BY <2>1, <2>2, PairsOfStep
  <2>4. PairsOf(HourOutput(hour, k + 1), CrossList(k + 1), hour)  BY <2>2, <2>3
  <2> QED  BY <2>4
<1> HIDE DEF D
<1>3. Nat \subseteq D  BY <1>1, <1>2, SetInduction
<1> QED  BY <1>3, HourOutputStep DEF D

-----------------------------------------------------------------------------
(* The list of hours: the same hours num_rep times over. *)

\* The hour at position m of a list that repeats L hours.
LEMMA Remainder ==
  ASSUME NEW L \in Nat \ {0}, NEW a \in Nat, NEW b \in 0 .. L - 1
  PROVE  (a * L + b) % L = b
<1> DEFINE x == a * L + b
<1>1. a * L \in Nat  OBVIOUS
<1>2. x \in Nat  BY <1>1
<1> DEFINE d == x \div L
           r == x % L
<1> HIDE DEF x
<1>3. d \in Int /\ r \in 0 .. L - 1 /\ x = L * d + r  BY <1>2
<1> HIDE DEF d, r
<1> DEFINE q == d - a
<1>4. q \in Int  BY <1>3
<1>5. L * (a + q) = L * a + L * q  BY <1>4
<1>6. a + q = d  BY <1>3
<1>7. L * q = b - r
  <2>1. x = a * L + b  BY DEF x
  <2>2. L * d = L * a + L * q  BY <1>5, <1>6
  <2> QED  BY <1>3, <1>4, <2>1, <2>2
<1> HIDE DEF q
<1>8. CASE q >= 1
  <2>1. L * q >= L  BY <1>4, <1>8
  <2> QED  BY <1>3, <1>4, <1>7, <2>1
<1>9. CASE q <= -1
  <2>1. L * q <= -L  BY <1>4, <1>9
  <2> QED  BY <1>3, <1>4, <1>7, <2>1
<1>10. CASE q = 0
  <2>1. b = r  BY <1>3, <1>7, <1>10
  <2> QED  BY <2>1 DEF r, x
<1> QED  BY <1>4, <1>8, <1>9, <1>10

\* lapse and num_rep are counts, and every hour has a number of files.
ConfType == /\ conf.lapse \in Nat
            /\ conf.num_rep \in Nat
            /\ conf.files \in [0 .. conf.lapse - 1 -> Nat]

HourItems(h) == HourOutput(h, conf.files[h])
HoursRows(k) == [m \in 1 .. k |-> HourItems((m - 1) % conf.lapse)]
DayRows == [h \in 1 .. conf.lapse |-> HourItems(h - 1)]

\* Every hour of the list is one of the hours.
LEMMA HoursList ==
  ASSUME ConfType
  PROVE  /\ conf.num_rep * conf.lapse \in Nat
         /\ Len(hours_list) = conf.num_rep * conf.lapse
         /\ \A m \in 1 .. Len(hours_list) : /\ hours_list[m] = (m - 1) % conf.lapse
                                            /\ hours_list[m] \in 0 .. conf.lapse - 1
                                            /\ conf.files[hours_list[m]] \in Nat
<1>1. conf.num_rep * conf.lapse \in Nat  BY DEF ConfType
<1>2. Len(hours_list) = conf.num_rep * conf.lapse  BY <1>1 DEF hours_list
<1>3. ASSUME NEW m \in 1 .. Len(hours_list)
      PROVE  /\ hours_list[m] = (m - 1) % conf.lapse
             /\ hours_list[m] \in 0 .. conf.lapse - 1
             /\ conf.files[hours_list[m]] \in Nat
  <2>1. hours_list[m] = (m - 1) % conf.lapse  BY <1>1, <1>2 DEF hours_list
  <2>2. conf.lapse # 0
    <3>1. conf.lapse = 0 => conf.num_rep * conf.lapse = 0  BY DEF ConfType
    <3> QED  BY <1>2, <3>1
  <2>3. (m - 1) % conf.lapse \in 0 .. conf.lapse - 1
    <3>1. conf.lapse \in Nat \ {0} /\ m - 1 \in Nat  BY <1>1, <1>2, <2>2 DEF ConfType
    <3> QED  BY <3>1
  <2> QED  BY <2>1, <2>3 DEF ConfType
<1> QED  BY <1>1, <1>2, <1>3

\* What Product writes for an hour.
LEMMA HourItemsType ==
  ASSUME ConfType, NEW h \in 0 .. conf.lapse - 1
  PROVE  HourItems(h) \in Seq(Items)
<1>1. h \in Nat /\ conf.files[h] \in Nat  BY DEF ConfType
<1> QED  BY <1>1, HourOutputPairs DEF HourItems

\* One more hour of the list.
LEMMA HoursStep ==
  ASSUME ConfType, NEW k \in Nat, conf.lapse # 0
  PROVE  /\ HoursRows(k) \in Seq(Seq(Items)) /\ Len(HoursRows(k)) = k
         /\ HourItems(k % conf.lapse) \in Seq(Items)
         /\ HoursRows(k + 1) = Append(HoursRows(k), HourItems(k % conf.lapse))
<1> DEFINE row(m) == HourItems((m - 1) % conf.lapse)
           Q == Seq(Items)
<1>1. \A m \in 1 .. k + 1 : row(m) \in Q
  <2> TAKE m \in 1 .. k + 1
  <2>1. (m - 1) % conf.lapse \in 0 .. conf.lapse - 1  BY DEF ConfType
  <2> QED  BY <2>1, HourItemsType
<1>2. row(k + 1) = HourItems(k % conf.lapse)
  <2>1. (k + 1) - 1 = k  OBVIOUS
  <2> QED  BY <2>1
<1> HIDE DEF row, Q
<1>3. /\ [m \in 1 .. k |-> row(m)] \in Seq(Q) /\ Len([m \in 1 .. k |-> row(m)]) = k
      /\ row(k + 1) \in Q
      /\ [m \in 1 .. k + 1 |-> row(m)] = Append([m \in 1 .. k |-> row(m)], row(k + 1))
  BY <1>1
<1> QED  BY <1>2, <1>3 DEF HoursRows, row, Q

\* The rows of the hours after the first j, up to the k-th.
RowsFrom(j, k) == [m \in 1 .. k - j |-> HourItems((j + m - 1) % conf.lapse)]

\* The list of hours falls into what comes before a position and what comes after.
LEMMA HoursSplit ==
  ASSUME ConfType, conf.lapse # 0, NEW j \in Nat, NEW k \in Nat, j <= k
  PROVE  /\ HoursRows(j) \in Seq(Seq(Items)) /\ RowsFrom(j, k) \in Seq(Seq(Items))
         /\ HoursRows(k) = HoursRows(j) \o RowsFrom(j, k)
<1> DEFINE row(m) == HourItems((m - 1) % conf.lapse)
           Q == Seq(Items)
<1>1. \A m \in 1 .. k : row(m) \in Q
  <2> TAKE m \in 1 .. k
  <2>1. (m - 1) % conf.lapse \in 0 .. conf.lapse - 1  BY DEF ConfType
  <2> QED  BY <2>1, HourItemsType
<1> HIDE DEF row, Q
<1> DEFINE s == [m \in 1 .. j |-> row(m)]
           t == [m \in 1 .. k - j |-> row(j + m)]
           u == [m \in 1 .. k |-> row(m)]
<1>2. s \in Seq(Q) /\ Len(s) = j  BY <1>1
<1>3. t \in Seq(Q) /\ Len(t) = k - j
  <2>1. \A m \in 1 .. k - j : j + m \in 1 .. k  OBVIOUS
  <2> QED  BY <1>1, <2>1
<1>4. u \in Seq(Q) /\ Len(u) = k  BY <1>1
<1>5. u = s \o t
  <2>1. /\ s \o t \in Seq(Q) /\ Len(s \o t) = Len(s) + Len(t)
        /\ \A m \in 1 .. Len(s) : (s \o t)[m] = s[m]
        /\ \A m \in 1 .. Len(t) : (s \o t)[Len(s) + m] = t[m]
    <3> HIDE DEF s, t
    <3> QED  BY <1>2, <1>3, ConcatElements
  <2>2. \A m \in 1 .. j : s[m] = row(m) /\ u[m] = row(m)  OBVIOUS
  <2>3. \A m \in 1 .. k - j : t[m] = row(j + m) /\ u[j + m] = row(j + m)
    <3>1. \A m \in 1 .. k - j : j + m \in 1 .. k  OBVIOUS
    <3> QED  BY <3>1
  <2> HIDE DEF s, t, u
  <2>4. ASSUME NEW m \in 1 .. k PROVE u[m] = (s \o t)[m]
    <3>1. CASE m \in 1 .. j
      BY <1>2, <2>1, <2>2, <3>1
    <3>2. CASE m \notin 1 .. j
      <4> DEFINE i == m - j
      <4>1. i \in 1 .. k - j /\ m = j + i  BY <3>2
      <4> HIDE DEF i
      <4> QED  BY <1>2, <1>3, <2>1, <2>3, <4>1
    <3> QED  BY <3>1, <3>2
  <2>5. Len(s \o t) = k  BY <1>2, <1>3, <2>1
  <2> DEFINE v == s \o t
  <2>6. v \in Seq(Q) /\ Len(v) = k /\ \A m \in 1 .. k : u[m] = v[m]  BY <2>1, <2>4, <2>5
  <2> HIDE DEF v
  <2>7. u = v  BY <1>4, <2>6, SameElements
  <2> QED  BY <2>7 DEF v
<1>6. t = RowsFrom(j, k)  BY DEF RowsFrom, row
<1>7. s = HoursRows(j) /\ u = HoursRows(k)  BY DEF HoursRows, row
<1> QED  BY <1>2, <1>3, <1>5, <1>6, <1>7 DEF Q

\* What Product writes for the first hours of the list.
LEMMA OutputIsRows ==
  ASSUME ConfType, NEW k \in 0 .. Len(hours_list)
  PROVE  OutputOfHours(k) = FlattenSeq(HoursRows(k))
<1>1. \A m \in 1 .. k : hours_list[m] = (m - 1) % conf.lapse  BY HoursList
<1>2. [m \in 1 .. k |-> HourOutput(hours_list[m], conf.files[hours_list[m]])] = HoursRows(k)
  BY <1>1 DEF HoursRows, HourItems
<1> QED  BY <1>2 DEF OutputOfHours

\* Product writes the items of an hour of the list behind those of the hours before.
LEMMA OutputStep ==
  ASSUME ConfType, NEW k \in Nat, k < Len(hours_list)
  PROVE  /\ OutputOfHours(k) \in Seq(Items)
         /\ HourItems(hours_list[k + 1]) \in Seq(Items)
         /\ OutputOfHours(k + 1) = OutputOfHours(k) \o HourItems(hours_list[k + 1])
<1>1. conf.lapse # 0
  <2>1. conf.lapse = 0 => conf.num_rep * conf.lapse = 0  BY DEF ConfType
  <2> QED  BY <2>1, HoursList
<1>2. k \in 0 .. Len(hours_list) /\ k + 1 \in 0 .. Len(hours_list) /\ k + 1 \in 1 .. Len(hours_list)
  BY HoursList
<1>3. hours_list[k + 1] = k % conf.lapse
  <2>1. (k + 1) - 1 = k  OBVIOUS
  <2> QED  BY <1>2, <2>1, HoursList
<1> DEFINE r == HoursRows(k)
           x == HourItems(k % conf.lapse)
<1>4. r \in Seq(Seq(Items)) /\ x \in Seq(Items) /\ HoursRows(k + 1) = Append(r, x)
  BY <1>1, HoursStep
<1> HIDE DEF r, x
<1>5. FlattenSeq(Append(r, x)) = FlattenSeq(r) \o x  BY ONLY <1>4, FlattenAppend
<1>6. FlattenSeq(r) \in Seq(Items)  BY ONLY <1>4, FlattenType
<1>7. OutputOfHours(k) = FlattenSeq(r) /\ OutputOfHours(k + 1) = FlattenSeq(Append(r, x))
  BY <1>2, <1>4, OutputIsRows DEF r
<1> QED  BY <1>3, <1>4, <1>5, <1>6, <1>7 DEF x

Day == FlattenSeq(DayRows)
Days(a) == [b \in 1 .. a |-> Day]

\* What Product writes for each hour once.
LEMMA DayType ==
  ASSUME ConfType
  PROVE  DayRows \in Seq(Seq(Items)) /\ Len(DayRows) = conf.lapse /\ Day \in Seq(Items)
<1> DEFINE Q == Seq(Items)
           L == conf.lapse
           row(h) == HourItems(h - 1)
<1>1. \A h \in 1 .. L : row(h) \in Q
  <2> TAKE h \in 1 .. L
  <2>1. h - 1 \in 0 .. conf.lapse - 1  BY DEF ConfType
  <2> QED  BY <2>1, HourItemsType
<1>2. L \in Nat  BY DEF ConfType
<1> HIDE DEF Q, L, row
<1>3. [h \in 1 .. L |-> row(h)] \in Seq(Q) /\ Len([h \in 1 .. L |-> row(h)]) = L
  BY <1>1, <1>2
<1>4. DayRows \in Seq(Seq(Items)) /\ Len(DayRows) = conf.lapse
  BY <1>3 DEF DayRows, Q, L, row
<1>5. Day \in Seq(Items)  BY <1>4, FlattenType DEF Day
<1> QED  BY <1>4, <1>5

\* One more repetition.
LEMMA DaysStep ==
  ASSUME ConfType, NEW a \in Nat
  PROVE  FlattenSeq(Days(a)) \in Seq(Items) /\ FlattenSeq(Days(a + 1)) = FlattenSeq(Days(a)) \o Day
<1> DEFINE Q == Seq(Items)
           d == Day
<1>1. d \in Q  BY DayType
<1> HIDE DEF Q, d
<1>2. /\ [b \in 1 .. a |-> d] \in Seq(Q)
      /\ [b \in 1 .. a + 1 |-> d] = Append([b \in 1 .. a |-> d], d)
  BY <1>1
<1>3. Days(a) \in Seq(Seq(Items)) /\ d \in Seq(Items) /\ Days(a + 1) = Append(Days(a), d)
  BY <1>1, <1>2 DEF Days, Q, d
<1> DEFINE r == Days(a)
<1> HIDE DEF r
<1>4. r \in Seq(Seq(Items)) /\ d \in Seq(Items)  BY <1>3 DEF r
<1>5. FlattenSeq(Append(r, d)) = FlattenSeq(r) \o d  BY ONLY <1>4, FlattenAppend
<1>6. FlattenSeq(r) \in Seq(Items)  BY ONLY <1>4, FlattenType
<1> QED  BY <1>3, <1>5, <1>6 DEF r, d

\* A repetition takes the hours of the list from one multiple of lapse to the next.
LEMMA RowsOfDay ==
  ASSUME ConfType, conf.lapse # 0, NEW a \in Nat
  PROVE  /\ a * conf.lapse \in Nat /\ (a + 1) * conf.lapse \in Nat
         /\ a * conf.lapse <= (a + 1) * conf.lapse
         /\ RowsFrom(a * conf.lapse, (a + 1) * conf.lapse) = DayRows
<1> DEFINE L == conf.lapse
           A == a * L
           B == (a + 1) * L
<1>1. L \in Nat \ {0}  BY DEF ConfType
<1>2. \A m \in 1 .. L : (A + m - 1) % L = m - 1
  <2> TAKE m \in 1 .. L
  <2>1. m - 1 \in 0 .. L - 1  BY <1>1
  <2> HIDE DEF L
  <2>2. (a * L + (m - 1)) % L = m - 1  BY <1>1, <2>1, Remainder
  <2>3. A \in Nat  BY <1>1
  <2>4. A + (m - 1) = A + m - 1  BY <1>1, <2>3
  <2> QED  BY <2>2, <2>4
<1>3. A \in Nat /\ B = A + L
  <2> HIDE DEF L
  <2> QED  BY <1>1
<1>4. RowsFrom(A, B) = DayRows
  <2> HIDE DEF A, B
  <2>1. B - A = L  BY <1>1, <1>3
  <2> HIDE DEF L
  <2>2. \A m \in 1 .. L : HourItems((A + m - 1) % L) = HourItems(m - 1)  BY <1>2
  <2>3. [m \in 1 .. L |-> HourItems((A + m - 1) % L)] = [m \in 1 .. L |-> HourItems(m - 1)]
    BY <2>2
  <2> QED  BY <2>1, <2>3 DEF RowsFrom, DayRows, L
<1>5. A <= B /\ B \in Nat
  <2> HIDE DEF A, B, L
  <2> QED  BY <1>1, <1>3
<1> QED  BY <1>3, <1>4, <1>5

\* The hours of the list, one after another, are the repetitions of all hours.
LEMMA RowsAreDays ==
  ASSUME ConfType, NEW n \in Nat
  PROVE  FlattenSeq(HoursRows(n * conf.lapse)) = FlattenSeq(Days(n))
<1> DEFINE D == {a \in Nat : FlattenSeq(HoursRows(a * conf.lapse)) = FlattenSeq(Days(a))}
<1>0. HoursRows(0) = <<>> /\ Days(0) = <<>>  BY DEF HoursRows, Days
<1>1. 0 \in D
  <2>1. 0 * conf.lapse = 0  BY DEF ConfType
  <2> QED  BY <1>0, <2>1
<1>2. ASSUME NEW a \in Nat, a \in D PROVE a + 1 \in D
  <2> DEFINE A == a * conf.lapse
             B == (a + 1) * conf.lapse
  <2>1. FlattenSeq(HoursRows(A)) = FlattenSeq(Days(a))  BY <1>2
  <2>2. FlattenSeq(Days(a)) \in Seq(Items) /\ FlattenSeq(Days(a + 1)) = FlattenSeq(Days(a)) \o Day
    BY DaysStep
  <2>3. FlattenSeq(HoursRows(B)) = FlattenSeq(HoursRows(A)) \o Day
    <3>1. CASE conf.lapse # 0
      <4>1. A \in Nat /\ B \in Nat /\ A <= B /\ RowsFrom(A, B) = DayRows
        BY <3>1, RowsOfDay
      <4> HIDE DEF A, B
      <4>2. /\ HoursRows(A) \in Seq(Seq(Items)) /\ RowsFrom(A, B) \in Seq(Seq(Items))
            /\ HoursRows(B) = HoursRows(A) \o RowsFrom(A, B)
        BY <3>1, <4>1, HoursSplit
      <4> DEFINE s == HoursRows(A)
                 t == RowsFrom(A, B)
      <4>3. s \in Seq(Seq(Items)) /\ t \in Seq(Seq(Items))  BY <4>2
      <4> HIDE DEF s, t
      <4>4. FlattenSeq(s \o t) = FlattenSeq(s) \o FlattenSeq(t)  BY ONLY <4>3, FlattenConcat
      <4> QED  BY <4>1, <4>2, <4>4 DEF s, t, Day
    <3>2. CASE conf.lapse = 0
      <4>1. A = 0 /\ B = 0  BY <3>2
      <4>2. DayRows = <<>>  BY <3>2 DEF DayRows
      <4>3. Day = <<>>  BY <4>2, FlattenEmpty DEF Day
      <4> QED  BY <1>0, <4>1, <4>3, FlattenEmpty
    <3> QED  BY <3>1, <3>2
  <2>4. FlattenSeq(HoursRows(B)) = FlattenSeq(Days(a + 1))  BY <2>1, <2>2, <2>3
  <2> QED  BY <2>4
<1> HIDE DEF D
<1>3. Nat \subseteq D  BY <1>1, <1>2, SetInduction
<1> QED  BY <1>3 DEF D

\* All the hours of the list give the whole of what Product writes.
LEMMA OutputAll ==
  ASSUME ConfType
  PROVE  OutputOfHours(Len(hours_list)) = Reference
<1>1. /\ Len(hours_list) = conf.num_rep * conf.lapse
      /\ Len(hours_list) \in 0 .. Len(hours_list)
  BY HoursList
<1>2. OutputOfHours(Len(hours_list)) = FlattenSeq(HoursRows(conf.num_rep * conf.lapse))
  BY <1>1, OutputIsRows
<1>3. conf.num_rep \in Nat  BY DEF ConfType
<1>4. FlattenSeq(HoursRows(conf.num_rep * conf.lapse)) = FlattenSeq(Days(conf.num_rep))
  BY <1>3, RowsAreDays
<1>5. Reference = FlattenSeq(Days(conf.num_rep))
  BY DEF Reference, ProductOutput, Days, Day, DayRows, HourItems
<1> QED  BY <1>2, <1>4, <1>5

\* What Product writes for the first hours of the list is followed by the rest.
LEMMA OutputRest ==
  ASSUME ConfType, NEW k \in 0 .. Len(hours_list)
  PROVE  /\ OutputOfHours(k) \in Seq(Items)
         /\ \E rest \in Seq(Items) : Reference = OutputOfHours(k) \o rest
<1> DEFINE n == Len(hours_list)
<1>1. n \in Nat /\ k \in Nat /\ k <= n /\ n \in 0 .. n  BY HoursList
<1> HIDE DEF n
<1>2. OutputOfHours(k) = FlattenSeq(HoursRows(k)) /\ Reference = FlattenSeq(HoursRows(n))
  BY <1>1, OutputIsRows, OutputAll DEF n
<1>3. CASE conf.lapse # 0
  <2> DEFINE s == HoursRows(k)
             t == RowsFrom(k, n)
  <2>1. s \in Seq(Seq(Items)) /\ t \in Seq(Seq(Items)) /\ HoursRows(n) = s \o t
    BY <1>1, <1>3, HoursSplit
  <2> HIDE DEF s, t
  <2>2. s \in Seq(Seq(Items)) /\ t \in Seq(Seq(Items))  BY <2>1
  <2>3. FlattenSeq(s \o t) = FlattenSeq(s) \o FlattenSeq(t)  BY ONLY <2>2, FlattenConcat
  <2>4. FlattenSeq(s) \in Seq(Items) /\ FlattenSeq(t) \in Seq(Items)  BY ONLY <2>2, FlattenType
  <2>5. OutputOfHours(k) = FlattenSeq(s)  BY <1>2 DEF s
  <2>6. Reference = FlattenSeq(s) \o FlattenSeq(t)  BY <1>2, <2>1, <2>3
  <2> QED  BY <2>4, <2>5, <2>6
<1>4. CASE conf.lapse = 0
  <2>1. n = 0 /\ k = 0
    <3>1. conf.num_rep * conf.lapse = 0  BY <1>4 DEF ConfType
    <3> QED  BY <1>1, <3>1, HoursList DEF n
  <2>2. HoursRows(0) = <<>>  BY DEF HoursRows
  <2>3. OutputOfHours(k) = <<>> /\ Reference = <<>>  BY <1>2, <2>1, <2>2, FlattenEmpty
  <2>4. <<>> \in Seq(Items) /\ <<>> = <<>> \o <<>>  OBVIOUS
  <2> QED  BY <2>3, <2>4
<1> QED  BY <1>3, <1>4

-----------------------------------------------------------------------------
(* A call past its first block: the hour is open. *)

HourOpen(s) ==
  /\ s.done \in 1 .. Len(hours_list)
  /\ s.hour = hours_list[s.done]
  /\ s.cross = CrossList(conf.files[s.hour])
  /\ s.count \in 0 .. Len(s.cross)
  /\ DOMAIN s.init = 0 .. conf.files[s.hour] - 1
  /\ \A f \in DOMAIN s.init : s.init[f] \in {Null, Array(s.hour, f)}
  /\ \A f \in DOMAIN s.init :
       (f = 0 \/ \E m \in 1 .. s.count : s.cross[m][2] = f) => s.init[f] = Array(s.hour, f)
  /\ returned = OutputOfHours(s.done - 1)
                  \o SubSeq(HourOutput(s.hour, conf.files[s.hour]), 1, s.count)

\* The bounds on the configuration are natural numbers.
LEMMA ConfTypeFact == TypeOK => ConfType
BY CountsAssumption DEF TypeOK, ConfType

\* Before the first hour nothing has been written.
LEMMA OutputNone == OutputOfHours(0) = <<>>
<1>1. [m \in 1 .. 0 |-> HourOutput(hours_list[m], conf.files[hours_list[m]])] = <<>>  OBVIOUS
<1> QED  BY <1>1, FlattenEmpty DEF OutputOfHours

\* What is known of the hour that is open.
LEMMA HourFacts ==
  ASSUME ConfType, NEW s, HourOpen(s)
  PROVE  /\ s.done \in Nat /\ s.done - 1 \in Nat /\ s.done - 1 < Len(hours_list)
         /\ s.done \in 0 .. Len(hours_list)
         /\ s.hour \in 0 .. conf.lapse - 1 /\ s.hour \in Nat
         /\ conf.files[s.hour] \in Nat
         /\ s.cross \in Seq(Nat \X Nat) /\ FirstPairs(s.cross, conf.files[s.hour])
         /\ HourOutput(s.hour, conf.files[s.hour]) \in Seq(Items)
         /\ PairsOf(HourOutput(s.hour, conf.files[s.hour]), s.cross, s.hour)
<1> DEFINE n == Len(hours_list)
           d == s.done
<1>1. n \in Nat  BY HoursList
<1>2. d \in 1 .. n /\ s.hour = hours_list[d]  BY DEF HourOpen
<1>3. d \in Nat /\ d - 1 \in Nat /\ d - 1 < n /\ d \in 0 .. n  BY ONLY <1>1, <1>2
<1>4. s.hour \in 0 .. conf.lapse - 1 /\ conf.files[s.hour] \in Nat
  <2>1. \A m \in 1 .. n : hours_list[m] \in 0 .. conf.lapse - 1 /\ conf.files[hours_list[m]] \in Nat
    BY HoursList
  <2> QED  BY ONLY <1>2, <2>1
<1>5. s.hour \in Nat  BY <1>4 DEF ConfType
<1>6. s.cross = CrossList(conf.files[s.hour])  BY DEF HourOpen
<1> QED  BY <1>3, <1>4, <1>5, <1>6, CrossListShape, HourOutputPairs

\* A call in the middle of an hour finds it open.
LEMMA CurrentOpen ==
  ASSUME IInv, ~change_time
  PROVE  HourOpen(Current)
<1>1. /\ Current.init = list_init /\ Current.cross = list_cross /\ Current.count = count
      /\ Current.hour = starttime /\ Current.done = num_done_hours
  BY DEF Current
<1>2. num_done_hours \in 1 .. Len(hours_list)
  <2>1. Len(hours_list) \in Nat  BY ConfTypeFact, HoursList DEF IInv
  <2> QED  BY <2>1 DEF IInv, TypeOK, InHour
<1>3. starttime = hours_list[num_done_hours]  BY DEF IInv, InHour
<1>4. list_cross = CrossList(conf.files[starttime])  BY DEF IInv, InHour
<1>5. count \in 0 .. Len(list_cross)  BY DEF IInv, TypeOK
<1>6. DOMAIN list_init = 0 .. conf.files[starttime] - 1  BY DEF IInv, InHour
<1>7. \A f \in DOMAIN list_init : list_init[f] \in {Null, Array(starttime, f)}
  BY DEF IInv, TypeOK
<1>8. \A f \in DOMAIN list_init :
        (f = 0 \/ \E m \in 1 .. count : list_cross[m][2] = f)
          => list_init[f] = Array(starttime, f)
  BY DEF IInv, LoadedSoFar
<1>9. returned = OutputOfHours(num_done_hours - 1)
                   \o SubSeq(HourOutput(starttime, conf.files[starttime]), 1, count)
  BY DEF IInv, ReturnedSoFar
<1> HIDE DEF Current
<1> QED  BY <1>1, <1>2, <1>3, <1>4, <1>5, <1>6, <1>7, <1>8, <1>9 DEF HourOpen

\* A call that opens an hour has the first of its files loaded and has returned all
\* pairs of the hours before.
LEMMA NextOpen ==
  ASSUME IInv, change_time, num_done_hours < Len(hours_list)
  PROVE  HourOpen(Opened)
<1> DEFINE h == hours_list[num_done_hours + 1]
           n == conf.files[h]
<1>1. /\ Opened.init = [f \in 0 .. n - 1 |-> IF f = 0 THEN Array(h, 0) ELSE Null]
      /\ Opened.cross = CrossList(n) /\ Opened.count = 0 /\ Opened.hour = h
      /\ Opened.done = num_done_hours + 1
  BY DEF Opened
<1>2. ConfType  BY ConfTypeFact DEF IInv
<1>3. num_done_hours \in Nat /\ num_done_hours + 1 \in 1 .. Len(hours_list)
  <2>1. Len(hours_list) \in Nat  BY <1>2, HoursList
  <2> QED  BY <2>1 DEF IInv, TypeOK
<1>4. h \in 0 .. conf.lapse - 1 /\ n \in Nat /\ h \in Nat
  BY <1>2, <1>3, HoursList DEF ConfType
<1>5. HourOutput(h, n) \in Seq(Items) /\ CrossList(n) \in Seq(Nat \X Nat)
  BY <1>4, HourOutputPairs, CrossListShape
<1>6. OutputOfHours(num_done_hours) \in Seq(Items)  BY <1>2, <1>3, OutputRest
<1> DEFINE a == OutputOfHours(num_done_hours)
           b == HourOutput(h, n)
<1>7. a \o SubSeq(b, 1, 0) = a
  <2>1. a \in Seq(Items) /\ b \in Seq(Items)  BY <1>5, <1>6
  <2> HIDE DEF a, b
  <2> QED  BY ONLY <2>1, ConcatFirst
<1>8. returned = a  BY DEF IInv, ReturnedSoFar
<1>9. (num_done_hours + 1) - 1 = num_done_hours  BY <1>3
<1>10. 0 \in 0 .. Len(CrossList(n))
  <2> DEFINE c == CrossList(n)
  <2>1. c \in Seq(Nat \X Nat)  BY <1>5
  <2> HIDE DEF c
  <2>2. Len(c) \in Nat  BY <2>1
  <2> QED  BY <2>2 DEF c
<1> HIDE DEF h, n
<1>11. DOMAIN Opened.init = 0 .. n - 1  BY <1>1
<1>12. \A f \in DOMAIN Opened.init : /\ Opened.init[f] \in {Null, Array(h, f)}
                                     /\ f = 0 => Opened.init[f] = Array(h, f)
  BY <1>1
<1>13. 1 .. Opened.count = {}  BY <1>1
<1>14. Opened.hour = hours_list[Opened.done]  BY <1>1 DEF h
<1>15. returned = OutputOfHours(Opened.done - 1)
                   \o SubSeq(HourOutput(Opened.hour, conf.files[Opened.hour]), 1, Opened.count)
  BY <1>1, <1>7, <1>8, <1>9 DEF n
<1> QED  BY <1>1, <1>3, <1>10, <1>11, <1>12, <1>13, <1>14, <1>15 DEF HourOpen, n

\* With y the arrays at pair p: those of p are there, and with them those of the
\* first file and of the second of every pair so far.
FilesLoaded(s, p, y) ==
  /\ y[p[1]] = Array(s.hour, p[1])
  /\ y[p[2]] = Array(s.hour, p[2])
  /\ DOMAIN y = 0 .. conf.files[s.hour] - 1
  /\ \A f \in DOMAIN y : y[f] \in {Null, Array(s.hour, f)}
  /\ \A f \in DOMAIN y :
       (f = 0 \/ \E m \in 1 .. s.count + 1 : s.cross[m][2] = f) => y[f] = Array(s.hour, f)

\* When a pair is returned both its files are loaded: the second now or at its pair
\* with the first file, which is in the list before, and the first likewise.
LEMMA ArraysLoaded ==
  ASSUME ConfType, NEW s, HourOpen(s), s.count < Len(s.cross), NEW p, p = s.cross[s.count + 1]
  PROVE  FilesLoaded(s, p, Loaded(s, p))
<1> DEFINE n == conf.files[s.hour]
           c == s.cross
           k == s.count
           x == s.init
<1>1. /\ n \in Nat /\ c \in Seq(Nat \X Nat) /\ FirstPairs(c, n)
  BY HourFacts
<1>2. /\ k \in Nat /\ k + 1 \in 1 .. Len(c) /\ p = c[k + 1] /\ Len(c) \in Nat
  <2>1. Len(c) \in Nat  BY <1>1
  <2>2. k \in 0 .. Len(c) /\ k < Len(c)  BY DEF HourOpen
  <2> HIDE DEF c, k
  <2>3. k \in Nat /\ k + 1 \in 1 .. Len(c)  BY <2>1, <2>2
  <2> QED  BY <2>1, <2>3 DEF c, k
<1>3. /\ DOMAIN x = 0 .. n - 1
      /\ \A f \in DOMAIN x : x[f] \in {Null, Array(s.hour, f)}
      /\ \A f \in DOMAIN x : (f = 0 \/ \E m \in 1 .. k : c[m][2] = f) => x[f] = Array(s.hour, f)
  BY DEF HourOpen
<1> DEFINE y == Loaded(s, p)
<1>4. y = IF p[1] = 0 THEN [x EXCEPT ![p[2]] = Array(s.hour, p[2])] ELSE x  BY DEF Loaded
<1> HIDE DEF n, c, k, x, y
<1>5. p \in Nat \X Nat  BY <1>1, <1>2
<1>6. p[1] \in Nat /\ p[2] \in Nat /\ p[1] < p[2] /\ p[2] < n
  BY <1>1, <1>2, <1>5 DEF FirstPairs
<1>7. DOMAIN y = 0 .. n - 1  BY <1>3, <1>4
<1>8. \A f \in DOMAIN y : y[f] = x[f] \/ (p[1] = 0 /\ f = p[2] /\ y[f] = Array(s.hour, f))
  BY <1>3, <1>4, <1>7
<1>9. \A f \in DOMAIN y : x[f] = Array(s.hour, f) => y[f] = Array(s.hour, f)  BY <1>8
<1>10. \A f \in DOMAIN y : y[f] \in {Null, Array(s.hour, f)}  BY <1>3, <1>7, <1>8
<1>11. p[1] \in DOMAIN y /\ p[2] \in DOMAIN y  BY <1>1, <1>6, <1>7
<1>12. y[p[1]] = Array(s.hour, p[1])
  <2>1. CASE p[1] = 0
    <3>1. x[p[1]] = Array(s.hour, p[1])  BY <1>3, <1>7, <1>11, <2>1
    <3> QED  BY <1>9, <1>11, <3>1
  <2>2. CASE p[1] # 0
    <3>1. PICK m \in 1 .. (k + 1) - 1 : c[m] = <<0, p[1]>>
      <4>1. c[k + 1][1] > 0  BY <1>2, <1>6, <2>2
      <4> QED  BY <1>1, <1>2, <4>1 DEF FirstPairs
    <3>2. m \in 1 .. k /\ c[m][2] = p[1]  BY <1>2, <3>1
    <3>3. x[p[1]] = Array(s.hour, p[1])  BY <1>3, <1>7, <1>11, <3>2
    <3> QED  BY <1>9, <1>11, <3>3
  <2> QED  BY <2>1, <2>2
<1>13. y[p[2]] = Array(s.hour, p[2])
  <2>1. CASE p[1] = 0
    <3>1. p[2] \in DOMAIN x  BY <1>3, <1>7, <1>11
    <3>2. y = [x EXCEPT ![p[2]] = Array(s.hour, p[2])]  BY <1>4, <2>1
    <3> QED  BY <3>1, <3>2
  <2>2. CASE p[1] # 0
    <3>1. PICK m \in 1 .. (k + 1) - 1 : c[m] = <<0, p[2]>>
      <4>1. c[k + 1][1] > 0  BY <1>2, <1>6, <2>2
      <4> QED  BY <1>1, <1>2, <4>1 DEF FirstPairs
    <3>2. m \in 1 .. k /\ c[m][2] = p[2]  BY <1>2, <3>1
    <3>3. x[p[2]] = Array(s.hour, p[2])  BY <1>3, <1>7, <1>11, <3>2
    <3> QED  BY <1>9, <1>11, <3>3
  <2> QED  BY <2>1, <2>2
<1>14. ASSUME NEW f \in DOMAIN y, f = 0 \/ \E m \in 1 .. k + 1 : c[m][2] = f
       PROVE  y[f] = Array(s.hour, f)
  <2>1. CASE f = p[2]  BY <1>13, <2>1
  <2>2. CASE f # p[2]
    <3>1. f = 0 \/ \E m \in 1 .. k : c[m][2] = f
      <4>1. \A m \in 1 .. k + 1 : m \in 1 .. k \/ m = k + 1  BY <1>2
      <4> QED  BY <1>2, <1>14, <2>2, <4>1
    <3>2. x[f] = Array(s.hour, f)  BY <1>3, <1>7, <3>1
    <3> QED  BY <1>9, <3>2
  <2> QED  BY <2>1, <2>2
<1>15. FilesLoaded(s, p, y)  BY <1>7, <1>10, <1>12, <1>13, <1>14 DEF FilesLoaded, n, c, k
<1> QED  BY <1>15 DEF y

\* The call returns the next item that Product writes for the hour.
LEMMA NextItem ==
  ASSUME ConfType, NEW s, HourOpen(s), s.count < Len(s.cross), NEW p, p = s.cross[s.count + 1]
  PROVE  LET done == OutputOfHours(s.done - 1)
             hour == HourOutput(s.hour, conf.files[s.hour])
         IN /\ Append(returned, Pair(s.hour, p[1], p[2])) = done \o SubSeq(hour, 1, s.count + 1)
            /\ s.count + 1 = Len(s.cross)
                 => done \o SubSeq(hour, 1, s.count + 1) = OutputOfHours(s.done)
<1> DEFINE a == OutputOfHours(s.done - 1)
           b == HourOutput(s.hour, conf.files[s.hour])
           k == s.count
           c == s.cross
<1>1. /\ s.done - 1 \in Nat /\ s.done - 1 < Len(hours_list)
      /\ (s.done - 1) + 1 = s.done
      /\ c \in Seq(Nat \X Nat) /\ b \in Seq(Items) /\ PairsOf(b, c, s.hour)
  BY HourFacts
<1>2. s.hour = hours_list[s.done] /\ k \in 0 .. Len(c) /\ k < Len(c)
      /\ returned = a \o SubSeq(b, 1, k)
  BY DEF HourOpen
<1>3. a \in Seq(Items) /\ OutputOfHours(s.done) = a \o b
  BY <1>1, <1>2, OutputStep DEF HourItems
<1> HIDE DEF a, b, k, c
<1>4. Len(c) \in Nat /\ Len(b) = Len(c)  BY <1>1 DEF PairsOf
<1>5. k \in 0 .. Len(b) - 1 /\ k + 1 \in 1 .. Len(c)  BY <1>2, <1>4
<1>6. b[k + 1] = Pair(s.hour, p[1], p[2])  BY <1>1, <1>5 DEF PairsOf, k, c
<1>7. a \in Seq(Items) /\ b \in Seq(Items)  BY <1>1, <1>3
<1>8. /\ Append(a \o SubSeq(b, 1, k), b[k + 1]) = a \o SubSeq(b, 1, k + 1)
      /\ a \o SubSeq(b, 1, Len(b)) = a \o b
  <2>1. a \o SubSeq(b, 1, Len(b)) = a \o b  BY ONLY <1>7, ConcatFirst
  <2>2. Append(a \o SubSeq(b, 1, k), b[k + 1]) = a \o SubSeq(b, 1, k + 1)
    BY ONLY <1>5, <1>7, ConcatFirstStep
  <2> QED  BY <2>1, <2>2
<1>9. k + 1 = Len(c) => a \o SubSeq(b, 1, k + 1) = OutputOfHours(s.done)
  BY <1>3, <1>4, <1>8
<1> QED  BY <1>2, <1>6, <1>8, <1>9 DEF a, b, k, c

-----------------------------------------------------------------------------
(* Every step keeps the invariant. *)

\* The list of hours and what Product writes for it depend on the configuration only.
LEMMA SameHours ==
  ASSUME conf' = conf
  PROVE  /\ hours_list' = hours_list /\ Reference' = Reference
         /\ OutputOfHours(num_done_hours)' = OutputOfHours(num_done_hours')
         /\ OutputOfHours(num_done_hours - 1)' = OutputOfHours(num_done_hours' - 1)
<1>1. hours_list' = hours_list  BY DEF hours_list
<1>2. Reference' = Reference  BY DEF Reference
<1>3. OutputOfHours(num_done_hours)' = OutputOfHours(num_done_hours')
  BY <1>1 DEF OutputOfHours
<1>4. OutputOfHours(num_done_hours - 1)' = OutputOfHours(num_done_hours' - 1)
  BY <1>1 DEF OutputOfHours
<1> QED  BY <1>1, <1>2, <1>3, <1>4

\* The generator starts before the first hour, with nothing returned.
LEMMA InitIInv == Init => IInv
<1> SUFFICES ASSUME Init PROVE IInv  OBVIOUS
<1>1. PICK lapse \in Lapses, num_rep \in Reps :
        conf \in [lapse : {lapse}, num_rep : {num_rep},
                  files : [0 .. lapse - 1 -> FileCounts]]
  BY DEF Init
<1>2. /\ conf.lapse \in Lapses /\ conf.num_rep \in Reps
      /\ conf.files \in [0 .. conf.lapse - 1 -> FileCounts]
  BY <1>1
<1>3. ConfType  BY <1>2, CountsAssumption DEF ConfType
<1>4. Len(hours_list) \in Nat /\ conf.lapse \in Nat  BY <1>3, HoursList DEF ConfType
<1>5. /\ num_done_hours = 0 /\ change_time = TRUE /\ list_init = <<>> /\ list_cross = <<>>
      /\ count = 0 /\ starttime = 0 /\ returned = <<>> /\ status = "running"
  BY DEF Init
<1>6. TypeOK
  <2>1. DOMAIN list_init = {} /\ Len(list_cross) = 0  BY <1>5
  <2> QED  BY <1>2, <1>4, <1>5, <2>1 DEF TypeOK
<1> QED
  BY <1>5, <1>6, OutputNone DEF IInv, InHour, LoadedSoFar, ReturnedSoFar, EndsAfterLast

\* A call past its first block.
LEMMA CallKeepsIInv ==
  ASSUME TypeOK, NEW s, HourOpen(s), status = "running", Call(s)
  PROVE  IInv'
<1> DEFINE n == conf.files[s.hour]
           p == s.cross[s.count + 1]
<1>1. ConfType  BY ConfTypeFact
<1>2. /\ s.done \in Nat /\ s.done - 1 \in Nat /\ s.done \in 0 .. Len(hours_list)
      /\ s.hour \in 0 .. conf.lapse - 1 /\ s.cross \in Seq(Nat \X Nat)
  BY <1>1, HourFacts
<1>3. /\ s.count \in 0 .. Len(s.cross) /\ s.hour = hours_list[s.done]
      /\ s.cross = CrossList(n) /\ s.done \in 1 .. Len(hours_list)
      /\ DOMAIN s.init = 0 .. n - 1
      /\ \A f \in DOMAIN s.init : s.init[f] \in {Null, Array(s.hour, f)}
  BY DEF HourOpen
<1>4. /\ conf' = conf /\ num_done_hours' = s.done /\ list_cross' = s.cross
      /\ starttime' = s.hour
  BY DEF Call
<1>5. /\ hours_list' = hours_list
      /\ OutputOfHours(num_done_hours)' = OutputOfHours(s.done)
      /\ OutputOfHours(num_done_hours - 1)' = OutputOfHours(s.done - 1)
  BY <1>4, SameHours
<1>6. s.hour \in 0 .. conf.lapse
  <2>1. conf.lapse \in Nat  BY <1>1 DEF ConfType
  <2> QED  BY <1>2, <2>1
<1>7. Len(s.cross) \in Nat /\ s.count \in Nat
  <2> DEFINE c == s.cross
             k == s.count
  <2>1. c \in Seq(Nat \X Nat) /\ k \in 0 .. Len(c)  BY <1>2, <1>3
  <2> HIDE DEF c, k
  <2>2. Len(c) \in Nat /\ k \in Nat  BY <2>1
  <2> QED  BY <2>2 DEF c, k
<1> HIDE DEF n, p
<1>8. CASE ReturnPair(s)
  <2> DEFINE y == Loaded(s, p)
  <2>1. /\ s.count < Len(s.cross) /\ list_init' = y /\ count' = s.count + 1
        /\ change_time' = (s.count + 1 = Len(s.cross))
        /\ returned' = Append(returned,
             [first |-> p[1], array1 |-> y[p[1]], second |-> p[2], array2 |-> y[p[2]],
              hour |-> s.hour])
        /\ status' = "running"
    BY <1>8 DEF ReturnPair, p
  <2>2. /\ y[p[1]] = Array(s.hour, p[1]) /\ y[p[2]] = Array(s.hour, p[2])
        /\ DOMAIN y = 0 .. n - 1
        /\ \A f \in DOMAIN y : y[f] \in {Null, Array(s.hour, f)}
        /\ \A f \in DOMAIN y :
             (f = 0 \/ \E m \in 1 .. s.count + 1 : s.cross[m][2] = f) => y[f] = Array(s.hour, f)
    <3>1. p = s.cross[s.count + 1]  BY DEF p
    <3>2. s.count < Len(s.cross)  BY <2>1
    <3> HIDE DEF y
    <3>3. FilesLoaded(s, p, y)  BY <1>1, <3>1, <3>2, ArraysLoaded DEF y
    <3> QED  BY <3>3 DEF FilesLoaded, n
  <2> HIDE DEF y
  <2>3. returned' = Append(returned, Pair(s.hour, p[1], p[2]))  BY <2>1, <2>2 DEF Pair
  <2>4. /\ returned' = OutputOfHours(s.done - 1) \o SubSeq(HourOutput(s.hour, n), 1, s.count + 1)
        /\ s.count + 1 = Len(s.cross) => returned' = OutputOfHours(s.done)
    BY <1>1, <2>1, <2>3, NextItem DEF n, p
  <2>5. s.count + 1 \in 0 .. Len(s.cross) /\ (s.count + 1 # Len(s.cross) => s.count + 1 < Len(s.cross))
    BY <1>7, <2>1
  <2>6. TypeOK'
    <3>1. /\ conf'.lapse \in Lapses /\ conf'.num_rep \in Reps
          /\ conf'.files \in [0 .. conf'.lapse - 1 -> FileCounts]
      BY <1>4 DEF TypeOK
    <3>2. num_done_hours' \in 0 .. Len(hours_list') /\ starttime' \in 0 .. conf'.lapse
      BY <1>2, <1>4, <1>5, <1>6
    <3>3. count' \in 0 .. Len(list_cross') /\ change_time' \in BOOLEAN  BY <1>4, <2>1, <2>5
    <3>4. \A f \in DOMAIN list_init' : list_init'[f] \in {Null, Array(starttime', f)}
      BY <1>4, <2>1, <2>2
    <3> QED  BY <2>1, <3>1, <3>2, <3>3, <3>4 DEF TypeOK
  <2>7. InHour'
    <3>1. CrossList(conf.files[starttime])' = s.cross  BY <1>3, <1>4 DEF CrossList, n
    <3>2. num_done_hours' > 0 /\ starttime' = hours_list'[num_done_hours']
      BY <1>2, <1>3, <1>4, <1>5
    <3>3. DOMAIN list_init' = 0 .. conf'.files[starttime'] - 1  BY <1>4, <2>1, <2>2 DEF n
    <3>4. ~change_time' => count' < Len(list_cross')  BY <1>4, <2>1, <2>5
    <3> QED  BY <1>4, <3>1, <3>2, <3>3, <3>4 DEF InHour
  <2>8. LoadedSoFar'  BY <1>4, <2>1, <2>2 DEF LoadedSoFar
  <2>9. ReturnedSoFar'
    <3>1. HourOutput(starttime, conf.files[starttime])' = HourOutput(s.hour, n)
      BY <1>4 DEF n, HourOutput, Pair, Array
    <3>2. CASE change_time'
      BY <1>5, <2>1, <2>4, <3>2 DEF ReturnedSoFar
    <3>3. CASE ~change_time'
      BY <1>5, <2>1, <2>4, <3>1, <3>3 DEF ReturnedSoFar
    <3> QED  BY <3>2, <3>3
  <2>10. EndsAfterLast'  BY <2>1 DEF EndsAfterLast
  <2> QED  BY <2>6, <2>7, <2>8, <2>9, <2>10 DEF IInv
<1>9. CASE ReturnError(s)
  <2>1. /\ s.count >= Len(s.cross) /\ list_init' = s.init /\ count' = s.count
        /\ change_time' = FALSE /\ status' = "error" /\ returned' = returned
    BY <1>9 DEF ReturnError
  <2>2. TypeOK'
    <3>1. /\ conf'.lapse \in Lapses /\ conf'.num_rep \in Reps
          /\ conf'.files \in [0 .. conf'.lapse - 1 -> FileCounts]
      BY <1>4 DEF TypeOK
    <3>2. num_done_hours' \in 0 .. Len(hours_list') /\ starttime' \in 0 .. conf'.lapse
      BY <1>2, <1>4, <1>5, <1>6
    <3>3. count' \in 0 .. Len(list_cross') /\ change_time' \in BOOLEAN  BY <1>3, <1>4, <2>1
    <3>4. \A f \in DOMAIN list_init' : list_init'[f] \in {Null, Array(starttime', f)}
      BY <1>3, <1>4, <2>1
    <3> QED  BY <2>1, <3>1, <3>2, <3>3, <3>4 DEF TypeOK
  <2>3. InHour'
    BY <1>2, <1>3, <1>4, <1>5, <2>1 DEF InHour, n
  <2>4. LoadedSoFar'  BY <1>4, <2>1 DEF LoadedSoFar, HourOpen
  <2>5. ReturnedSoFar'
    <3>1. HourOutput(starttime, conf.files[starttime])' = HourOutput(s.hour, n)
      BY <1>4 DEF n, HourOutput, Pair, Array
    <3>2. returned = OutputOfHours(s.done - 1) \o SubSeq(HourOutput(s.hour, n), 1, s.count)
      BY DEF HourOpen, n
    <3> QED  BY <1>5, <2>1, <3>1, <3>2 DEF ReturnedSoFar
  <2>6. EndsAfterLast'  BY <2>1 DEF EndsAfterLast
  <2> QED  BY <2>2, <2>3, <2>4, <2>5, <2>6 DEF IInv
<1> QED  BY <1>8, <1>9 DEF Call

\* A step that leaves everything but the status as it is.
LEMMA QuietKeepsIInv ==
  ASSUME IInv,
         UNCHANGED <<conf, num_done_hours, change_time, list_init, list_cross, count,
                     starttime, returned>>,
         \/ status' = status
         \/ status' = "end" /\ change_time /\ num_done_hours = Len(hours_list)
  PROVE  IInv'
<1>1. /\ hours_list' = hours_list
      /\ OutputOfHours(num_done_hours)' = OutputOfHours(num_done_hours)
      /\ OutputOfHours(num_done_hours - 1)' = OutputOfHours(num_done_hours - 1)
  BY SameHours
<1>2. HourOutput(starttime, conf.files[starttime])' = HourOutput(starttime, conf.files[starttime])
  BY DEF HourOutput, Pair, Array
<1>3. TypeOK'  BY <1>1 DEF IInv, TypeOK
<1>4. InHour'  BY <1>1 DEF IInv, InHour
<1>5. LoadedSoFar'  BY DEF IInv, LoadedSoFar
<1>6. ReturnedSoFar'
  <2>1. ReturnedSoFar  BY DEF IInv
  <2> QED  BY <1>1, <1>2, <2>1 DEF ReturnedSoFar
<1>7. EndsAfterLast'  BY <1>1 DEF IInv, EndsAfterLast
<1> QED  BY <1>3, <1>4, <1>5, <1>6, <1>7 DEF IInv

\* One step of the stream.
LEMMA StepKeepsIInv == IInv /\ [Next]_vars => IInv'
<1> SUFFICES ASSUME IInv, [Next]_vars PROVE IInv'  OBVIOUS
<1>1. TypeOK  BY DEF IInv
<1>2. CASE CallSameHour
  <2>1. HourOpen(Current)  BY <1>2, CurrentOpen DEF CallSameHour
  <2> QED  BY <1>1, <1>2, <2>1, CallKeepsIInv DEF CallSameHour
<1>3. CASE CallNextHour
  <2>1. HourOpen(Opened)  BY <1>3, NextOpen DEF CallNextHour
  <2> QED  BY <1>1, <1>3, <2>1, CallKeepsIInv DEF CallNextHour
<1>4. CASE CallEnd  BY <1>4, QuietKeepsIInv DEF CallEnd
<1>5. CASE Ended  BY <1>5, QuietKeepsIInv DEF Ended, vars
<1>6. CASE UNCHANGED vars  BY <1>6, QuietKeepsIInv DEF vars
<1> QED  BY <1>2, <1>3, <1>4, <1>5, <1>6 DEF Next

\* The inductive invariant holds throughout.
THEOREM Invariance == Spec => []IInv
<1>1. Init => IInv  BY InitIInv
<1>2. IInv /\ [Next]_vars => IInv'  BY StepKeepsIInv
<1> QED  BY <1>1, <1>2, PTL DEF Spec

\* The positions in the lists stay within them, and a loaded array is that of its
\* own file and hour.
THEOREM TypeCorrect == Spec => []TypeOK
<1>1. IInv => TypeOK  BY DEF IInv
<1> QED  BY <1>1, Invariance, PTL

\* The items returned so far are a prefix of what Product writes.
LEMMA IInvPrefix == IInv => PrefixOfProduct
<1> SUFFICES ASSUME IInv PROVE PrefixOfProduct  OBVIOUS
<1>1. ConfType  BY ConfTypeFact DEF IInv
<1>2. CASE change_time
  <2> DEFINE a == OutputOfHours(num_done_hours)
  <2>1. returned = a  BY <1>2 DEF IInv, ReturnedSoFar
  <2>2. num_done_hours \in 0 .. Len(hours_list)  BY DEF IInv, TypeOK
  <2>3. a \in Seq(Items) /\ \E rest \in Seq(Items) : Reference = a \o rest
    BY <1>1, <2>2, OutputRest
  <2> HIDE DEF a
  <2>4. PICK rest \in Seq(Items) : Reference = a \o rest  BY <2>3
  <2>5. a \in Seq(Items) /\ rest \in Seq(Items)  BY <2>3
  <2>6. IsPrefix(a, a \o rest)  BY ONLY <2>5, ConcatPrefix
  <2> QED  BY <2>1, <2>4, <2>6 DEF PrefixOfProduct
<1>3. CASE ~change_time
  <2> DEFINE s == Current
             a == OutputOfHours(s.done - 1)
             b == HourOutput(s.hour, conf.files[s.hour])
             k == s.count
  <2>1. HourOpen(s)  BY <1>3, CurrentOpen
  <2>2. /\ s.done - 1 \in Nat /\ s.done - 1 < Len(hours_list) /\ (s.done - 1) + 1 = s.done
        /\ s.done \in 0 .. Len(hours_list)
        /\ b \in Seq(Items) /\ PairsOf(b, s.cross, s.hour) /\ s.cross \in Seq(Nat \X Nat)
    <3> HIDE DEF s
    <3> QED  BY <1>1, <2>1, HourFacts
  <2>3. /\ s.hour = hours_list[s.done] /\ k \in 0 .. Len(s.cross)
        /\ returned = a \o SubSeq(b, 1, k)
    <3> HIDE DEF s
    <3> QED  BY <2>1 DEF HourOpen
  <2> HIDE DEF s
  <2>4. a \in Seq(Items) /\ OutputOfHours(s.done) = a \o b
    BY <1>1, <2>2, <2>3, OutputStep DEF HourItems
  <2>5. PICK rest \in Seq(Items) : Reference = OutputOfHours(s.done) \o rest
    BY <1>1, <2>2, OutputRest
  <2>6. k \in 0 .. Len(b)  BY <2>2, <2>3 DEF PairsOf
  <2> HIDE DEF a, b, k
  <2>7. a \in Seq(Items) /\ b \in Seq(Items)  BY <2>2, <2>4
  <2>8. IsPrefix(a \o SubSeq(b, 1, k), (a \o b) \o rest)
    BY ONLY <2>6, <2>7, rest \in Seq(Items), ConcatFirstPrefix
  <2> QED  BY <2>3, <2>4, <2>5, <2>8 DEF PrefixOfProduct
<1> QED  BY <1>2, <1>3

\* Item for item the stream is a prefix of what Product writes, for every list of
\* hours and every number of files in each.
THEOREM Prefix == Spec => []PrefixOfProduct
<1>1. IInv => PrefixOfProduct  BY IInvPrefix
<1> QED  BY <1>1, Invariance, PTL

\* A stream that ends as it should is the whole of what Product writes.
THEOREM Complete == Spec => []EndsComplete
<1>1. IInv => EndsComplete
  <2> SUFFICES ASSUME IInv, status = "end" PROVE returned = Reference  BY DEF EndsComplete
  <2>1. ConfType  BY ConfTypeFact DEF IInv
  <2>2. change_time /\ num_done_hours = Len(hours_list)  BY DEF IInv, EndsAfterLast
  <2>3. returned = OutputOfHours(num_done_hours)  BY <2>2 DEF IInv, ReturnedSoFar
  <2> QED  BY <2>1, <2>2, <2>3, OutputAll
<1> QED  BY <1>1, Invariance, PTL

=============================================================================
