------------------------ MODULE NativePipeline_proofs ------------------------
(***************************************************************************)
(* The inductive invariant of EndMarkers, for every pipeline, every length *)
(* of the stream and every size of the queues: the end of the stream       *)
(* travels through a pipeline of threads as one marker on each edge.       *)
(*                                                                         *)
(* First, how the threads start: every pipeline, of any length, with farms *)
(* of any size and any of the nestings that IsPipeline admits, gets        *)
(* threads that are linked as they should be (PipelineLinked): no two of   *)
(* one name, nobody between a filter and its ordering thread, an edge fed  *)
(* by one thread or one farm, and of each farm the replicas, and nobody    *)
(* else, behind the queue of the farm.  The names are paths, and what a    *)
(* pattern creates is named by paths through its own: so the patterns of a *)
(* pipeline meet only in the queues between them, and what holds of each   *)
(* holds of all (Region, Serial).                                          *)
(*                                                                         *)
(* Then the steps: one of a thread, other than a push, is shown to be of   *)
(* one of four kinds (Settled): it has nothing to do with the end (Work),  *)
(* takes an end marker and leaves the loop (Leave), ends its output        *)
(* (Finish), or is the end of a replica (FarmEnd).  What each kind does to *)
(* the markers of an edge is proved once, what each action does to its     *)
(* thread once.                                                            *)
(*                                                                         *)
(* Last, again of how the threads start, what the account of the stream    *)
(* needs: a regular pipeline gets threads that are Straight.  Every queue  *)
(* leads on to the next pattern (Plain), each filter divides the threads   *)
(* into those in front of it and those behind (Chain), and the sequential  *)
(* pipeline consumes what the filter keeps, in order (SeqPipelineSifts).   *)
(* And of every pipeline: it gets finitely many threads (RolesFinite), one *)
(* consumer at most, and threads of an iteration only if it holds one.     *)
(***************************************************************************)
EXTENDS StreamAccount, SequenceLemmas, FiniteSetTheorems, TLAPS

Paths == Seq(Nat)

\* s goes through P; on, behind it; P and s part before either ends.
Within(P, s) == s \in Paths /\ Len(P) <= Len(s) /\ \A i \in 1 .. Len(P) : s[i] = P[i]
Below(P, s) == Within(P, s) /\ Len(P) < Len(s)
Apart(P, s) == \E i \in 1 .. Len(P) : i <= Len(s) /\ P[i] # s[i]

-----------------------------------------------------------------------------
(* How threads are linked. *)

Hosts(r) == r.kind \in {"replica", "context"}
Waits(r) == Hosts(r) /\ r.in = User
Ids(R) == {r.id : r \in R}
CrewOf(r) == r.helpers \cup {r.id}
OfOneFarm(r, s) == r.kind = "replica" /\ s.kind = "replica" /\ Front(r.id) = Front(s.id)

\* A thread that pops has a queue to pop from, one that pushes has another to push to.
LinkedRole(R, r) ==
  /\ r.kind \in SimpleKinds \cup
       {"generate", "replica", "context", "reorder", "consume", "farm_sink"}
  /\ r.id \in Paths /\ r.in \in Paths /\ r.out \in Paths
  /\ r.helpers \subseteq Ids(R)
  /\ r.kind = "generate" => r.in = User
  /\ r.in = User => r.kind = "generate" \/ Waits(r)
  /\ r.out = User <=> r.kind \in {"consume", "farm_sink"}
  /\ r.in # User => r.in # r.out
  /\ r.kind = "reduce" => r.stage.kind = "reduce" /\ IsSimple(r.stage)

\* The queue between a filter and its ordering thread is theirs.
LinkedFilter(R, r, ordered) ==
  /\ r.kind = "reorder" => \A s \in R : /\ s.in = r.in => s.kind = "reorder"
                                        /\ s.out = r.in => s.kind = "filter"
  /\ (ordered /\ r.kind = "filter") => \E s \in R : s.kind = "reorder" /\ s.in = r.out

\* Two threads feed one queue only if they are replicas of one farm, or a host that
\* waits feeds it too.
LinkedWriters(R, v, w) ==
  (v.out = w.out /\ v.out # User) =>
    v = w \/ OfOneFarm(v, w) \/ \E u \in R : u.out = v.out /\ Waits(u)

\* The first thread of replica r pops from q, no other from a queue before it.
Fed(R, r, q) ==
  /\ q # User /\ Len(q) < Len(r.id)
  /\ \E c \in R : c.id \in CrewOf(r) /\ c.in = q
  /\ \A c \in R : c.id \in CrewOf(r) => c.in \in {User, q} \/ Len(r.id) <= Len(c.in)

\* What shares the queue of a farm is a crew of one of its replicas, and there are
\* as many of these as the farm is given.
LinkedReplica(R, r) ==
  /\ \E q \in {c.in : c \in R} :
       /\ Fed(R, r, q)
       /\ q # r.out /\ q[1] <= r.out[1]
       /\ \A c \in R : c.in = q =>
            /\ c.kind \notin {"farm_sink", "reorder"}
            /\ \E t \in R : OfOneFarm(t, r) /\ c.id \in CrewOf(t)
       /\ \A t \in R : OfOneFarm(t, r) => Fed(R, t, q)
  /\ \A t \in R : (t.kind = "replica" /\ t # r) => CrewOf(t) \cap CrewOf(r) = {}
  /\ r.stage.n \in Nat
  /\ IsFiniteSet(Ids({t \in R : OfOneFarm(t, r)}))
  /\ Cardinality(Ids({t \in R : OfOneFarm(t, r)})) = r.stage.n

LinkedThreads(R, ordered) ==
  /\ \A r, s \in R : r.id = s.id => r = s
  /\ \A r \in R : LinkedRole(R, r) /\ LinkedFilter(R, r, ordered)
  /\ \A v, w \in R : LinkedWriters(R, v, w)

Farmed(R) == \A r \in R : r.kind = "replica" => LinkedReplica(R, r)

Linked(R, ordered) == LinkedThreads(R, ordered) /\ Farmed(R)

-----------------------------------------------------------------------------
(* Paths. *)

\* A path goes through itself and, if it goes through Q, through what Q goes through.
LEMMA WithinOrder ==
  ASSUME NEW P \in Paths
  PROVE  /\ Within(P, P)
         /\ \A Q, s : Within(P, Q) /\ Within(Q, s) => Within(P, s)
         /\ \A Q, s : Below(P, Q) /\ Within(Q, s) => Below(P, s)
         /\ \A Q, s : Within(P, Q) /\ Below(Q, s) => Below(P, s)
BY DEF Within, Below, Paths

\* The next step of a path.
LEMMA Onward ==
  ASSUME NEW P \in Paths, NEW k \in Nat
  PROVE  /\ Append(P, k) \in Paths
         /\ Len(Append(P, k)) = Len(P) + 1
         /\ Append(P, k)[Len(P) + 1] = k
         /\ Below(P, Append(P, k))
         /\ Front(Append(P, k)) = P
<1>1. /\ Append(P, k) \in Paths
      /\ Len(Append(P, k)) = Len(P) + 1
      /\ Append(P, k)[Len(P) + 1] = k
      /\ Below(P, Append(P, k))
  BY DEF Within, Below, Paths
<1>2. SubSeq(Append(P, k), 1, Len(P)) = P  BY DEF Paths
<1>3. Len(Append(P, k)) - 1 = Len(P)  BY <1>1 DEF Paths
<1> QED  BY <1>1, <1>2, <1>3 DEF Front

\* What goes through two different next steps is nothing.
LEMMA Forks ==
  ASSUME NEW P \in Paths, NEW j \in Nat, NEW k \in Nat, NEW s,
         Within(Append(P, j), s), Within(Append(P, k), s)
  PROVE  j = k
<1>1. Len(P) + 1 \in 1 .. Len(Append(P, j)) /\ Len(P) + 1 \in 1 .. Len(Append(P, k))
  BY Onward DEF Paths
<1>2. s[Len(P) + 1] = j /\ s[Len(P) + 1] = k  BY <1>1, Onward DEF Within
<1> QED  BY <1>2

\* Paths that part are not within one another, and go on apart.
LEMMA Parted ==
  ASSUME NEW P \in Paths, NEW s \in Paths, Apart(P, s)
  PROVE  /\ ~Within(P, s)
         /\ \A Q : Within(P, Q) => Apart(Q, s)
         /\ \A Q : Within(Q, P) => s # Q
         /\ s # User
BY DEF Within, Apart, Paths, User

\* Neighbours part.
LEMMA Neighbours ==
  ASSUME NEW P \in Paths, NEW j \in Nat, NEW k \in Nat, j # k
  PROVE  Apart(Append(P, j), Append(P, k))
<1>1. Len(P) + 1 \in 1 .. Len(Append(P, j)) /\ Len(P) + 1 <= Len(Append(P, k))
  BY Onward DEF Paths
<1> DEFINE i == Len(P) + 1
<1>2. i \in 1 .. Len(Append(P, j)) /\ i <= Len(Append(P, k))
      /\ Append(P, j)[i] # Append(P, k)[i]
  BY <1>1, Onward
<1> HIDE DEF i
<1> QED  BY <1>2 DEF Apart

\* All that goes through P starts like P.
LEMMA SameStart ==
  ASSUME NEW P \in Paths, P # User, NEW s, Within(P, s)
  PROVE  s[1] = P[1] /\ s # User
BY DEF Within, Paths, User

-----------------------------------------------------------------------------
(* A pattern at path P, from queue I to queue O. *)

\* What it creates has names through P, and meets the rest of the pipeline in I and O.
Located(R, P, I, O) ==
  \A r \in R : /\ Within(P, r.id)
               /\ r.in \in {User, I} \/ Below(P, r.in)
               /\ r.out = O \/ Below(P, r.out)
               /\ r.kind = "replica" => Within(P, Front(r.id))
               /\ r.kind = "reorder" => Below(P, r.in)

Region(R, P, I, O, ordered) ==
  /\ LinkedThreads(R, ordered) /\ Farmed(R)
  /\ Located(R, P, I, O)
  /\ \E r \in R : r.in = I

\* The first m places of a sequence of stages at P, with what Places puts between them.
Entry(P, I, k) == IF k = 1 THEN I ELSE Append(P, k)

Serial(Rs, m, P, I, outs, ordered) ==
  /\ m \in Nat /\ P \in Paths /\ I \in Paths /\ I # User
  /\ Within(I, P) \/ I = Append(P, 1)
  /\ \A k \in 1 .. m :
       /\ Region(Rs[k], Append(P, k), Entry(P, I, k), outs[k], ordered)
       /\ outs[k] \in Paths
       /\ k < m => outs[k] = Append(P, k + 1)
       /\ k = m => outs[k] \in {Append(P, m + 1), Append(P, 0), User} \/ Apart(P, outs[k])

All(Rs, m) == UNION {Rs[k] : k \in 1 .. m}

\* A queue of one place that is in front of another, or in it, does not exist.
LEMMA QueuesApart ==
  ASSUME NEW Rs, NEW m, NEW P, NEW I, NEW outs, NEW ordered,
         Serial(Rs, m, P, I, outs, ordered),
         NEW j \in 1 .. m, NEW k \in 1 .. m, NEW q
  PROVE  /\ (/\ q = Entry(P, I, j) \/ Below(Append(P, j), q)
             /\ q = Entry(P, I, k) \/ Below(Append(P, k), q)) => j = k
         /\ (/\ q = outs[j] \/ Below(Append(P, j), q)
             /\ q = outs[k] \/ Below(Append(P, k), q)
             /\ q # User) => j = k
         /\ (/\ q = outs[j] \/ Below(Append(P, j), q)
             /\ Below(Append(P, k), q)) => j = k
<1>1. P \in Paths /\ m \in Nat /\ j \in Nat /\ k \in Nat /\ j # 0 /\ k # 0 /\ I \in Paths
  BY DEF Serial
<1>2. Len(P) \in Nat /\ Len(I) \in Nat  BY <1>1 DEF Paths
<1>3. \A x \in Nat : /\ Len(Append(P, x)) = Len(P) + 1
                     /\ Append(P, x)[Len(P) + 1] = x
                     /\ Below(P, Append(P, x))
  BY <1>1, Onward
<1>4. ASSUME NEW x \in 1 .. m, NEW y \in 1 .. m, x # y,
             q = Entry(P, I, x) \/ Below(Append(P, x), q), Below(Append(P, y), q)
      PROVE  FALSE
  <2>1. Len(Entry(P, I, x)) <= Len(P) + 1
    BY <1>1, <1>2, <1>3 DEF Entry, Serial, Within
  <2>2. Len(q) > Len(P) + 1 /\ Within(Append(P, y), q)
    <3>1. y \in Nat /\ Len(Append(P, y)) = Len(P) + 1  BY <1>1, <1>3
    <3> QED  BY <1>2, <1>4, <3>1 DEF Below
  <2>3. Below(Append(P, x), q)  BY <1>2, <1>4, <2>1, <2>2 DEF Below, Within, Paths
  <2> QED  BY <1>1, <1>4, <2>2, <2>3, Forks DEF Below
<1>5. ASSUME j # k, Entry(P, I, j) = Entry(P, I, k) PROVE FALSE
  <2>1. \A x \in Nat : x # 1 => I # Append(P, x)
    BY <1>1, <1>2, <1>3 DEF Serial, Within
  <2> QED  BY <1>1, <1>3, <1>5, <2>1 DEF Entry
<1>6. ASSUME NEW x \in 1 .. m, Within(P, outs[x]), outs[x] # User
      PROVE  \E y \in Nat : outs[x] = Append(P, y) /\ y \in {x + 1, 0} /\ (x < m => y = x + 1)
  <2>1. ~Apart(P, outs[x])  BY <1>1, <1>6, Parted DEF Serial
  <2>2. x \in Nat /\ (x < m \/ x = m)  BY <1>1
  <2> QED  BY <1>1, <1>6, <2>1, <2>2 DEF Serial
<1>7. ASSUME NEW x \in 1 .. m, NEW y \in 1 .. m, x # y,
             q = outs[x] \/ Below(Append(P, x), q), Below(Append(P, y), q)
      PROVE  FALSE
  <2>1. Len(q) > Len(P) + 1 /\ Within(Append(P, y), q) /\ y \in Nat
    <3>1. y \in Nat /\ Len(Append(P, y)) = Len(P) + 1  BY <1>1, <1>3
    <3> QED  BY <1>2, <1>7, <3>1 DEF Below
  <2>2. Within(P, q) /\ q # User
    <3>1. Within(P, Append(P, y))  BY <1>3, <2>1 DEF Below
    <3>2. Within(P, q)  BY <1>1, <2>1, <3>1, WithinOrder
    <3> QED  BY <1>2, <2>1, <3>2 DEF Paths, User
  <2>3. q # outs[x]  BY <1>1, <1>2, <1>3, <1>6, <2>1, <2>2
  <2> QED  BY <1>1, <1>7, <2>1, <2>3, Forks DEF Below
<1>8. ASSUME j # k, outs[j] = outs[k], outs[j] # User PROVE FALSE
  <2>1. ASSUME NEW x \in 1 .. m, NEW y \in 1 .. m, x < y, outs[x] = outs[y], outs[x] # User
        PROVE  FALSE
    <3>1. x \in Nat /\ y \in Nat /\ x < m  BY <1>1, <2>1
    <3>2. outs[x] = Append(P, x + 1)  BY <3>1 DEF Serial
    <3>3. Within(P, outs[y])  BY <1>3, <2>1, <3>1, <3>2 DEF Below
    <3>4. PICK z \in Nat : outs[y] = Append(P, z) /\ z \in {y + 1, 0}  BY <1>6, <2>1, <3>3
    <3>5. z = x + 1
      <4>1. Append(P, x + 1) = Append(P, z)  BY <2>1, <3>2, <3>4
      <4>2. x + 1 \in Nat  BY <3>1
      <4> QED  BY <1>3, <4>1, <4>2
    <3> QED  BY <2>1, <3>1, <3>4, <3>5
  <2>2. j < k \/ k < j  BY <1>1, <1>8
  <2> QED  BY <1>8, <2>1, <2>2
<1> QED  BY <1>4, <1>5, <1>7, <1>8

\* The names, queues in and queues out of different places are different.
LEMMA PlacesApart ==
  ASSUME NEW Rs, NEW m, NEW P, NEW I, NEW outs, NEW ordered,
         Serial(Rs, m, P, I, outs, ordered),
         NEW j \in 1 .. m, NEW k \in 1 .. m, NEW r \in Rs[j], NEW s \in Rs[k]
  PROVE  /\ r.id = s.id => j = k
         /\ (r.kind = "replica" /\ s.kind = "replica" /\ Front(r.id) = Front(s.id)) => j = k
         /\ (r.in = s.in /\ r.in # User) => j = k
         /\ (r.out = s.out /\ r.out # User) => j = k
         /\ (s.kind = "reorder" /\ s.in \in {r.in, r.out}) => j = k
<1>1. P \in Paths /\ j \in Nat /\ k \in Nat  BY DEF Serial
<1>2. /\ Within(Append(P, j), r.id)
      /\ r.in \in {User, Entry(P, I, j)} \/ Below(Append(P, j), r.in)
      /\ r.out = outs[j] \/ Below(Append(P, j), r.out)
      /\ r.kind = "replica" => Within(Append(P, j), Front(r.id))
  BY DEF Serial, Region, Located
<1>3. /\ Within(Append(P, k), s.id)
      /\ s.in \in {User, Entry(P, I, k)} \/ Below(Append(P, k), s.in)
      /\ s.out = outs[k] \/ Below(Append(P, k), s.out)
      /\ s.kind = "replica" => Within(Append(P, k), Front(s.id))
      /\ s.kind = "reorder" => Below(Append(P, k), s.in)
  BY DEF Serial, Region, Located
<1>4. r.id = s.id => j = k  BY <1>1, <1>2, <1>3, Forks
<1>5. (r.kind = "replica" /\ s.kind = "replica" /\ Front(r.id) = Front(s.id)) => j = k
  BY <1>1, <1>2, <1>3, Forks
<1>6. (r.in = s.in /\ r.in # User) => j = k  BY <1>2, <1>3, QueuesApart
<1>7. (r.out = s.out /\ r.out # User) => j = k  BY <1>2, <1>3, QueuesApart
<1>8. (s.kind = "reorder" /\ s.in = r.out) => j = k  BY <1>2, <1>3, QueuesApart
<1>9. (s.kind = "reorder" /\ s.in = r.in) => j = k
  <2>1. (s.kind = "reorder" /\ s.in = r.in) => r.in # User
    BY <1>1, <1>3, Onward DEF Below, Paths, User
  <2> QED  BY <1>6, <2>1
<1> QED  BY <1>4, <1>5, <1>6, <1>7, <1>8, <1>9

\* No thread of U outside R shares a name, a queue to pop from or a farm with one of R,
\* nor is one of R in the crew of a replica outside R.
Alone(R, U) ==
  /\ R \subseteq U
  /\ \A x \in R : x.helpers \subseteq Ids(R)
  /\ \A x \in R, y \in U \ R :
       /\ x.id # y.id
       /\ x.in # User => x.in # y.in
       /\ ~OfOneFarm(x, y)
       /\ y.kind = "replica" => x.id \notin y.helpers

\* Then what holds of a replica among the threads of R holds among all.
LEMMA StillReplica ==
  ASSUME NEW R, NEW U, Alone(R, U), NEW r \in R, r.kind = "replica", LinkedReplica(R, r)
  PROVE  LinkedReplica(U, r)
<1>1. R \subseteq U  BY DEF Alone
<1>2. \A x \in R, y \in U : y.id \in CrewOf(x) => y \in R
  BY DEF Alone, CrewOf, Ids
<1>3. \A q : \A x \in R : Fed(R, x, q) => Fed(U, x, q)
  BY <1>1, <1>2 DEF Fed
<1>4. \A t \in U : OfOneFarm(t, r) => t \in R  BY DEF Alone, OfOneFarm
<1>5. PICK q \in {c.in : c \in R} :
        /\ Fed(R, r, q)
        /\ q # r.out /\ q[1] <= r.out[1]
        /\ \A c \in R : c.in = q =>
             /\ c.kind \notin {"farm_sink", "reorder"}
             /\ \E t \in R : OfOneFarm(t, r) /\ c.id \in CrewOf(t)
        /\ \A t \in R : OfOneFarm(t, r) => Fed(R, t, q)
  BY DEF LinkedReplica
<1>6. \A c \in U : c.in = q => c \in R
  BY <1>5 DEF Alone, Fed
<1>7. \E p \in {c.in : c \in U} :
        /\ Fed(U, r, p)
        /\ p # r.out /\ p[1] <= r.out[1]
        /\ \A c \in U : c.in = p =>
             /\ c.kind \notin {"farm_sink", "reorder"}
             /\ \E t \in U : OfOneFarm(t, r) /\ c.id \in CrewOf(t)
        /\ \A t \in U : OfOneFarm(t, r) => Fed(U, t, p)
  <2>1. q \in {c.in : c \in U}  BY <1>1, <1>5
  <2>2. Fed(U, r, q)  BY <1>3, <1>5
  <2>3. \A c \in U : c.in = q =>
             /\ c.kind \notin {"farm_sink", "reorder"}
             /\ \E t \in U : OfOneFarm(t, r) /\ c.id \in CrewOf(t)
    BY <1>1, <1>5, <1>6
  <2>4. \A t \in U : OfOneFarm(t, r) => Fed(U, t, q)  BY <1>3, <1>4, <1>5
  <2> QED  BY <1>5, <2>1, <2>2, <2>3, <2>4
<1>8. ASSUME NEW t \in U, t.kind = "replica", t # r PROVE CrewOf(t) \cap CrewOf(r) = {}
  <2>1. CASE t \in R  BY <1>8, <2>1 DEF LinkedReplica
  <2>2. CASE t \notin R
    <3>1. \A x \in R : x.id # t.id /\ x.id \notin t.helpers  BY <1>8, <2>2 DEF Alone
    <3>2. CrewOf(r) \subseteq Ids(R)  BY DEF Alone, CrewOf, Ids
    <3> QED  BY <3>1, <3>2 DEF CrewOf, Ids
  <2> QED  BY <2>1, <2>2
<1>9. {t \in U : OfOneFarm(t, r)} = {t \in R : OfOneFarm(t, r)}  BY <1>1, <1>4
<1>10. /\ r.stage.n \in Nat
       /\ IsFiniteSet(Ids({t \in R : OfOneFarm(t, r)}))
       /\ Cardinality(Ids({t \in R : OfOneFarm(t, r)})) = r.stage.n
  BY DEF LinkedReplica
<1> QED  BY <1>7, <1>8, <1>9, <1>10 DEF LinkedReplica

\* The places together are linked.
LEMMA SerialLinked ==
  ASSUME NEW Rs, NEW m, NEW P, NEW I, NEW outs, NEW ordered,
         Serial(Rs, m, P, I, outs, ordered)
  PROVE  Linked(All(Rs, m), ordered)
<1> DEFINE U == All(Rs, m)
<1>1. \A r \in U : \E k \in 1 .. m : r \in Rs[k]  BY DEF All
<1>2. \A k \in 1 .. m : Rs[k] \subseteq U  BY DEF All
<1>3. \A k \in 1 .. m : LinkedThreads(Rs[k], ordered) /\ Farmed(Rs[k])
  BY DEF Serial, Region
<1> HIDE DEF U
<1>4. \A r, s \in U : r.id = s.id => r = s
  <2> SUFFICES ASSUME NEW r \in U, NEW s \in U, r.id = s.id PROVE r = s  OBVIOUS
  <2>1. PICK j \in 1 .. m : r \in Rs[j]  BY <1>1
  <2>2. PICK k \in 1 .. m : s \in Rs[k]  BY <1>1
  <2>3. j = k  BY <2>1, <2>2, PlacesApart
  <2> QED  BY <1>3, <2>1, <2>2, <2>3 DEF LinkedThreads
<1>5. ASSUME NEW r \in U PROVE LinkedRole(U, r) /\ LinkedFilter(U, r, ordered)
  <2>1. PICK k \in 1 .. m : r \in Rs[k]  BY <1>1
  <2>2. LinkedRole(Rs[k], r) /\ LinkedFilter(Rs[k], r, ordered)  BY <1>3, <2>1 DEF LinkedThreads
  <2>3. LinkedRole(U, r)
    <3>1. Ids(Rs[k]) \subseteq Ids(U)  BY <1>2 DEF Ids
    <3> QED  BY <2>2, <3>1 DEF LinkedRole
  <2>4. ASSUME NEW s \in U, r.kind = "reorder", r.in \in {s.in, s.out} PROVE s \in Rs[k]
    <3>1. PICK j \in 1 .. m : s \in Rs[j]  BY <1>1
    <3>2. j = k  BY <2>1, <2>4, <3>1, PlacesApart
    <3> QED  BY <3>1, <3>2
  <2>5. LinkedFilter(U, r, ordered)  BY <1>2, <2>2, <2>4 DEF LinkedFilter
  <2> QED  BY <2>3, <2>5
<1>6. ASSUME NEW v \in U, NEW w \in U PROVE LinkedWriters(U, v, w)
  <2> SUFFICES ASSUME v.out = w.out, v.out # User
               PROVE  v = w \/ OfOneFarm(v, w) \/ \E u \in U : u.out = v.out /\ Waits(u)
    BY DEF LinkedWriters
  <2>1. PICK j \in 1 .. m : v \in Rs[j]  BY <1>1
  <2>2. PICK k \in 1 .. m : w \in Rs[k]  BY <1>1
  <2>3. j = k  BY <2>1, <2>2, PlacesApart
  <2>4. LinkedWriters(Rs[j], v, w)  BY <1>3, <2>1, <2>2, <2>3 DEF LinkedThreads
  <2> QED  BY <1>2, <2>1, <2>4 DEF LinkedWriters
<1>7. ASSUME NEW r \in U, r.kind = "replica" PROVE LinkedReplica(U, r)
  <2>1. PICK k \in 1 .. m : r \in Rs[k]  BY <1>1
  <2>2. LinkedReplica(Rs[k], r)  BY <1>3, <1>7, <2>1 DEF Farmed
  <2>3. \A x \in Rs[k] : x.helpers \subseteq Ids(Rs[k])
    BY <1>3 DEF LinkedThreads, LinkedRole
  <2>4. ASSUME NEW x \in Rs[k], NEW y \in U \ Rs[k]
        PROVE  /\ x.id # y.id
               /\ x.in # User => x.in # y.in
               /\ ~OfOneFarm(x, y)
               /\ y.kind = "replica" => x.id \notin y.helpers
    <3>1. PICK j \in 1 .. m : y \in Rs[j]  BY <1>1
    <3>2. j # k  BY <2>4, <3>1
    <3>3. x.id # y.id /\ (x.in # User => x.in # y.in)  BY <3>1, <3>2, PlacesApart
    <3>4. ~OfOneFarm(x, y)  BY <3>1, <3>2, PlacesApart DEF OfOneFarm
    <3>5. ASSUME x.id \in y.helpers PROVE FALSE
      <4>1. PICK z \in Rs[j] : z.id = x.id  BY <1>3, <3>1, <3>5 DEF LinkedThreads, LinkedRole, Ids
      <4> QED  BY <3>2, <4>1, PlacesApart
    <3> QED  BY <3>3, <3>4, <3>5
  <2>5. Alone(Rs[k], U)  BY <1>2, <2>3, <2>4 DEF Alone
  <2> QED  BY <1>7, <2>1, <2>2, <2>5, StillReplica
<1> QED  BY <1>4, <1>5, <1>6, <1>7 DEF Linked, LinkedThreads, Farmed, U

-----------------------------------------------------------------------------
(* The thread that holds a sequence of stages. *)

\* Host h at P runs the last stage itself, or waits for the threads of all.
Hosted(Rs, m, P, I, O, outs, ordered, h) ==
  /\ Serial(Rs, m, P, I, outs, ordered)
  /\ P # User /\ Within(I, P)
  /\ O \in Paths /\ Apart(P, O)
  /\ h.id = P /\ Hosts(h) /\ h.out = O /\ h.helpers = Ids(All(Rs, m))
  /\ \/ h.in = Entry(P, I, m + 1) /\ \A k \in 1 .. m : outs[k] = Append(P, k + 1)
     \/ h.in = User /\ m # 0 /\ outs[m] \in {Append(P, 0), O}

\* What the host has created is below it, and is not in its way.
LEMMA HostApart ==
  ASSUME NEW Rs, NEW m, NEW P, NEW I, NEW O, NEW outs, NEW ordered, NEW h,
         Hosted(Rs, m, P, I, O, outs, ordered, h),
         NEW k \in 1 .. m, NEW r \in Rs[k]
  PROVE  /\ Below(P, r.id)
         /\ r.in \in {User, I} \/ Below(P, r.in)
         /\ r.out = O \/ Below(P, r.out)
         /\ r.kind = "replica" => Below(P, Front(r.id))
         /\ r.kind = "reorder" => Below(P, r.in)
         /\ r.in # User => r.in # h.in
         /\ r.kind = "reorder" => r.in \notin {h.in, O}
         /\ r.out = O => Waits(h)
<1>1. P \in Paths /\ m \in Nat /\ k \in Nat /\ k # 0 /\ k <= m /\ I \in Paths /\ I # User /\ O \in Paths
  BY DEF Hosted, Serial
<1>2. \A x \in Nat : /\ Len(Append(P, x)) = Len(P) + 1
                     /\ Append(P, x)[Len(P) + 1] = x
                     /\ Below(P, Append(P, x))
  BY <1>1, Onward
<1>3. /\ Within(Append(P, k), r.id)
      /\ r.in \in {User, Entry(P, I, k)} \/ Below(Append(P, k), r.in)
      /\ r.out = outs[k] \/ Below(Append(P, k), r.out)
      /\ r.kind = "replica" => Within(Append(P, k), Front(r.id))
      /\ r.kind = "reorder" => Below(Append(P, k), r.in)
  BY DEF Hosted, Serial, Region, Located
<1>4. \A s : Within(Append(P, k), s) => Below(P, s)
  BY <1>1, <1>2, WithinOrder
<1>5. \A s : Below(Append(P, k), s) => Below(P, s)
  BY <1>4 DEF Below
<1>6. Entry(P, I, k) = I \/ Below(P, Entry(P, I, k))  BY <1>1, <1>2 DEF Entry
<1>7. \/ outs[k] = O /\ Waits(h)
      \/ \E x \in Nat : outs[k] = Append(P, x)
  <2>1. CASE h.in = Entry(P, I, m + 1) /\ \A y \in 1 .. m : outs[y] = Append(P, y + 1)
    <3>1. k + 1 \in Nat /\ outs[k] = Append(P, k + 1)  BY <1>1, <2>1
    <3> QED  BY <3>1
  <2>2. CASE h.in = User /\ m # 0 /\ outs[m] \in {Append(P, 0), O}
    <3>1. Waits(h)  BY <2>2 DEF Hosted, Waits
    <3>2. CASE k < m
      <4>1. k + 1 \in Nat /\ outs[k] = Append(P, k + 1)  BY <1>1, <3>2 DEF Hosted, Serial
      <4> QED  BY <4>1
    <3>3. CASE k = m  BY <2>2, <3>1, <3>3
    <3> QED  BY <1>1, <3>2, <3>3
  <2> QED  BY <2>1, <2>2 DEF Hosted
<1>8. \A s : Below(P, s) => s # O /\ s # User
  <2>1. ~Within(P, O)  BY <1>1, Parted DEF Hosted
  <2> QED  BY <1>1, <2>1 DEF Below, Paths, User
<1>9. r.out = O \/ Below(P, r.out)  BY <1>2, <1>3, <1>5, <1>7
<1>10. r.out = O => Waits(h)
  BY <1>2, <1>3, <1>5, <1>7, <1>8
<1>11. ASSUME r.in # User, r.in = h.in PROVE FALSE
  <2>1. h.in = Append(P, m + 1)
    <3>1. m + 1 # 1  BY <1>1
    <3>2. h.in = Entry(P, I, m + 1) \/ h.in = User  BY DEF Hosted
    <3> QED  BY <1>11, <3>1, <3>2 DEF Entry
  <2>2. m + 1 \in Nat /\ k # m + 1 /\ Len(P) \in Nat /\ Len(I) \in Nat  BY <1>1 DEF Paths
  <2>3. Entry(P, I, k) # Append(P, m + 1)
    <3>1. Len(I) <= Len(P)  BY DEF Hosted, Within
    <3>2. I # Append(P, m + 1)  BY <1>2, <2>2, <3>1
    <3> QED  BY <1>1, <1>2, <2>2, <3>2 DEF Entry
  <2>4. ~Below(Append(P, k), Append(P, m + 1))
    <3>1. Len(Append(P, k)) = Len(Append(P, m + 1)) /\ Len(Append(P, k)) \in Nat
      BY <1>1, <1>2, <2>2
    <3> QED  BY <3>1 DEF Below
  <2> QED  BY <1>3, <1>11, <2>1, <2>3, <2>4
<1>12. r.kind = "reorder" => r.in \notin {h.in, O}
  BY <1>3, <1>5, <1>8, <1>11
<1> QED  BY <1>3, <1>4, <1>5, <1>6, <1>9, <1>10, <1>11, <1>12

\* The host and what it has created are joined.
LEMMA HostJoined ==
  ASSUME NEW Rs, NEW m, NEW P, NEW I, NEW O, NEW outs, NEW ordered, NEW h,
         Hosted(Rs, m, P, I, O, outs, ordered, h)
  PROVE  /\ LinkedThreads(All(Rs, m) \cup {h}, ordered)
         /\ \E r \in All(Rs, m) \cup {h} : r.in = I
<1> DEFINE U == All(Rs, m)
           V == U \cup {h}
<1>1. \A r \in U : \E k \in 1 .. m : r \in Rs[k]  BY DEF All
<1>2. LinkedThreads(U, ordered)  BY SerialLinked DEF Hosted, Linked
<1>3. \A r \in U : /\ Below(P, r.id)
                   /\ r.in # User => r.in # h.in
                   /\ r.kind = "reorder" => r.in \notin {h.in, O}
                   /\ r.out = O => Waits(h)
  BY <1>1, HostApart
<1>4. P \in Paths /\ O \in Paths /\ I \in Paths /\ I # User /\ m \in Nat
  BY DEF Hosted, Serial
<1>5. h.helpers = Ids(U) /\ h.id = P /\ h.out = O /\ Hosts(h)  BY DEF Hosted
<1>6. \E r \in V : r.in = I
  <2>1. CASE m = 0  BY <2>1 DEF Hosted, Entry
  <2>2. CASE m # 0
    <3>1. 1 \in 1 .. m  BY <1>4, <2>2
    <3>2. PICK r \in Rs[1] : r.in = I  BY <3>1 DEF Hosted, Serial, Region, Entry
    <3> QED  BY <3>1, <3>2 DEF All
  <2> QED  BY <2>1, <2>2
<1>7. O # User /\ ~Within(P, O) /\ \A Q : Within(Q, P) => O # Q
  BY <1>4, Parted DEF Hosted
<1>8. LinkedRole(V, h)
  <2>1. h.in = User \/ (h.in \in Paths /\ h.in # O)
    <3>1. \A x \in Nat : Append(P, x) \in Paths /\ Within(P, Append(P, x))
      BY <1>4, Onward DEF Below
    <3>2. Entry(P, I, m + 1) \in Paths /\ Entry(P, I, m + 1) # O
      <4>1. I # O  BY <1>7 DEF Hosted
      <4>2. Append(P, m + 1) \in Paths /\ Append(P, m + 1) # O
        <5>1. m + 1 \in Nat  BY <1>4
        <5> QED  BY <1>7, <3>1, <5>1
      <4> QED  BY <1>4, <4>1, <4>2 DEF Entry
    <3> QED  BY <3>2 DEF Hosted
  <2>2. User \in Paths  BY DEF User, Paths
  <2>3. h.helpers \subseteq Ids(V)  BY <1>5 DEF Ids
  <2> QED  BY <1>4, <1>5, <1>7, <2>1, <2>2, <2>3 DEF LinkedRole, Waits, Hosts
<1> HIDE DEF U
<1>9. ASSUME NEW r \in U PROVE LinkedRole(V, r) /\ LinkedFilter(V, r, ordered)
  <2>1. LinkedRole(U, r) /\ LinkedFilter(U, r, ordered)  BY <1>2 DEF LinkedThreads
  <2>2. Ids(U) \subseteq Ids(V)  BY DEF Ids
  <2>3. LinkedRole(V, r)  BY <2>1, <2>2 DEF LinkedRole
  <2> QED  BY <1>3, <1>5, <2>1, <2>3 DEF LinkedFilter
<1>10. LinkedFilter(V, h, ordered)  BY <1>5 DEF LinkedFilter, Hosts
<1>11. \A r, s \in V : r.id = s.id => r = s
  <2>1. \A r \in U : r.id # P  BY <1>3, <1>4 DEF Below, Paths
  <2> QED  BY <1>2, <1>5, <2>1 DEF LinkedThreads
<1>12. \A v, w \in V : LinkedWriters(V, v, w)
  <2>1. \A v, w \in U : LinkedWriters(V, v, w)  BY <1>2 DEF LinkedThreads, LinkedWriters
  <2>2. \A v \in V : v.out = O => v = h \/ Waits(h)  BY <1>3
  <2>3. \A v \in V : LinkedWriters(V, v, h) /\ LinkedWriters(V, h, v)
    BY <1>5, <2>2 DEF LinkedWriters
  <2> QED  BY <2>1, <2>3
<1> QED  BY <1>6, <1>8, <1>9, <1>10, <1>11, <1>12 DEF LinkedThreads, U

\* A context and what it has created: a pattern like any other.
LEMMA ContextRegion ==
  ASSUME NEW Rs, NEW m, NEW P, NEW I, NEW O, NEW outs, NEW ordered, NEW h,
         Hosted(Rs, m, P, I, O, outs, ordered, h), h.kind = "context"
  PROVE  Region(All(Rs, m) \cup {h}, P, I, O, ordered)
<1> DEFINE U == All(Rs, m)
           V == U \cup {h}
<1>1. \A r \in U : \E k \in 1 .. m : r \in Rs[k]  BY DEF All
<1>2. Linked(U, ordered)  BY SerialLinked DEF Hosted
<1>3. \A r \in U : /\ Below(P, r.id)
                   /\ r.in \in {User, I} \/ Below(P, r.in)
                   /\ r.out = O \/ Below(P, r.out)
                   /\ r.kind = "replica" => Below(P, Front(r.id))
                   /\ r.kind = "reorder" => Below(P, r.in)
                   /\ r.in # User => r.in # h.in
  BY <1>1, HostApart
<1>4. P \in Paths /\ I \in Paths /\ m \in Nat  BY DEF Hosted, Serial
<1>5. h.helpers = Ids(U) /\ h.id = P /\ h.out = O  BY DEF Hosted
<1>6. h.in \in {User, I} \/ Below(P, h.in)
  <2>1. m + 1 \in Nat  BY <1>4
  <2> QED  BY <1>4, <2>1, Onward DEF Hosted, Entry
<1>7. Within(P, P) /\ \A s : Below(P, s) => Within(P, s)
  BY <1>4, WithinOrder DEF Below
<1>8. LinkedThreads(V, ordered) /\ \E r \in V : r.in = I  BY HostJoined
<1> HIDE DEF U
<1>9. Located(V, P, I, O)  BY <1>3, <1>5, <1>6, <1>7 DEF Located
<1>10. Alone(U, V)
  <2>1. \A x \in U : x.helpers \subseteq Ids(U)  BY <1>2 DEF Linked, LinkedThreads, LinkedRole
  <2>2. \A x \in U : x.id # P  BY <1>3, <1>4 DEF Below, Paths
  <2> QED  BY <1>3, <1>5, <2>1, <2>2 DEF Alone, OfOneFarm
<1>11. Farmed(V)  BY <1>2, <1>10, StillReplica DEF Farmed, Linked
<1> QED  BY <1>8, <1>9, <1>11 DEF Region, U

-----------------------------------------------------------------------------
(* A farm. *)

\* Replica w of the farm at P, with what it has created for the stages it holds.
Replica(hosts, Rs, m, w) == All(Rs[w], m) \cup {hosts[w]}

Farm(hosts, Rs, m, n, P, I, O, outs, ordered) ==
  /\ n \in Nat /\ P \in Paths /\ Within(I, P) /\ I[1] <= O[1]
  /\ O \in Paths /\ Apart(P, O)
  /\ \A w \in 1 .. n :
       /\ Hosted(Rs[w], m, Append(P, w), I, O, outs[w], ordered, hosts[w])
       /\ hosts[w].kind = "replica" /\ hosts[w].stage.n = n
       /\ \A r \in All(Rs[w], m) : r.kind # "replica"

\* Where the threads of a replica are.
LEMMA ReplicaLocated ==
  ASSUME NEW hosts, NEW Rs, NEW m, NEW n, NEW P, NEW I, NEW O, NEW outs, NEW ordered,
         Farm(hosts, Rs, m, n, P, I, O, outs, ordered),
         NEW w \in 1 .. n, NEW r \in Replica(hosts, Rs, m, w)
  PROVE  /\ Within(Append(P, w), r.id)
         /\ r.id \in CrewOf(hosts[w])
         /\ r.in \in {User, I} \/ Below(Append(P, w), r.in)
         /\ r.out = O \/ Below(Append(P, w), r.out)
         /\ r.kind = "reorder" => Below(Append(P, w), r.in)
         /\ r.out = O => r = hosts[w] \/ Waits(hosts[w])
         /\ r.kind = "replica" => r = hosts[w]
<1> DEFINE h == hosts[w]
           Q == Append(P, w)
<1>1. Hosted(Rs[w], m, Q, I, O, outs[w], ordered, h)  BY DEF Farm
<1>2. /\ Q \in Paths /\ m \in Nat
      /\ h.id = Q /\ h.out = O /\ h.helpers = Ids(All(Rs[w], m)) /\ Hosts(h)
  BY <1>1 DEF Hosted, Serial
<1>3. CASE r = h
  <2>1. h.in \in {User, I} \/ Below(Q, h.in)
    <3>1. m + 1 \in Nat  BY <1>2
    <3> QED  BY <1>1, <1>2, <3>1, Onward DEF Hosted, Entry
  <2> QED  BY <1>2, <1>3, <2>1, WithinOrder DEF CrewOf, Hosts
<1>4. CASE r \in All(Rs[w], m)
  <2>1. PICK k \in 1 .. m : r \in Rs[w][k]  BY <1>4 DEF All
  <2>2. /\ Below(Q, r.id)
        /\ r.in \in {User, I} \/ Below(Q, r.in)
        /\ r.out = O \/ Below(Q, r.out)
        /\ r.kind = "reorder" => Below(Q, r.in)
        /\ r.out = O => Waits(h)
    BY <1>1, <2>1, HostApart
  <2>3. r.id \in Ids(All(Rs[w], m))  BY <1>4 DEF Ids
  <2> QED  BY <1>2, <1>4, <2>2, <2>3 DEF Below, CrewOf, Farm
<1> QED  BY <1>3, <1>4 DEF Replica

\* As many paths as numbers.
LEMMA Branches ==
  ASSUME NEW P \in Paths, NEW n \in Nat
  PROVE  /\ IsFiniteSet({Append(P, w) : w \in 1 .. n})
         /\ Cardinality({Append(P, w) : w \in 1 .. n}) = n
<1> DEFINE S == 1 .. n
           T == {Append(P, w) : w \in S}
           f == [w \in S |-> Append(P, w)]
<1>1. \A v, w \in S : Append(P, v) = Append(P, w) => v = w
  <2>1. \A w \in S : Append(P, w)[Len(P) + 1] = w  BY Onward
  <2> QED  BY <2>1
<1>2. f \in Bijection(S, T)
  <2>1. f \in [S -> T]  OBVIOUS
  <2>2. \A v, w \in S : f[v] = f[w] => v = w  BY <1>1
  <2>3. \A t \in T : \E w \in S : f[w] = t  OBVIOUS
  <2> HIDE DEF f, T, S
  <2> QED  BY <2>1, <2>2, <2>3 DEF Bijection, Injection, Surjection, IsInjective
<1>3. IsFiniteSet(S) /\ Cardinality(S) = n
  <2>1. 1 \in Int /\ n \in Int  OBVIOUS
  <2>2. IsFiniteSet(1 .. n) /\ Cardinality(1 .. n) = IF 1 > n THEN 0 ELSE n - 1 + 1
    BY <2>1, FS_Interval
  <2>3. 1 > n => n = 0  OBVIOUS
  <2> QED  BY <2>2, <2>3
<1> HIDE DEF f, T, S
<1>4. IsFiniteSet(T) /\ Cardinality(T) = Cardinality(S)  BY <1>2, <1>3, FS_Bijection DEF ExistsBijection
<1> QED  BY <1>3, <1>4 DEF S, T

\* The replicas of a farm together: a pattern like any other.
LEMMA FarmRegion ==
  ASSUME NEW hosts, NEW Rs, NEW m, NEW n, NEW P, NEW I, NEW O, NEW outs, NEW ordered,
         Farm(hosts, Rs, m, n, P, I, O, outs, ordered), n # 0
  PROVE  Region(UNION {Replica(hosts, Rs, m, w) : w \in 1 .. n}, P, I, O, ordered)
<1> DEFINE R == UNION {Replica(hosts, Rs, m, w) : w \in 1 .. n}
<1>1. \A r \in R : \E w \in 1 .. n : r \in Replica(hosts, Rs, m, w)  OBVIOUS
<1>2. \A w \in 1 .. n : Replica(hosts, Rs, m, w) \subseteq R  OBVIOUS
<1> HIDE DEF R
<1>3. /\ P \in Paths /\ n \in Nat /\ I \in Paths /\ I # User /\ O \in Paths /\ O # User
      /\ Len(P) \in Nat /\ Len(I) \in Nat /\ Len(I) <= Len(P) /\ I # O /\ ~Within(P, O)
  <2>1. 1 \in 1 .. n /\ P \in Paths  BY DEF Farm
  <2>2. I \in Paths /\ I # User  BY <2>1 DEF Farm, Hosted, Serial
  <2>3. n \in Nat /\ O \in Paths /\ Apart(P, O) /\ Within(I, P)  BY DEF Farm
  <2>4. O # User /\ ~Within(P, O) /\ I # O  BY <2>1, <2>3, Parted
  <2>5. Len(I) \in Nat /\ Len(P) \in Nat /\ Len(I) <= Len(P)
    BY <2>1, <2>2, <2>3 DEF Within, Paths
  <2> QED  BY <2>1, <2>2, <2>3, <2>4, <2>5
<1>4. ASSUME NEW w \in 1 .. n
      PROVE  /\ w \in Nat /\ Append(P, w) \in Paths /\ Len(Append(P, w)) = Len(P) + 1
             /\ Within(P, Append(P, w)) /\ Front(Append(P, w)) = P
             /\ hosts[w].id = Append(P, w) /\ hosts[w].out = O
             /\ hosts[w].kind = "replica" /\ hosts[w].stage.n = n
             /\ hosts[w] \in Replica(hosts, Rs, m, w)
             /\ LinkedThreads(Replica(hosts, Rs, m, w), ordered)
             /\ \E c \in Replica(hosts, Rs, m, w) : c.in = I
  <2>1. Hosted(Rs[w], m, Append(P, w), I, O, outs[w], ordered, hosts[w])
        /\ hosts[w].kind = "replica" /\ hosts[w].stage.n = n
    BY DEF Farm
  <2>2. w \in Nat /\ Append(P, w) \in Paths /\ Len(Append(P, w)) = Len(P) + 1
        /\ Within(P, Append(P, w)) /\ Front(Append(P, w)) = P
    <3>1. w \in Nat  BY <1>3
    <3> QED  BY <1>3, <3>1, Onward DEF Below
  <2>3. hosts[w].id = Append(P, w) /\ hosts[w].out = O  BY <2>1 DEF Hosted
  <2>4. LinkedThreads(Replica(hosts, Rs, m, w), ordered) /\ \E c \in Replica(hosts, Rs, m, w) : c.in = I
    BY <2>1, HostJoined DEF Replica
  <2> QED  BY <2>1, <2>2, <2>3, <2>4 DEF Replica
<1>5. ASSUME NEW v \in 1 .. n, NEW w \in 1 .. n, NEW s,
             Within(Append(P, v), s), Within(Append(P, w), s)
      PROVE  v = w
  BY <1>3, <1>4, <1>5, Forks
<1>6. ASSUME NEW w \in 1 .. n, NEW s, Below(Append(P, w), s)
      PROVE  s # I /\ s # O /\ s # User /\ Below(P, s)
  <2>1. Len(s) > Len(P) + 1 /\ Within(Append(P, w), s)  BY <1>3, <1>4, <1>6 DEF Below
  <2>2. Within(P, s)  BY <1>3, <1>4, <2>1, WithinOrder
  <2>3. Len(s) > Len(P)  BY <1>3, <2>1, <2>2 DEF Within, Paths
  <2>4. s # User  BY <1>3, <2>3 DEF User, Paths
  <2> QED  BY <1>3, <2>2, <2>3, <2>4 DEF Below
<1>7. ASSUME NEW r \in R, NEW s \in R, r.id = s.id PROVE r = s
  <2>1. PICK v \in 1 .. n : r \in Replica(hosts, Rs, m, v)  BY <1>1
  <2>2. PICK w \in 1 .. n : s \in Replica(hosts, Rs, m, w)  BY <1>1
  <2>3. v = w  BY <1>5, <1>7, <2>1, <2>2, ReplicaLocated
  <2> QED  BY <1>4, <1>7, <2>1, <2>2, <2>3 DEF LinkedThreads
<1>8. ASSUME NEW r \in R PROVE LinkedRole(R, r) /\ LinkedFilter(R, r, ordered)
  <2>1. PICK w \in 1 .. n : r \in Replica(hosts, Rs, m, w)  BY <1>1
  <2> DEFINE S == Replica(hosts, Rs, m, w)
  <2>2. S \subseteq R  BY <1>2
  <2>3. LinkedRole(S, r) /\ LinkedFilter(S, r, ordered)  BY <1>4, <2>1 DEF LinkedThreads
  <2>4. LinkedRole(R, r)
    <3>1. Ids(S) \subseteq Ids(R)  BY <2>2 DEF Ids
    <3> QED  BY <2>3, <3>1 DEF LinkedRole
  <2>5. ASSUME NEW s \in R, r.kind = "reorder", r.in \in {s.in, s.out} PROVE s \in S
    <3>1. PICK v \in 1 .. n : s \in Replica(hosts, Rs, m, v)  BY <1>1
    <3>2. Below(Append(P, w), r.in)  BY <2>1, <2>5, ReplicaLocated
    <3>3. Below(Append(P, v), r.in)
      <4>1. /\ s.in \in {User, I} \/ Below(Append(P, v), s.in)
            /\ s.out = O \/ Below(Append(P, v), s.out)
        BY <3>1, ReplicaLocated
      <4> QED  BY <1>6, <2>5, <3>2, <4>1
    <3>4. v = w  BY <1>5, <3>2, <3>3 DEF Below
    <3> QED  BY <3>1, <3>4
  <2> HIDE DEF S
  <2>6. LinkedFilter(R, r, ordered)  BY <2>2, <2>3, <2>5 DEF LinkedFilter
  <2> QED  BY <2>4, <2>6
<1>9. ASSUME NEW x \in R, NEW y \in R PROVE LinkedWriters(R, x, y)
  <2> SUFFICES ASSUME x.out = y.out, x.out # User
               PROVE  x = y \/ OfOneFarm(x, y) \/ \E u \in R : u.out = x.out /\ Waits(u)
    BY DEF LinkedWriters
  <2>1. PICK v \in 1 .. n : x \in Replica(hosts, Rs, m, v)  BY <1>1
  <2>2. PICK w \in 1 .. n : y \in Replica(hosts, Rs, m, w)  BY <1>1
  <2>3. CASE x.out = O
    <3>1. x = hosts[v] \/ Waits(hosts[v])  BY <2>1, <2>3, ReplicaLocated
    <3>2. y = hosts[w] \/ Waits(hosts[w])
      <4>1. y.out = O  BY <2>3
      <4> QED  BY <2>2, <4>1, ReplicaLocated
    <3>3. hosts[v] \in R /\ hosts[w] \in R /\ hosts[v].out = O /\ hosts[w].out = O
          /\ OfOneFarm(hosts[v], hosts[w])
      BY <1>2, <1>4 DEF OfOneFarm
    <3> QED  BY <2>3, <3>1, <3>2, <3>3
  <2>4. CASE x.out # O
    <3>1. Below(Append(P, v), x.out)  BY <2>1, <2>4, ReplicaLocated
    <3>2. Below(Append(P, w), x.out)  BY <2>2, <2>4, ReplicaLocated
    <3>3. v = w  BY <1>5, <3>1, <3>2 DEF Below
    <3>4. LinkedWriters(Replica(hosts, Rs, m, v), x, y)  BY <1>4, <2>1, <2>2, <3>3 DEF LinkedThreads
    <3> QED  BY <1>2, <3>4 DEF LinkedWriters
  <2> QED  BY <2>3, <2>4
<1>10. Located(R, P, I, O)
  <2> SUFFICES ASSUME NEW r \in R
               PROVE  /\ Within(P, r.id)
                      /\ r.in \in {User, I} \/ Below(P, r.in)
                      /\ r.out = O \/ Below(P, r.out)
                      /\ r.kind = "replica" => Within(P, Front(r.id))
                      /\ r.kind = "reorder" => Below(P, r.in)
    BY DEF Located
  <2>1. PICK w \in 1 .. n : r \in Replica(hosts, Rs, m, w)  BY <1>1
  <2>2. /\ Within(Append(P, w), r.id)
        /\ r.in \in {User, I} \/ Below(Append(P, w), r.in)
        /\ r.out = O \/ Below(Append(P, w), r.out)
        /\ r.kind = "reorder" => Below(Append(P, w), r.in)
        /\ r.kind = "replica" => r = hosts[w]
    BY <2>1, ReplicaLocated
  <2>3. Within(P, P)  BY <1>3, WithinOrder
  <2>4. Within(P, r.id)  BY <1>3, <1>4, <2>2, WithinOrder
  <2> QED  BY <1>4, <1>6, <2>2, <2>3, <2>4
<1>11. \A r \in R : r.kind = "replica" => \E w \in 1 .. n : r = hosts[w]
  BY <1>1, ReplicaLocated
<1>12. \E r \in R : r.in = I
  <2>1. 1 \in 1 .. n  BY <1>3
  <2> QED  BY <1>2, <1>4, <2>1
<1>13. ASSUME NEW w \in 1 .. n, NEW c \in R, c.id \in CrewOf(hosts[w])
       PROVE  c \in Replica(hosts, Rs, m, w)
  <2>1. PICK d \in Replica(hosts, Rs, m, w) : d.id = c.id
    <3>1. Hosted(Rs[w], m, Append(P, w), I, O, outs[w], ordered, hosts[w])  BY DEF Farm
    <3>2. hosts[w].helpers = Ids(All(Rs[w], m))  BY <3>1 DEF Hosted
    <3> QED  BY <1>13, <3>2 DEF CrewOf, Ids, Replica
  <2>2. d \in R  BY <1>2
  <2> QED  BY <1>7, <2>1, <2>2
<1>14. ASSUME NEW w \in 1 .. n PROVE Fed(R, hosts[w], I)
  <2>1. Len(I) < Len(hosts[w].id)  BY <1>3, <1>4
  <2>2. \E c \in R : c.id \in CrewOf(hosts[w]) /\ c.in = I
    BY <1>2, <1>4, ReplicaLocated
  <2>3. ASSUME NEW c \in R, c.id \in CrewOf(hosts[w])
        PROVE  c.in \in {User, I} \/ Len(hosts[w].id) <= Len(c.in)
    <3>1. c.in \in {User, I} \/ Below(Append(P, w), c.in)
      BY <1>13, <2>3, ReplicaLocated
    <3>2. Below(Append(P, w), c.in) => Len(Append(P, w)) <= Len(c.in)
      BY <1>4 DEF Below, Within, Paths
    <3> QED  BY <1>4, <3>1, <3>2
  <2> QED  BY <1>3, <2>1, <2>2, <2>3 DEF Fed
<1>15. ASSUME NEW w \in 1 .. n PROVE LinkedReplica(R, hosts[w])
  <2>1. \A t \in R : OfOneFarm(t, hosts[w]) <=> \E v \in 1 .. n : t = hosts[v]
    BY <1>4, <1>11 DEF OfOneFarm
  <2>2. I \in {c.in : c \in R}  BY <1>12
  <2>3. I # hosts[w].out /\ I[1] <= hosts[w].out[1]  BY <1>3, <1>4 DEF Farm
  <2>4. ASSUME NEW c \in R, c.in = I
        PROVE  /\ c.kind \notin {"farm_sink", "reorder"}
               /\ \E t \in R : OfOneFarm(t, hosts[w]) /\ c.id \in CrewOf(t)
    <3>1. PICK v \in 1 .. n : c \in Replica(hosts, Rs, m, v)  BY <1>1
    <3>2. c.id \in CrewOf(hosts[v]) /\ hosts[v] \in R  BY <1>2, <1>4, <3>1, ReplicaLocated
    <3>3. c.kind # "reorder"  BY <1>6, <2>4, <3>1, ReplicaLocated
    <3>4. c.out # User  BY <1>3, <1>6, <3>1, ReplicaLocated
    <3>5. c.kind # "farm_sink"  BY <1>8, <3>4 DEF LinkedRole
    <3> QED  BY <2>1, <3>2, <3>3, <3>5
  <2>5. \A t \in R : OfOneFarm(t, hosts[w]) => Fed(R, t, I)  BY <1>14, <2>1
  <2>6. ASSUME NEW t \in R, t.kind = "replica", t # hosts[w]
        PROVE  CrewOf(t) \cap CrewOf(hosts[w]) = {}
    <3>1. PICK v \in 1 .. n : t = hosts[v]  BY <1>11, <2>6
    <3>2. ASSUME NEW x \in CrewOf(hosts[v]), x \in CrewOf(hosts[w]) PROVE FALSE
      <4>1. hosts[v] \in R /\ hosts[v].helpers \subseteq Ids(R)
        BY <1>2, <1>4, <1>8 DEF LinkedRole
      <4>2. PICK c \in R : c.id = x  BY <4>1 DEF CrewOf, Ids
      <4>3. c \in Replica(hosts, Rs, m, v) /\ c \in Replica(hosts, Rs, m, w)
        BY <1>13, <3>2, <4>2
      <4>4. v = w  BY <1>5, <4>3, ReplicaLocated
      <4> QED  BY <2>6, <3>1, <4>4
    <3> QED  BY <3>1, <3>2
  <2>7. Ids({t \in R : OfOneFarm(t, hosts[w])}) = {Append(P, v) : v \in 1 .. n}
    <3>1. \A v \in 1 .. n : hosts[v] \in R /\ hosts[v].id = Append(P, v)  BY <1>2, <1>4
    <3>2. {t \in R : OfOneFarm(t, hosts[w])} = {hosts[v] : v \in 1 .. n}  BY <2>1, <3>1
    <3>3. Ids({hosts[v] : v \in 1 .. n}) = {Append(P, v) : v \in 1 .. n}
      BY <3>1 DEF Ids
    <3> QED  BY <3>2, <3>3
  <2>8. hosts[w].stage.n = n  BY <1>4
  <2>9. IsFiniteSet({Append(P, v) : v \in 1 .. n}) /\ Cardinality({Append(P, v) : v \in 1 .. n}) = n
    BY <1>3, Branches
  <2>10. Fed(R, hosts[w], I)  BY <1>14
  <2>11. \E q \in {c.in : c \in R} :
           /\ Fed(R, hosts[w], q)
           /\ q # hosts[w].out /\ q[1] <= hosts[w].out[1]
           /\ \A c \in R : c.in = q =>
                /\ c.kind \notin {"farm_sink", "reorder"}
                /\ \E t \in R : OfOneFarm(t, hosts[w]) /\ c.id \in CrewOf(t)
           /\ \A t \in R : OfOneFarm(t, hosts[w]) => Fed(R, t, q)
    BY <2>2, <2>3, <2>4, <2>5, <2>10
  <2> QED  BY <1>3, <2>6, <2>7, <2>8, <2>9, <2>11 DEF LinkedReplica
<1>16. Farmed(R)  BY <1>11, <1>15 DEF Farmed
<1> QED  BY <1>7, <1>8, <1>9, <1>10, <1>12, <1>16 DEF Region, LinkedThreads, R

-----------------------------------------------------------------------------
(* Patterns of one or two threads. *)

Site(P, I, O) ==
  /\ P \in Paths /\ P # User
  /\ I \in Paths /\ I # User /\ Within(I, P)
  /\ O \in Paths /\ Apart(P, O) /\ I[1] <= O[1]

\* A pattern that is one thread.
LEMMA SingleRegion ==
  ASSUME NEW P, NEW I, NEW O, NEW ordered, NEW r,
         P \in Paths, P # User, I \in Paths, I # User, Within(I, P),
         r.id = P, r.in = I, r.out = O, r.helpers = {},
         \/ Site(P, I, O) /\ r.kind \in SimpleKinds \cup {"context"}
         \/ O = User /\ r.kind = "consume",
         r.kind = "reduce" => r.stage.kind = "reduce" /\ IsSimple(r.stage),
         ~(ordered /\ r.kind = "filter")
  PROVE  Region({r}, P, I, O, ordered)
<1>1. O \in Paths /\ I # O /\ (O = User <=> r.kind = "consume")
  <2>1. CASE Site(P, I, O) /\ r.kind \in SimpleKinds \cup {"context"}
    BY <2>1, Parted DEF Site, SimpleKinds
  <2>2. CASE O = User /\ r.kind = "consume"  BY <2>2 DEF User, Paths
  <2> QED  BY <2>1, <2>2
<1>2. r.kind \in SimpleKinds \cup {"context", "consume"}  OBVIOUS
<1>3. LinkedRole({r}, r)  BY <1>1, <1>2 DEF LinkedRole, SimpleKinds
<1>4. LinkedFilter({r}, r, ordered) /\ LinkedWriters({r}, r, r)
  BY <1>2 DEF LinkedFilter, LinkedWriters, SimpleKinds
<1>5. LinkedThreads({r}, ordered)  BY <1>3, <1>4 DEF LinkedThreads
<1>6. Farmed({r})  BY <1>2 DEF Farmed, SimpleKinds
<1>7. Located({r}, P, I, O)
  <2>1. Within(P, P)  BY WithinOrder
  <2>2. r.kind # "replica" /\ r.kind # "reorder"  BY <1>2 DEF SimpleKinds
  <2> QED  BY <2>1, <2>2 DEF Located
<1> QED  BY <1>5, <1>6, <1>7 DEF Region

\* An ordered filter and its ordering thread.
LEMMA FilterRegion ==
  ASSUME NEW P, NEW I, NEW O, NEW ordered, Site(P, I, O), NEW f, NEW r,
         f.id = Append(P, 1), f.kind = "filter", f.in = I, f.out = Append(P, 0), f.helpers = {},
         r.id = Append(P, 2), r.kind = "reorder", r.in = Append(P, 0), r.out = O, r.helpers = {}
  PROVE  Region({f, r}, P, I, O, ordered)
<1>1. P \in Paths /\ I \in Paths /\ I # User /\ O \in Paths /\ O # User /\ I # O
      /\ ~Within(P, O) /\ Within(I, P)
  BY Parted DEF Site
<1>2. \A k \in Nat : /\ Append(P, k) \in Paths /\ Below(P, Append(P, k))
                     /\ Append(P, k)[Len(P) + 1] = k
                     /\ Append(P, k) # User /\ Append(P, k) # O /\ Append(P, k) # I
  <2>1. \A k \in Nat : /\ Append(P, k) \in Paths /\ Below(P, Append(P, k))
                       /\ Append(P, k)[Len(P) + 1] = k
                       /\ Len(Append(P, k)) = Len(P) + 1
    BY <1>1, Onward
  <2>2. Len(I) <= Len(P) /\ Len(P) \in Nat  BY <1>1 DEF Within, Paths
  <2>3. \A k \in Nat : Append(P, k) # User  BY <2>1, <2>2 DEF User
  <2>4. \A k \in Nat : Append(P, k) # I  BY <2>1, <2>2
  <2>5. \A k \in Nat : Append(P, k) # O  BY <1>1, <2>1 DEF Below
  <2> QED  BY <2>1, <2>3, <2>4, <2>5
<1>3. f.id # r.id /\ f.id \in Paths /\ r.id \in Paths /\ f.out \in Paths
      /\ f.out # User /\ f.out # O /\ f.out # I
      /\ Below(P, f.id) /\ Below(P, r.id) /\ Below(P, f.out)
  <2>1. 0 \in Nat /\ 1 \in Nat /\ 2 \in Nat  OBVIOUS
  <2> QED  BY <1>2, <2>1
<1>4. LinkedRole({f, r}, f) /\ LinkedRole({f, r}, r)
  BY <1>1, <1>3 DEF LinkedRole, SimpleKinds
<1>5. LinkedFilter({f, r}, f, ordered) /\ LinkedFilter({f, r}, r, ordered)
  BY <1>1, <1>3 DEF LinkedFilter
<1>6. \A v, w \in {f, r} : LinkedWriters({f, r}, v, w)
  BY <1>3 DEF LinkedWriters
<1>7. LinkedThreads({f, r}, ordered)  BY <1>3, <1>4, <1>5, <1>6 DEF LinkedThreads
<1>8. Farmed({f, r})  BY DEF Farmed
<1>9. Located({f, r}, P, I, O)  BY <1>3 DEF Located, Below
<1> QED  BY <1>7, <1>8, <1>9 DEF Region

\* The farm that ends a pipeline.
LEMMA SinkRegion ==
  ASSUME NEW P, NEW I, NEW ordered, NEW n \in Nat \ {0}, NEW R, NEW r,
         P \in Paths, P # User, I \in Paths, I # User, Within(I, P),
         R = {r[w] : w \in 1 .. n},
         \A w \in 1 .. n : /\ r[w].id = Append(P, w) /\ r[w].kind = "farm_sink"
                           /\ r[w].in = I /\ r[w].out = User /\ r[w].helpers = {}
  PROVE  Region(R, P, I, User, ordered)
<1>1. \A w \in 1 .. n : /\ Append(P, w) \in Paths /\ Below(P, Append(P, w))
                        /\ Append(P, w)[Len(P) + 1] = w
  BY Onward
<1>2. \A s \in R : \E w \in 1 .. n : s = r[w]  OBVIOUS
<1>3. \A s \in R : /\ s.id \in Paths /\ Below(P, s.id) /\ s.kind = "farm_sink"
                   /\ s.in = I /\ s.out = User /\ s.helpers = {}
  <2> SUFFICES ASSUME NEW s \in R
               PROVE  /\ s.id \in Paths /\ Below(P, s.id) /\ s.kind = "farm_sink"
                      /\ s.in = I /\ s.out = User /\ s.helpers = {}
    OBVIOUS
  <2>1. PICK w \in 1 .. n : s = r[w]  BY <1>2
  <2> QED  BY <1>1, <2>1
<1>4. \A s, t \in R : s.id = t.id => s = t  BY <1>1, <1>2
<1>5. User \in Paths  BY DEF User, Paths
<1> HIDE DEF User
<1>6. \A s \in R : LinkedRole(R, s) /\ LinkedFilter(R, s, ordered)
  BY <1>3, <1>5 DEF LinkedRole, LinkedFilter
<1>7. \A s, t \in R : LinkedWriters(R, s, t)  BY <1>3 DEF LinkedWriters
<1>8. LinkedThreads(R, ordered) /\ Farmed(R)  BY <1>3, <1>4, <1>6, <1>7 DEF LinkedThreads, Farmed
<1>9. Located(R, P, I, User)  BY <1>3 DEF Located, Below
<1>10. \E s \in R : s.in = I
  <2>1. 1 \in 1 .. n  OBVIOUS
  <2> QED  BY <1>3, <2>1
<1> QED  BY <1>8, <1>9, <1>10 DEF Region

-----------------------------------------------------------------------------
(* What Places, Delegated and Host return. *)

At(s, P, ordered, I, O) == [stage |-> s, path |-> P, ordered |-> ordered, in |-> I, out |-> O]

Exit(stages, P, O, ordered, k) ==
  IF k < Len(stages) THEN Append(P, k + 1)
  ELSE IF stages[k].kind = "filter" /\ ~ordered THEN Append(P, 0) ELSE O

\* The places of a sequence of stages, all of them and all but the last.
LEMMA PlacesAre ==
  ASSUME NEW stages, IsSeq(stages), NEW P, NEW I, NEW O, NEW ordered
  PROVE  LET n == Len(stages)
             p == Places(stages, P, I, O, ordered)
             at(k) == At(stages[k], Append(P, k), ordered, Entry(P, I, k),
                         Exit(stages, P, O, ordered, k))
         IN /\ n \in Nat /\ n # 0 /\ DOMAIN stages = 1 .. n
            /\ \A k \in 1 .. n : p[k] = at(k)
            /\ Last(p) = at(n) /\ Last(stages) = stages[n]
            /\ ToSet(p) = {at(k) : k \in 1 .. n}
            /\ ToSet(Front(p)) = {at(k) : k \in 1 .. n - 1}
<1> DEFINE n == Len(stages)
           p == Places(stages, P, I, O, ordered)
           at(k) == At(stages[k], Append(P, k), ordered, Entry(P, I, k),
                       Exit(stages, P, O, ordered, k))
           S == {at(k) : k \in 1 .. n}
<1>1. n \in Nat /\ n # 0 /\ DOMAIN stages = 1 .. n
  <2> DEFINE T == ToSet(stages)
  <2>1. stages \in Seq(T) /\ stages # <<>>  BY DEF IsSeq
  <2> HIDE DEF T
  <2> QED  BY <2>1
<1>2. p = [k \in 1 .. n |-> at(k)]
  <2>1. \A k \in 1 .. n : k < n \/ k = n
    <3> HIDE DEF n
    <3> QED  BY <1>1
  <2> DEFINE old(k) == [stage |-> stages[k], path |-> Append(P, k), ordered |-> ordered,
                        in |-> IF k = 1 THEN I ELSE Append(P, k),
                        out |-> CASE k < n -> Append(P, k + 1)
                                  [] k = n /\ stages[k].kind = "filter" /\ ~ordered -> Append(P, 0)
                                  [] OTHER -> O]
  <2>2. ASSUME NEW k \in 1 .. n PROVE old(k) = at(k)
    <3>1. (CASE k < n -> Append(P, k + 1)
             [] k = n /\ stages[k].kind = "filter" /\ ~ordered -> Append(P, 0)
             [] OTHER -> O) = Exit(stages, P, O, ordered, k)
      BY <1>1, <2>1 DEF Exit
    <3> QED  BY <3>1 DEF At, Entry
  <2>3. p = [k \in 1 .. n |-> old(k)]  BY <1>1 DEF Places
  <2> HIDE DEF p, old, at, n
  <2> QED  BY <2>2, <2>3
<1> HIDE DEF p
<1> HIDE DEF at
<1>3. p \in Seq(S) /\ Len(p) = n
  <2>1. p \in [1 .. n -> S]  BY <1>2
  <2> HIDE DEF S
  <2> QED  BY <1>1, <2>1
<1>4. ToSet(p) = {at(k) : k \in 1 .. n}  BY <1>2 DEF ToSet
<1>5. ToSet(Front(p)) = {at(k) : k \in 1 .. n - 1}
  <2> DEFINE f == Front(p)
  <2>1. f \in Seq(S) /\ Len(f) = n - 1 /\ \A k \in 1 .. n - 1 : f[k] = p[k]
    <3> HIDE DEF S
    <3> QED  BY <1>1, <1>3 DEF Front
  <2>2. \A k \in 1 .. n - 1 : f[k] = at(k)  BY <1>1, <1>2, <2>1
  <2>3. DOMAIN f = 1 .. n - 1
    <3> HIDE DEF S, f
    <3> QED  BY <1>1, <2>1
  <2> HIDE DEF f
  <2> QED  BY <2>2, <2>3 DEF ToSet, f
<1>6. Last(p) = at(n) /\ Last(stages) = stages[n]  BY <1>1, <1>2, <1>3 DEF Last
<1> QED  BY <1>1, <1>2, <1>4, <1>5, <1>6 DEF p, at

\* A place inside a pattern is a site of its own.
LEMMA SiteInside ==
  ASSUME NEW P, NEW I, NEW O, Site(P, I, O), NEW stages, IsSeq(stages), NEW ordered,
         NEW k \in 1 .. Len(stages)
  PROVE  /\ Site(Append(P, k), Entry(P, I, k), Exit(stages, P, O, ordered, k))
         /\ Exit(stages, P, O, ordered, k) # User
<1>1. P \in Paths /\ P # User /\ I \in Paths /\ I # User /\ Within(I, P)
      /\ O \in Paths /\ Apart(P, O) /\ I[1] <= O[1] /\ k \in Nat /\ k # 0 /\ k + 1 \in Nat
  BY PlacesAre DEF Site
<1>2. \A x \in Nat : /\ Append(P, x) \in Paths /\ Within(P, Append(P, x))
                     /\ Append(P, x) # User /\ Append(P, x)[1] = P[1]
  <2>1. \A x \in Nat : Append(P, x) \in Paths /\ Within(P, Append(P, x))
    BY <1>1, Onward DEF Below
  <2>2. ASSUME NEW x \in Nat PROVE Append(P, x) # User /\ Append(P, x)[1] = P[1]
    <3> DEFINE a == Append(P, x)
    <3>1. Within(P, a)  BY <2>1
    <3> HIDE DEF a
    <3>2. a[1] = P[1] /\ a # User  BY <1>1, <3>1, SameStart
    <3> QED  BY <3>2 DEF a
  <2> QED  BY <2>1, <2>2
<1>3. I[1] = P[1] /\ P[1] \in Nat  BY <1>1, SameStart DEF Paths, User
<1>4. Entry(P, I, k) \in Paths /\ Entry(P, I, k) # User /\ Entry(P, I, k)[1] = P[1]
      /\ Within(Entry(P, I, k), Append(P, k))
  <2>1. Within(I, Append(P, k))  BY <1>1, <1>2, WithinOrder
  <2>2. Within(Append(P, k), Append(P, k))  BY <1>1, <1>2, WithinOrder
  <2> QED  BY <1>1, <1>2, <1>3, <2>1, <2>2 DEF Entry
<1> DEFINE e == Exit(stages, P, O, ordered, k)
<1>5. e \in Paths /\ Apart(Append(P, k), e) /\ P[1] <= e[1]
  <2>1. Apart(Append(P, k), Append(P, k + 1)) /\ Apart(Append(P, k), Append(P, 0))
    BY <1>1, Neighbours
  <2>2. Apart(Append(P, k), O)  BY <1>1, <1>2, Parted
  <2>3. e \in {Append(P, k + 1), Append(P, 0), O}  BY DEF Exit
  <2> HIDE DEF e
  <2>4. CASE e = O  BY <1>1, <1>3, <2>2, <2>4
  <2>5. CASE e \in {Append(P, k + 1), Append(P, 0)}
    <3>1. Apart(Append(P, k), e)  BY <2>1, <2>5
    <3>2. e \in Paths /\ e[1] = P[1]
      <4>1. PICK x \in Nat : e = Append(P, x)
        <5>1. 0 \in Nat  OBVIOUS
        <5> QED  BY <1>1, <2>5, <5>1
      <4> QED  BY <1>2, <4>1
    <3>3. P[1] <= P[1]  BY <1>3
    <3> QED  BY <3>1, <3>2, <3>3
  <2> QED  BY <2>3, <2>4, <2>5
<1>6. e # User  BY <1>1, <1>2, <1>5, Parted
<1> QED  BY <1>1, <1>2, <1>4, <1>5, <1>6 DEF Site

\* How many of the stages that s holds get threads of their own, and where.
Delegates(s) == IF Last(s.inner).kind = "stage" THEN Len(s.inner) - 1 ELSE Len(s.inner)

Inner(s, P, ordered, I, O, k) ==
  At(s.inner[k], Append(P, k), ordered, Entry(P, I, k), Exit(s.inner, P, O, ordered, k))

HostRole(what, p, created) ==
  Role(p.path, what, p.stage, IF Works(p) THEN Last(InnerPlaces(p)).in ELSE User, p.out, Ids(created))

Exits(s, P, O, ordered) == [k \in 1 .. Len(s.inner) |-> Exit(s.inner, P, O, ordered, k)]

\* If these are regions, with their host they are a pattern of the shape Hosted.
LEMMA HostOf ==
  ASSUME NEW P, NEW I, NEW O, Site(P, I, O), NEW s, IsSeq(s.inner), NEW ordered,
         NEW what \in {"replica", "context"}, NEW Rs,
         \A k \in 1 .. Delegates(s) :
           Region(Rs[k], Append(P, k), Entry(P, I, k), Exit(s.inner, P, O, ordered, k), ordered)
  PROVE  LET p == At(s, P, ordered, I, O)
             m == Delegates(s)
             h == HostRole(what, p, All(Rs, m))
         IN /\ m \in Nat /\ m <= Len(s.inner) /\ Len(s.inner) \in Nat
            /\ Delegated(p) = {Inner(s, P, ordered, I, O, k) : k \in 1 .. m}
            /\ Hosted(Rs, m, P, I, O, Exits(s, P, O, ordered), ordered, h)
            /\ h.kind = what /\ h.stage = s
            /\ Last(s.inner).kind = "stage" => h.in = Entry(P, I, m + 1)
            /\ Host(what, p, All(Rs, m)) = All(Rs, m) \cup {h}
<1> DEFINE p == At(s, P, ordered, I, O)
           m == Delegates(s)
           n == Len(s.inner)
           h == HostRole(what, p, All(Rs, m))
           outs == Exits(s, P, O, ordered)
<1>1. /\ n \in Nat /\ n # 0
      /\ Last(InnerPlaces(p)) = Inner(s, P, ordered, I, O, n)
      /\ Last(s.inner) = s.inner[n]
      /\ ToSet(InnerPlaces(p)) = {Inner(s, P, ordered, I, O, k) : k \in 1 .. n}
      /\ ToSet(Front(InnerPlaces(p))) = {Inner(s, P, ordered, I, O, k) : k \in 1 .. n - 1}
  <2> DEFINE ps == Places(s.inner, P, I, O, ordered)
  <2>1. InnerPlaces(p) = ps  BY DEF InnerPlaces, At
  <2>2. /\ n \in Nat /\ n # 0
        /\ Last(ps) = Inner(s, P, ordered, I, O, n)
        /\ Last(s.inner) = s.inner[n]
        /\ ToSet(ps) = {Inner(s, P, ordered, I, O, k) : k \in 1 .. n}
        /\ ToSet(Front(ps)) = {Inner(s, P, ordered, I, O, k) : k \in 1 .. n - 1}
    BY PlacesAre DEF Inner
  <2> HIDE DEF ps
  <2> QED  BY <2>1, <2>2
<1>2. Works(p) <=> Last(s.inner).kind = "stage"  BY DEF Works, At
<1>3. m \in Nat /\ m <= n /\ (Works(p) => m + 1 = n) /\ (~Works(p) => m = n)
  BY <1>1, <1>2 DEF Delegates
<1>4. Delegated(p) = {Inner(s, P, ordered, I, O, k) : k \in 1 .. m}
  BY <1>1, <1>2 DEF Delegated, Delegates
<1>5. /\ h.id = P /\ h.kind = what /\ h.stage = s /\ h.out = O /\ h.helpers = Ids(All(Rs, m))
      /\ h.in = IF Works(p) THEN Entry(P, I, n) ELSE User
  BY <1>1 DEF HostRole, Role, At, Inner
<1>6. Host(what, p, All(Rs, m)) = All(Rs, m) \cup {h}  BY DEF Host, HostRole, Ids
<1>7. /\ P \in Paths /\ P # User /\ I \in Paths /\ I # User /\ Within(I, P)
      /\ O \in Paths /\ Apart(P, O)
  BY DEF Site
<1> HIDE DEF h
<1> HIDE DEF p
<1>8. \A k \in 1 .. n : outs[k] = Exit(s.inner, P, O, ordered, k)  BY DEF Exits
<1>9. ASSUME NEW k \in 1 .. m
      PROVE  /\ Region(Rs[k], Append(P, k), Entry(P, I, k), outs[k], ordered)
             /\ outs[k] \in Paths
             /\ k < m => outs[k] = Append(P, k + 1)
             /\ k = m => outs[k] \in {Append(P, m + 1), Append(P, 0), User} \/ Apart(P, outs[k])
             /\ Works(p) => outs[k] = Append(P, k + 1)
             /\ (~Works(p) /\ k = m) => outs[k] \in {Append(P, 0), O}
  <2>1. k \in 1 .. n /\ (k < m \/ Works(p) => k < n) /\ (~Works(p) /\ k = m => k = n)
    BY <1>1, <1>3
  <2>2. outs[k] = Exit(s.inner, P, O, ordered, k)  BY <1>8, <2>1
  <2>3. Exit(s.inner, P, O, ordered, k) \in Paths  BY <2>1, SiteInside DEF Site
  <2>4. k < n => outs[k] = Append(P, k + 1)  BY <2>2 DEF Exit
  <2>5. k = n => outs[k] \in {Append(P, 0), O}  BY <1>1, <2>2 DEF Exit
  <2>6. Region(Rs[k], Append(P, k), Entry(P, I, k), outs[k], ordered)  BY <2>2
  <2> HIDE DEF outs, m, n
  <2>7. k = m => outs[k] \in {Append(P, m + 1), Append(P, 0), User} \/ Apart(P, outs[k])
    <3>1. CASE k < n  BY <2>4, <3>1
    <3>2. CASE k = n  BY <1>7, <2>5, <3>2
    <3> QED  BY <1>1, <2>1, <3>1, <3>2
  <2> QED  BY <2>1, <2>2, <2>3, <2>4, <2>5, <2>6, <2>7
<1> HIDE DEF outs, m, n
<1>10. Serial(Rs, m, P, I, outs, ordered)  BY <1>3, <1>7, <1>9 DEF Serial
<1>11. \/ h.in = Entry(P, I, m + 1) /\ \A k \in 1 .. m : outs[k] = Append(P, k + 1)
       \/ h.in = User /\ m # 0 /\ outs[m] \in {Append(P, 0), O}
  <2>1. CASE Works(p)  BY <1>3, <1>5, <1>9, <2>1
  <2>2. CASE ~Works(p)
    <3>1. m \in 1 .. m  BY <1>1, <1>3, <2>2
    <3> QED  BY <1>1, <1>3, <1>5, <1>9, <2>2, <3>1
  <2> QED  BY <2>1, <2>2
<1>12. Hosted(Rs, m, P, I, O, outs, ordered, h)
  BY <1>5, <1>7, <1>10, <1>11 DEF Hosted, Hosts
<1>13. Last(s.inner).kind = "stage" => h.in = Entry(P, I, m + 1)  BY <1>2, <1>3, <1>5
<1> QED  BY <1>1, <1>3, <1>4, <1>5, <1>6, <1>12, <1>13 DEF p, m, n, h, outs

-----------------------------------------------------------------------------
(* The patterns. *)

\* A stage, filter, reduction or iteration.
LEMMA SimplePattern ==
  ASSUME NEW P, NEW I, NEW O, Site(P, I, O), NEW s, IsSimple(s), NEW ordered
  PROVE  /\ Region(SimpleThreads(At(s, P, ordered, I, O)), P, I, O, ordered)
         /\ \A r \in SimpleThreads(At(s, P, ordered, I, O)) : r.kind # "replica"
<1> DEFINE p == At(s, P, ordered, I, O)
<1>1. p.stage = s /\ p.path = P /\ p.ordered = ordered /\ p.in = I /\ p.out = O  BY DEF At
<1> HIDE DEF p
<1>2. s.kind \in SimpleKinds  BY DEF IsSimple
<1>3. CASE s.kind = "filter" /\ ordered
  <2> DEFINE f == Role(Append(P, 1), "filter", s, I, Append(P, 0), {})
             r == Role(Append(P, 2), "reorder", s, Append(P, 0), O, {})
  <2>1. SimpleThreads(p) = {f, r}  BY <1>1, <1>3 DEF SimpleThreads
  <2>2. /\ f.id = Append(P, 1) /\ f.kind = "filter" /\ f.in = I /\ f.out = Append(P, 0)
        /\ f.helpers = {}
        /\ r.id = Append(P, 2) /\ r.kind = "reorder" /\ r.in = Append(P, 0) /\ r.out = O
        /\ r.helpers = {}
    BY DEF Role
  <2> HIDE DEF f, r
  <2>3. Region({f, r}, P, I, O, ordered)  BY <2>2, FilterRegion
  <2> QED  BY <2>1, <2>2, <2>3 DEF p
<1>4. CASE ~(s.kind = "filter" /\ ordered)
  <2> DEFINE r == Role(P, s.kind, s, I, O, {})
  <2>1. SimpleThreads(p) = {r}
    <3>1. s.kind # "farm_sink"  BY <1>2 DEF SimpleKinds
    <3> QED  BY <1>1, <1>4, <3>1 DEF SimpleThreads
  <2>2. r.id = P /\ r.kind = s.kind /\ r.stage = s /\ r.in = I /\ r.out = O /\ r.helpers = {}
    BY DEF Role
  <2> HIDE DEF r
  <2>3. Region({r}, P, I, O, ordered)  BY <1>2, <1>4, <2>2, SingleRegion DEF Site
  <2> QED  BY <1>2, <2>1, <2>2, <2>3 DEF p, SimpleKinds
<1> QED  BY <1>3, <1>4

\* A farm: its replicas, and the patterns in them.
LEMMA FarmParts ==
  ASSUME NEW P, NEW I, NEW O, Site(P, I, O), NEW s, IsFarm(s), NEW ordered
  PROVE  \E hosts, Rs, outs :
           /\ Farm(hosts, Rs, Delegates(s), s.n, P, I, O, outs, ordered)
           /\ FarmThreads(At(s, P, ordered, I, O))
                = UNION {Replica(hosts, Rs, Delegates(s), w) : w \in 1 .. s.n}
           /\ \A w \in 1 .. s.n :
                /\ Last(s.inner).kind = "stage" => hosts[w].in # User
                /\ \A k \in 1 .. Delegates(s) :
                     /\ Rs[w][k] = SimpleThreads(Inner(s, Append(P, w), ordered, I, O, k))
                     /\ Site(Append(Append(P, w), k), Entry(Append(P, w), I, k),
                             Exit(s.inner, Append(P, w), O, ordered, k))
<1> DEFINE n == s.n
           m == Delegates(s)
           at(w) == At(s, Append(P, w), ordered, I, O)
           threads(w, k) == SimpleThreads(Inner(s, Append(P, w), ordered, I, O, k))
           Rs == [w \in 1 .. n |-> [k \in 1 .. m |-> threads(w, k)]]
           hosts == [w \in 1 .. n |-> HostRole("replica", at(w), All(Rs[w], m))]
           outs == [w \in 1 .. n |-> Exits(s, Append(P, w), O, ordered)]
<1>1. n \in Nat /\ n # 0 /\ IsSeq(s.inner) /\ s.kind = "farm"
      /\ \A k \in DOMAIN s.inner : IsSimple(s.inner[k])
  BY DEF IsFarm
<1>2. /\ P \in Paths /\ P # User /\ I \in Paths /\ I # User /\ Within(I, P)
      /\ O \in Paths /\ Apart(P, O) /\ I[1] <= O[1]
  BY DEF Site
<1>3. ASSUME NEW w \in 1 .. n PROVE Site(Append(P, w), I, O)
  <2> DEFINE Q == Append(P, w)
  <2>1. w \in Nat  BY <1>1
  <2>2. Q \in Paths /\ Within(P, Q)  BY <1>2, <2>1, Onward DEF Below
  <2> HIDE DEF Q
  <2>3. Q # User  BY <1>2, <2>2, SameStart
  <2>4. Within(I, Q) /\ Apart(Q, O)  BY <1>2, <2>2, WithinOrder, Parted
  <2> QED  BY <1>2, <2>2, <2>3, <2>4 DEF Site, Q
<1>4. m \in Nat /\ m <= Len(s.inner) /\ Len(s.inner) \in Nat /\ DOMAIN s.inner = 1 .. Len(s.inner)
  <2>1. /\ Len(s.inner) \in Nat /\ Len(s.inner) # 0 /\ DOMAIN s.inner = 1 .. Len(s.inner)
    BY <1>1, PlacesAre
  <2> QED  BY <2>1 DEF Delegates
<1>5. ASSUME NEW w \in 1 .. n, NEW k \in 1 .. m
      PROVE  /\ Rs[w][k] = threads(w, k)
             /\ Region(Rs[w][k], Append(Append(P, w), k), Entry(Append(P, w), I, k),
                       Exit(s.inner, Append(P, w), O, ordered, k), ordered)
             /\ Site(Append(Append(P, w), k), Entry(Append(P, w), I, k),
                     Exit(s.inner, Append(P, w), O, ordered, k))
             /\ \A r \in Rs[w][k] : r.kind # "replica"
  <2>1. k \in 1 .. Len(s.inner)  BY <1>4
  <2>2. Site(Append(Append(P, w), k), Entry(Append(P, w), I, k),
             Exit(s.inner, Append(P, w), O, ordered, k))
    BY <1>1, <1>3, <2>1, SiteInside
  <2>3. IsSimple(s.inner[k])  BY <1>1, <1>4, <2>1
  <2>4. Rs[w][k] = threads(w, k)  OBVIOUS
  <2> HIDE DEF Rs
  <2> QED  BY <2>2, <2>3, <2>4, SimplePattern DEF Inner
<1>6. ASSUME NEW w \in 1 .. n
      PROVE  /\ Hosted(Rs[w], m, Append(P, w), I, O, outs[w], ordered, hosts[w])
             /\ hosts[w].kind = "replica" /\ hosts[w].stage.n = n
             /\ \A r \in All(Rs[w], m) : r.kind # "replica"
             /\ Last(s.inner).kind = "stage" => hosts[w].in = Entry(Append(P, w), I, m + 1)
             /\ Delegated(at(w)) = {Inner(s, Append(P, w), ordered, I, O, k) : k \in 1 .. m}
             /\ Host("replica", at(w), All(Rs[w], m)) = Replica(hosts, Rs, m, w)
  <2> DEFINE T == Rs[w]
  <2>1. \A k \in 1 .. m : Region(T[k], Append(Append(P, w), k), Entry(Append(P, w), I, k),
                                 Exit(s.inner, Append(P, w), O, ordered, k), ordered)
    BY <1>5
  <2>2. hosts[w] = HostRole("replica", at(w), All(Rs[w], m))  OBVIOUS
  <2>3. outs[w] = Exits(s, Append(P, w), O, ordered)  OBVIOUS
  <2>4. \A r \in All(Rs[w], m) : r.kind # "replica"
    <3>1. \A k \in 1 .. m : \A r \in T[k] : r.kind # "replica"  BY <1>5
    <3> HIDE DEF T, m
    <3>2. \A r \in All(T, m) : r.kind # "replica"  BY <3>1 DEF All
    <3> QED  BY <3>2 DEF T, m
  <2> HIDE DEF hosts, outs, Rs
  <2>5. /\ Delegated(at(w)) = {Inner(s, Append(P, w), ordered, I, O, k) : k \in 1 .. m}
        /\ Hosted(Rs[w], m, Append(P, w), I, O, Exits(s, Append(P, w), O, ordered), ordered,
                  HostRole("replica", at(w), All(Rs[w], m)))
        /\ HostRole("replica", at(w), All(Rs[w], m)).kind = "replica"
        /\ HostRole("replica", at(w), All(Rs[w], m)).stage = s
        /\ Last(s.inner).kind = "stage" =>
             HostRole("replica", at(w), All(Rs[w], m)).in = Entry(Append(P, w), I, m + 1)
        /\ Host("replica", at(w), All(Rs[w], m))
             = All(Rs[w], m) \cup {HostRole("replica", at(w), All(Rs[w], m))}
    <3> HIDE DEF T
    <3>1. /\ Delegated(at(w)) = {Inner(s, Append(P, w), ordered, I, O, k) : k \in 1 .. m}
          /\ Hosted(T, m, Append(P, w), I, O, Exits(s, Append(P, w), O, ordered), ordered,
                    HostRole("replica", at(w), All(T, m)))
          /\ HostRole("replica", at(w), All(T, m)).kind = "replica"
          /\ HostRole("replica", at(w), All(T, m)).stage = s
          /\ Last(s.inner).kind = "stage" =>
               HostRole("replica", at(w), All(T, m)).in = Entry(Append(P, w), I, m + 1)
          /\ Host("replica", at(w), All(T, m))
               = All(T, m) \cup {HostRole("replica", at(w), All(T, m))}
      BY <1>1, <1>3, <2>1, HostOf
    <3> QED  BY <3>1 DEF T
  <2> QED  BY <2>2, <2>3, <2>4, <2>5 DEF Replica
<1>7. ASSUME NEW w \in 1 .. n
      PROVE  UNION {SimpleThreads(q) : q \in Delegated(at(w))} = All(Rs[w], m)
  <2>1. {SimpleThreads(q) : q \in Delegated(at(w))} = {Rs[w][k] : k \in 1 .. m}
    <3> DEFINE D == Delegated(at(w))
               inner(k) == Inner(s, Append(P, w), ordered, I, O, k)
               T == Rs[w]
    <3>1. D = {inner(k) : k \in 1 .. m}  BY <1>6
    <3>2. \A k \in 1 .. m : T[k] = SimpleThreads(inner(k))  BY <1>5
    <3> HIDE DEF D, inner, T, m
    <3>3. {SimpleThreads(q) : q \in D} = {T[k] : k \in 1 .. m}  BY <3>1, <3>2
    <3> QED  BY <3>3 DEF D, T, m
  <2> QED  BY <2>1 DEF All
<1>8. FarmThreads(At(s, P, ordered, I, O))
        = UNION {Host("replica", at(w), UNION {SimpleThreads(q) : q \in Delegated(at(w))}) : w \in 1 .. n}
  <2> DEFINE p == At(s, P, ordered, I, O)
  <2>1. p.stage = s  BY DEF At
  <2>2. \A w : [p EXCEPT !.path = Append(@, w)] = at(w)  BY DEF At
  <2> HIDE DEF p, at
  <2> QED  BY <1>1, <2>1, <2>2 DEF FarmThreads, p
<1>9. FarmThreads(At(s, P, ordered, I, O)) = UNION {Replica(hosts, Rs, m, w) : w \in 1 .. n}
  <2> HIDE DEF hosts, Rs, at, m, n
  <2>1. \A w \in 1 .. n :
          Host("replica", at(w), UNION {SimpleThreads(q) : q \in Delegated(at(w))})
            = Replica(hosts, Rs, m, w)
    <3>1. \A w \in 1 .. n : Host("replica", at(w), All(Rs[w], m)) = Replica(hosts, Rs, m, w)
      BY <1>6
    <3> QED  BY <1>7, <3>1
  <2> QED  BY <1>8, <2>1
<1>10. Farm(hosts, Rs, m, n, P, I, O, outs, ordered)
  <2> HIDE DEF hosts, Rs, at, m, n, outs
  <2> QED  BY <1>1, <1>2, <1>6 DEF Farm
<1>11. ASSUME NEW w \in 1 .. n, Last(s.inner).kind = "stage" PROVE hosts[w].in # User
  <2>1. hosts[w].in = Entry(Append(P, w), I, m + 1)  BY <1>6, <1>11
  <2>2. Append(P, w) \in Paths /\ w \in Nat  BY <1>1, <1>3 DEF Site
  <2>3. Append(Append(P, w), m + 1) # User
    <3>1. m + 1 \in Nat  BY <1>4
    <3>2. Below(Append(P, w), Append(Append(P, w), m + 1))  BY <2>2, <3>1, Onward
    <3>3. \A x : Below(Append(P, w), x) => x # User
      <4> DEFINE Q == Append(P, w)
      <4>1. Q \in Paths  BY <2>2
      <4> HIDE DEF Q
      <4>2. \A x : Below(Q, x) => x # User  BY <4>1 DEF Below, Paths, User
      <4> QED  BY <4>2 DEF Q
    <3> QED  BY <3>2, <3>3
  <2> QED  BY <1>2, <2>1, <2>3 DEF Entry
<1>12. \A w \in 1 .. n :
        /\ Last(s.inner).kind = "stage" => hosts[w].in # User
        /\ \A k \in 1 .. m :
             /\ Rs[w][k] = threads(w, k)
             /\ Site(Append(Append(P, w), k), Entry(Append(P, w), I, k),
                     Exit(s.inner, Append(P, w), O, ordered, k))
  BY <1>5, <1>11
<1> HIDE DEF hosts, Rs, outs
<1> QED  BY <1>9, <1>10, <1>12

\* As a whole it is a pattern like any other.
LEMMA FarmPattern ==
  ASSUME NEW P, NEW I, NEW O, Site(P, I, O), NEW s, IsFarm(s), NEW ordered
  PROVE  Region(FarmThreads(At(s, P, ordered, I, O)), P, I, O, ordered)
<1>1. s.n # 0  BY DEF IsFarm
<1>2. PICK hosts, Rs, outs :
        /\ Farm(hosts, Rs, Delegates(s), s.n, P, I, O, outs, ordered)
        /\ FarmThreads(At(s, P, ordered, I, O))
             = UNION {Replica(hosts, Rs, Delegates(s), w) : w \in 1 .. s.n}
  BY FarmParts
<1> QED  BY <1>1, <1>2, FarmRegion

\* Neither a stage of its own nor a farm can be told from a context by what it does
\* in its place.
LEMMA PlainPattern ==
  ASSUME NEW P, NEW I, NEW O, Site(P, I, O), NEW s, IsSimple(s) \/ IsFarm(s), NEW ordered
  PROVE  Region(FarmThreads(At(s, P, ordered, I, O)), P, I, O, ordered)
<1>1. CASE IsFarm(s)  BY <1>1, FarmPattern
<1>2. CASE IsSimple(s)
  <2> DEFINE p == At(s, P, ordered, I, O)
  <2>1. p.stage = s  BY DEF At
  <2>2. s.kind # "farm"  BY <1>2 DEF IsSimple, SimpleKinds
  <2> HIDE DEF p
  <2>3. FarmThreads(p) = SimpleThreads(p)  BY <2>1, <2>2 DEF FarmThreads
  <2> QED  BY <1>2, <2>3, SimplePattern DEF p
<1> QED  BY <1>1, <1>2

\* A context: the patterns in it and its host.
LEMMA ContextParts ==
  ASSUME NEW P, NEW I, NEW O, Site(P, I, O), NEW s, IsContext(s), ~s.sequential, NEW ordered
  PROVE  LET Rs == [k \in 1 .. Delegates(s) |-> FarmThreads(Inner(s, P, ordered, I, O, k))]
             h == HostRole("context", At(s, P, ordered, I, O), All(Rs, Delegates(s)))
         IN /\ Hosted(Rs, Delegates(s), P, I, O, Exits(s, P, O, ordered), ordered, h)
            /\ h.kind = "context" /\ h.stage = s
            /\ Last(s.inner).kind = "stage" => h.in = Entry(P, I, Delegates(s) + 1)
            /\ ContextThreads(At(s, P, ordered, I, O)) = All(Rs, Delegates(s)) \cup {h}
            /\ \A k \in 1 .. Delegates(s) :
                 /\ k \in DOMAIN s.inner
                 /\ Site(Append(P, k), Entry(P, I, k), Exit(s.inner, P, O, ordered, k))
<1> DEFINE p == At(s, P, ordered, I, O)
           m == Delegates(s)
           inner(k) == Inner(s, P, ordered, I, O, k)
           Rs == [k \in 1 .. m |-> FarmThreads(inner(k))]
           h == HostRole("context", p, All(Rs, m))
<1>1. p.stage = s /\ p.path = P /\ p.in = I /\ p.out = O  BY DEF At
<1>2. s.kind = "context" /\ s.sequential \in BOOLEAN /\ IsSeq(s.inner)  BY DEF IsContext
<1>3. Len(s.inner) \in Nat /\ DOMAIN s.inner = 1 .. Len(s.inner) /\ m \in Nat /\ m <= Len(s.inner)
  <2>1. Len(s.inner) \in Nat /\ Len(s.inner) # 0 /\ DOMAIN s.inner = 1 .. Len(s.inner)
    BY <1>2, PlacesAre
  <2> QED  BY <2>1 DEF Delegates
<1>4. ASSUME NEW k \in 1 .. m
      PROVE  /\ k \in DOMAIN s.inner
             /\ Site(Append(P, k), Entry(P, I, k), Exit(s.inner, P, O, ordered, k))
             /\ Region(Rs[k], Append(P, k), Entry(P, I, k), Exit(s.inner, P, O, ordered, k), ordered)
  <2>1. k \in 1 .. Len(s.inner)  BY <1>3
  <2>2. Site(Append(P, k), Entry(P, I, k), Exit(s.inner, P, O, ordered, k))
    BY <1>2, <2>1, SiteInside
  <2>3. IsSimple(s.inner[k]) \/ IsFarm(s.inner[k])  BY <1>3, <2>1 DEF IsContext
  <2>4. Rs[k] = FarmThreads(inner(k))  OBVIOUS
  <2> HIDE DEF Rs
  <2> QED  BY <1>3, <2>1, <2>2, <2>3, <2>4, PlainPattern DEF Inner
<1> HIDE DEF Rs
<1>5. /\ Delegated(p) = {inner(k) : k \in 1 .. m}
      /\ Hosted(Rs, m, P, I, O, Exits(s, P, O, ordered), ordered, h)
      /\ h.kind = "context" /\ h.stage = s
      /\ Last(s.inner).kind = "stage" => h.in = Entry(P, I, m + 1)
      /\ Host("context", p, All(Rs, m)) = All(Rs, m) \cup {h}
  BY <1>2, <1>4, HostOf
<1>6. UNION {FarmThreads(q) : q \in Delegated(p)} = All(Rs, m)
  <2> DEFINE D == Delegated(p)
  <2>1. D = {inner(k) : k \in 1 .. m}  BY <1>5
  <2>2. \A k \in 1 .. m : Rs[k] = FarmThreads(inner(k))  BY DEF Rs
  <2> HIDE DEF D, inner, m
  <2>3. {FarmThreads(q) : q \in D} = {Rs[k] : k \in 1 .. m}  BY <2>1, <2>2
  <2> QED  BY <2>3 DEF D, m, All
<1>7. ContextThreads(p) = Host("context", p, UNION {FarmThreads(q) : q \in Delegated(p)})
  <2> HIDE DEF p
  <2> QED  BY <1>1, <1>2 DEF ContextThreads
<1>8. ContextThreads(p) = All(Rs, m) \cup {h}  BY <1>5, <1>6, <1>7
<1>9. \A k \in 1 .. m :
        k \in DOMAIN s.inner /\ Site(Append(P, k), Entry(P, I, k), Exit(s.inner, P, O, ordered, k))
  BY <1>4
<1>10. Rs = [k \in 1 .. m |-> FarmThreads(inner(k))]  BY DEF Rs
<1> QED  BY <1>5, <1>8, <1>9, <1>10

\* As a whole it is a pattern like any other.
LEMMA ContextPattern ==
  ASSUME NEW P, NEW I, NEW O, Site(P, I, O), NEW s, IsContext(s), NEW ordered
  PROVE  Region(ContextThreads(At(s, P, ordered, I, O)), P, I, O, ordered)
<1> DEFINE p == At(s, P, ordered, I, O)
<1>1. p.stage = s /\ p.path = P /\ p.in = I /\ p.out = O  BY DEF At
<1>2. s.kind = "context" /\ s.sequential \in BOOLEAN /\ IsSeq(s.inner)  BY DEF IsContext
<1>3. CASE s.sequential
  <2> DEFINE r == Role(P, "context", s, I, O, {})
  <2> HIDE DEF p
  <2>1. ContextThreads(p) = {r}  BY <1>1, <1>2, <1>3 DEF ContextThreads
  <2>2. r.id = P /\ r.kind = "context" /\ r.in = I /\ r.out = O /\ r.helpers = {}
    BY DEF Role
  <2> HIDE DEF r
  <2>3. Region({r}, P, I, O, ordered)  BY <2>2, SingleRegion DEF Site
  <2> QED  BY <2>1, <2>3 DEF p
<1>4. CASE ~s.sequential
  <2> DEFINE m == Delegates(s)
             Rs == [k \in 1 .. m |-> FarmThreads(Inner(s, P, ordered, I, O, k))]
             h == HostRole("context", p, All(Rs, m))
  <2>1. /\ Hosted(Rs, m, P, I, O, Exits(s, P, O, ordered), ordered, h)
        /\ h.kind = "context" /\ ContextThreads(p) = All(Rs, m) \cup {h}
    BY <1>4, ContextParts
  <2> HIDE DEF Rs, h, p, m
  <2>2. Region(All(Rs, m) \cup {h}, P, I, O, ordered)  BY <2>1, ContextRegion
  <2> QED  BY <2>1, <2>2 DEF p
<1> QED  BY <1>2, <1>3, <1>4

\* A stage of a pipeline but the last.
LEMMA StagePattern ==
  ASSUME NEW P, NEW I, NEW O, Site(P, I, O), NEW s, IsStage(s), NEW ordered
  PROVE  Region(ContextThreads(At(s, P, ordered, I, O)), P, I, O, ordered)
<1>1. CASE IsContext(s)  BY <1>1, ContextPattern
<1>2. CASE IsSimple(s) \/ IsFarm(s)
  <2> DEFINE p == At(s, P, ordered, I, O)
  <2>1. p.stage = s  BY DEF At
  <2>2. s.kind # "context"  BY <1>2 DEF IsSimple, IsFarm, SimpleKinds
  <2> HIDE DEF p
  <2>3. ContextThreads(p) = FarmThreads(p)  BY <2>1, <2>2 DEF ContextThreads
  <2> QED  BY <1>2, <2>3, PlainPattern DEF p
<1> QED  BY <1>1, <1>2 DEF IsStage

\* The last stage.
LEMMA SinkPattern ==
  ASSUME NEW P \in Paths, P # User, NEW I \in Paths, I # User, Within(I, P),
         NEW s, IsSink(s), NEW ordered
  PROVE  Region(ContextThreads(At(s, P, ordered, I, User)), P, I, User, ordered)
<1> DEFINE p == At(s, P, ordered, I, User)
<1>1. p.stage = s /\ p.path = P /\ p.ordered = ordered /\ p.in = I /\ p.out = User  BY DEF At
<1> HIDE DEF p
<1>2. s.kind \in {"consume", "farm_sink"}  BY DEF IsSink
<1>3. ContextThreads(p) = SimpleThreads(p)  BY <1>1, <1>2 DEF ContextThreads, FarmThreads
<1>4. CASE s.kind = "consume"
  <2> DEFINE r == Role(P, s.kind, s, I, User, {})
  <2>1. SimpleThreads(p) = {r}  BY <1>1, <1>4 DEF SimpleThreads
  <2>2. r.id = P /\ r.kind = "consume" /\ r.in = I /\ r.out = User /\ r.helpers = {}
    BY <1>4 DEF Role
  <2> HIDE DEF r
  <2>3. Region({r}, P, I, User, ordered)  BY <2>2, SingleRegion
  <2> QED  BY <1>3, <2>1, <2>3 DEF p
<1>5. CASE s.kind = "farm_sink"
  <2> DEFINE n == s.n
             r == [w \in 1 .. n |-> Role(Append(P, w), "farm_sink", s, I, User, {})]
             R == SimpleThreads(p)
  <2>1. n \in Nat \ {0}  BY <1>5 DEF IsSink
  <2>2. R = {Role(Append(P, w), "farm_sink", s, I, User, {}) : w \in 1 .. n}
    BY <1>1, <1>5 DEF SimpleThreads
  <2>3. R = {r[w] : w \in 1 .. n}  BY <2>2
  <2>4. \A w \in 1 .. n : /\ r[w].id = Append(P, w) /\ r[w].kind = "farm_sink"
                          /\ r[w].in = I /\ r[w].out = User /\ r[w].helpers = {}
    BY DEF Role
  <2> HIDE DEF r, n, R
  <2>5. Region(R, P, I, User, ordered)  BY <2>1, <2>3, <2>4, SinkRegion
  <2> QED  BY <1>3, <2>5 DEF p, R
<1> QED  BY <1>2, <1>4, <1>5

-----------------------------------------------------------------------------
(* The pipeline. *)

\* Its stages are places at the empty path; nothing is behind the last.
LEMMA PipelineStages ==
  ASSUME NEW p, IsPipeline(p)
  PROVE  \E Rs, n, outs :
           /\ Serial(Rs, n, <<>>, <<1>>, outs, p.ordered)
           /\ UNION {ContextThreads(q) : q \in ToSet(Places(p.stages, <<>>, <<1>>, User, p.ordered))}
                = All(Rs, n)
           /\ n = Len(p.stages) /\ n # 0 /\ DOMAIN p.stages = 1 .. n /\ outs[n] = User
           /\ \A k \in 1 .. n :
                /\ Rs[k] = ContextThreads(At(p.stages[k], Append(<<>>, k), p.ordered,
                                             Append(<<>>, k), outs[k]))
                /\ Append(<<>>, k) \in Paths /\ Append(<<>>, k) # User
                /\ k < n => Site(Append(<<>>, k), Append(<<>>, k), outs[k])
<1> DEFINE n == Len(p.stages)
           P == <<>>
           I == <<1>>
           exit(k) == Exit(p.stages, P, User, p.ordered, k)
           at(k) == At(p.stages[k], Append(P, k), p.ordered, Entry(P, I, k), exit(k))
           outs == [k \in 1 .. n |-> exit(k)]
           Rs == [k \in 1 .. n |-> ContextThreads(at(k))]
<1>1. IsSeq(p.stages)  BY DEF IsPipeline
<1>2. n \in Nat /\ n # 0 /\ DOMAIN p.stages = 1 .. n
      /\ ToSet(Places(p.stages, P, I, User, p.ordered)) = {at(k) : k \in 1 .. n}
  <2> HIDE DEF P, I
  <2> QED  BY <1>1, PlacesAre
<1>3. P \in Paths /\ I \in Paths /\ I # User /\ I = Append(P, 1)
  BY DEF Paths, User
<1> HIDE DEF P, I, n
<1>4. ASSUME NEW k \in 1 .. n
      PROVE  /\ k \in Nat /\ Append(P, k) \in Paths /\ Append(P, k) # User
             /\ Entry(P, I, k) = Append(P, k) /\ Within(Append(P, k), Append(P, k))
  <2>1. k \in Nat  BY <1>2
  <2>2. Append(P, k) \in Paths /\ Len(Append(P, k)) = Len(P) + 1  BY <1>3, <2>1, Onward
  <2>3. Len(P) \in Nat  BY <1>3 DEF Paths
  <2>4. Append(P, k) # User  BY <2>2, <2>3 DEF User
  <2>5. Entry(P, I, k) = Append(P, k)  BY <1>3 DEF Entry
  <2>6. Within(Append(P, k), Append(P, k))  BY <2>2, WithinOrder
  <2> QED  BY <2>1, <2>2, <2>4, <2>5, <2>6
<1>5. ASSUME NEW k \in 1 .. n
      PROVE  /\ Region(Rs[k], Append(P, k), Entry(P, I, k), outs[k], p.ordered)
             /\ outs[k] \in Paths
             /\ k < n => outs[k] = Append(P, k + 1)
             /\ k = n => outs[k] = User
             /\ k < n => Site(Append(P, k), Append(P, k), outs[k])
             /\ Rs[k] = ContextThreads(At(p.stages[k], Append(P, k), p.ordered, Append(P, k), outs[k]))
  <2>1. Rs[k] = ContextThreads(at(k)) /\ outs[k] = exit(k)  OBVIOUS
  <2>4. Rs[k] = ContextThreads(At(p.stages[k], Append(P, k), p.ordered, Append(P, k), outs[k]))
    BY <1>4, <2>1
  <2> HIDE DEF Rs, outs
  <2>2. CASE k < n
    <3>1. IsStage(p.stages[k])  BY <1>2, <2>2 DEF IsPipeline, n
    <3>2. exit(k) = Append(P, k + 1)  BY <2>2 DEF Exit, n
    <3>3. k + 1 \in 1 .. n  BY <1>2, <2>2
    <3>4. Apart(Append(P, k), Append(P, k + 1))  BY <1>2, <1>3, <1>4, Neighbours
    <3>5. Append(P, k)[1] = k /\ Append(P, k + 1)[1] = k + 1
      <4>1. Len(P) = 0  BY DEF P
      <4> QED  BY <1>3, <1>4, <3>3, <4>1, Onward
    <3>6. Append(P, k)[1] <= Append(P, k + 1)[1]  BY <1>4, <3>5
    <3>7. Site(Append(P, k), Append(P, k), Append(P, k + 1))
      BY <1>4, <3>3, <3>4, <3>6 DEF Site
    <3>8. Region(ContextThreads(at(k)), Append(P, k), Append(P, k), Append(P, k + 1), p.ordered)
      BY <1>4, <3>1, <3>2, <3>7, StagePattern
    <3>9. outs[k] = Append(P, k + 1) /\ outs[k] \in Paths  BY <1>4, <2>1, <3>2, <3>3
    <3>10. k # n  BY <1>2, <2>2
    <3> HIDE DEF at, exit
    <3> QED  BY <1>4, <2>1, <2>4, <3>2, <3>7, <3>8, <3>9, <3>10
  <2>3. CASE k = n
    <3>1. IsSink(p.stages[k])  BY <1>2, <2>3 DEF IsPipeline, n
    <3>2. p.stages[k].kind # "filter" /\ ~(n < n)  BY <1>2, <3>1 DEF IsSink
    <3>3. exit(k) = User  BY <2>3, <3>2 DEF Exit, n
    <3>4. User \in Paths  BY DEF Paths, User
    <3>5. Region(ContextThreads(at(k)), Append(P, k), Append(P, k), User, p.ordered)
      BY <1>4, <3>1, <3>3, SinkPattern
    <3>6. outs[k] = User /\ ~(k < n)  BY <2>1, <2>3, <3>2, <3>3
    <3> HIDE DEF at, exit
    <3> QED  BY <1>4, <2>1, <2>4, <3>4, <3>5, <3>6
  <2> QED  BY <1>2, <2>2, <2>3
<1>6. Serial(Rs, n, P, I, outs, p.ordered)
  <2> HIDE DEF Rs, outs
  <2> QED  BY <1>2, <1>3, <1>5 DEF Serial
<1>7. UNION {ContextThreads(q) : q \in ToSet(Places(p.stages, P, I, User, p.ordered))} = All(Rs, n)
  <2> DEFINE D == ToSet(Places(p.stages, P, I, User, p.ordered))
  <2>1. D = {at(k) : k \in 1 .. n}  BY <1>2
  <2>2. \A k \in 1 .. n : Rs[k] = ContextThreads(at(k))  OBVIOUS
  <2> HIDE DEF D, at, Rs
  <2>3. {ContextThreads(q) : q \in D} = {Rs[k] : k \in 1 .. n}  BY <2>1, <2>2
  <2> QED  BY <2>3 DEF D, All
<1>8. outs[n] = User
  <2>1. n \in 1 .. n  BY <1>2
  <2> QED  BY <1>5, <2>1
<1>9. \A k \in 1 .. n :
        /\ Rs[k] = ContextThreads(At(p.stages[k], Append(P, k), p.ordered, Append(P, k), outs[k]))
        /\ Append(P, k) \in Paths /\ Append(P, k) # User
        /\ k < n => Site(Append(P, k), Append(P, k), outs[k])
  BY <1>4, <1>5
<1>10. n = Len(p.stages) /\ n # 0 /\ DOMAIN p.stages = 1 .. n  BY <1>2 DEF n
<1> HIDE DEF Rs, outs
<1> QED  BY <1>6, <1>7, <1>8, <1>9, <1>10 DEF P, I

\* The threads of every pipeline are linked.
THEOREM PipelineLinked ==
  ASSUME NEW p, IsPipeline(p)
  PROVE  Linked(Roles(p), p.ordered)
<1>1. PICK Rs, n, outs :
        /\ Serial(Rs, n, <<>>, <<1>>, outs, p.ordered)
        /\ UNION {ContextThreads(q) : q \in ToSet(Places(p.stages, <<>>, <<1>>, User, p.ordered))}
             = All(Rs, n)
        /\ n = Len(p.stages) /\ n # 0 /\ DOMAIN p.stages = 1 .. n /\ outs[n] = User
        /\ \A k \in 1 .. n :
             /\ Rs[k] = ContextThreads(At(p.stages[k], Append(<<>>, k), p.ordered,
                                          Append(<<>>, k), outs[k]))
             /\ Append(<<>>, k) \in Paths /\ Append(<<>>, k) # User
             /\ k < n => Site(Append(<<>>, k), Append(<<>>, k), outs[k])
  BY PipelineStages
<1> DEFINE U == All(Rs, n)
           g == Role(Generator, "generate", [kind |-> "generate"], User, <<1>>, {})
           V == U \cup {g}
           P == <<>>
<1>2. Roles(p) = V  BY <1>1 DEF Roles
<1>3. Linked(U, p.ordered)  BY <1>1, SerialLinked
<1>4. g.id = <<0>> /\ g.kind = "generate" /\ g.in = User /\ g.out = <<1>> /\ g.helpers = {}
  BY DEF Role, Generator
<1>5. P \in Paths /\ n \in Nat /\ Len(P) = 0 /\ <<0>> = Append(P, 0) /\ <<1>> = Append(P, 1)
      /\ <<0>> \in Paths /\ <<1>> \in Paths /\ <<1>> # User
  BY <1>1 DEF Serial, Paths, User
<1> HIDE DEF g
<1>6. ASSUME NEW r \in U
      PROVE  /\ r.id # <<0>> /\ r.out # <<1>>
             /\ r.kind = "reorder" => r.in # <<1>> /\ r.in # User
  <2>1. PICK k \in 1 .. n : r \in Rs[k]  BY DEF All
  <2> DEFINE Q == Append(P, k)
  <2>2. Region(Rs[k], Q, Entry(P, <<1>>, k), outs[k], p.ordered)
        /\ (k < n => outs[k] = Append(P, k + 1))
        /\ (k = n => outs[k] \in {Append(P, n + 1), Append(P, 0), User} \/ Apart(P, outs[k]))
    BY <1>1 DEF Serial
  <2>3. k \in Nat /\ k # 0 /\ Q \in Paths /\ Len(Q) = 1 /\ Q[1] = k
    <3>1. k \in Nat /\ k # 0  BY <1>5
    <3> HIDE DEF P
    <3>2. Q \in Paths /\ Len(Q) = Len(P) + 1 /\ Q[Len(P) + 1] = k  BY <1>5, <3>1, Onward
    <3>3. Len(P) + 1 = 1  BY <1>5
    <3> QED  BY <3>1, <3>2, <3>3
  <2> HIDE DEF Q
  <2>4. Within(Q, r.id) /\ (r.out = outs[k] \/ Below(Q, r.out)) /\ (r.kind = "reorder" => Below(Q, r.in))
    BY <2>1, <2>2 DEF Region, Located
  <2>5. \A s : Below(Q, s) => s # <<1>> /\ s # User
    <3>1. \A s : Below(Q, s) => 1 < Len(s)  BY <2>3 DEF Below
    <3> DEFINE one == <<1>>
    <3>2. Len(one) = 1  OBVIOUS
    <3>3. Len(User) = 0  BY DEF User
    <3> SUFFICES ASSUME NEW s, Below(Q, s) PROVE s # <<1>> /\ s # User  OBVIOUS
    <3>4. 1 < Len(s)  BY <3>1
    <3>5. s # User  BY <3>3, <3>4
    <3> HIDE DEF one
    <3>6. ~(1 < Len(one))  BY <3>2
    <3>7. s # one  BY <3>4, <3>6, Zenon
    <3> QED  BY <3>5, <3>7 DEF one
  <2>6. r.id # <<0>>  BY <2>3, <2>4 DEF Within
  <2>7. outs[k] # <<1>>
    <3>1. ~Apart(P, outs[k])  BY <1>5 DEF Apart
    <3>2. k < n \/ k = n  BY <1>5
    <3>3. \A x \in Nat : Append(P, x) = <<x>>  BY DEF P
    <3>4. k + 1 \in Nat /\ n + 1 \in Nat /\ k + 1 # 1 /\ (k = n => n + 1 # 1)  BY <1>5, <2>3
    <3>5. <<k + 1>> # <<1>> /\ <<0>> # <<1>> /\ (k = n => <<n + 1>> # <<1>>)  BY <3>4
    <3> HIDE DEF P
    <3> QED  BY <1>5, <2>2, <3>1, <3>2, <3>3, <3>4, <3>5
  <2> QED  BY <2>4, <2>5, <2>6, <2>7
<1>7. LinkedRole(V, g) /\ LinkedFilter(V, g, p.ordered)
  <2>1. User \in Paths  BY DEF Paths, User
  <2> QED  BY <1>4, <1>5, <2>1 DEF LinkedRole, LinkedFilter
<1> HIDE DEF U
<1>8. ASSUME NEW r \in U PROVE LinkedRole(V, r) /\ LinkedFilter(V, r, p.ordered)
  <2>1. LinkedRole(U, r) /\ LinkedFilter(U, r, p.ordered)  BY <1>3 DEF Linked, LinkedThreads
  <2>2. Ids(U) \subseteq Ids(V)  BY DEF Ids
  <2>3. LinkedRole(V, r)  BY <2>1, <2>2 DEF LinkedRole
  <2> QED  BY <1>4, <1>6, <2>1, <2>3 DEF LinkedFilter
<1>9. \A r, s \in V : r.id = s.id => r = s
  BY <1>3, <1>4, <1>6 DEF Linked, LinkedThreads
<1>10. \A v, w \in V : LinkedWriters(V, v, w)
  <2>1. \A v, w \in U : LinkedWriters(V, v, w)  BY <1>3 DEF Linked, LinkedThreads, LinkedWriters
  <2>2. \A v \in V : LinkedWriters(V, v, g) /\ LinkedWriters(V, g, v)
    BY <1>4, <1>6 DEF LinkedWriters
  <2> QED  BY <2>1, <2>2
<1>11. Alone(U, V)
  <2>1. \A x \in U : x.helpers \subseteq Ids(U)  BY <1>3 DEF Linked, LinkedThreads, LinkedRole
  <2> QED  BY <1>4, <1>6, <2>1 DEF Alone, OfOneFarm
<1>12. Farmed(V)  BY <1>3, <1>4, <1>11, StillReplica DEF Farmed, Linked
<1> QED  BY <1>2, <1>7, <1>8, <1>9, <1>10, <1>12 DEF Linked, LinkedThreads

-----------------------------------------------------------------------------
(* The connections of a pipeline of NativePipeline. *)

\* The connections do not change.
LEMMA RolesStay ==
  ASSUME conf' = conf
  PROVE  /\ Threads' = Threads
         /\ \A th : /\ kind(th)' = kind(th) /\ stage(th)' = stage(th)
                    /\ input_queue(th)' = input_queue(th)
                    /\ output_queue(th)' = output_queue(th)
                    /\ helpers(th)' = helpers(th)
                    /\ (IsHost(th)' <=> IsHost(th))
                    /\ (OnlyWaits(th)' <=> OnlyWaits(th))
                    /\ (IsSequential(th)' <=> IsSequential(th))
                    /\ (IsReplica(th)' <=> IsReplica(th))
                    /\ Crew(th)' = Crew(th)
         /\ \A f : Replicas(f)' = Replicas(f)
         /\ \A q : Readers(q)' = Readers(q) /\ Writers(q)' = Writers(q)
<1>1. Threads' = Threads  BY DEF Threads
<1>2. \A th : /\ kind(th)' = kind(th) /\ stage(th)' = stage(th)
                    /\ input_queue(th)' = input_queue(th)
                    /\ output_queue(th)' = output_queue(th)
                    /\ helpers(th)' = helpers(th)
  BY DEF kind, stage, input_queue, output_queue, helpers
<1>3. \A th : /\ (IsHost(th)' <=> IsHost(th))
                    /\ (OnlyWaits(th)' <=> OnlyWaits(th))
                    /\ (IsSequential(th)' <=> IsSequential(th))
                    /\ (IsReplica(th)' <=> IsReplica(th))
                    /\ Crew(th)' = Crew(th)
  BY <1>2 DEF IsHost, OnlyWaits, IsSequential, IsReplica, Crew
<1>4. \A f : Replicas(f)' = Replicas(f)
  BY <1>1, <1>3 DEF Replicas, FarmOf
<1>5. \A q : Readers(q)' = Readers(q) /\ Writers(q)' = Writers(q)
  BY <1>1, <1>2 DEF Readers, Writers
<1> QED  BY <1>1, <1>2, <1>3, <1>4, <1>5

\* The queue of a farm is part of the connections.
LEMMA FarmInputStays ==
  ASSUME conf' = conf, NEW th
  PROVE  FarmInput(th)' = FarmInput(th)
BY DEF FarmInput, input_queue, helpers

\* The same of what is said with them.
LEMMA MarkersStay ==
  ASSUME conf' = conf
  PROVE  /\ \A th : (MayEndTwice(th)' <=> MayEndTwice(th))
         /\ \A th : FarmInput(th)' = FarmInput(th)
         /\ \A q : /\ (EndedOnce(q)' <=> EndedOnce(q))
                   /\ (IsFarmInput(q)' <=> IsFarmInput(q))
                   /\ \A item : IsMarker(q, item)' <=> IsMarker(q, item)
         /\ \A m : IsEndMsg(m)' <=> IsEndMsg(m)
<1>1. \A th : FarmInput(th)' = FarmInput(th)  BY FarmInputStays
<1>2. \A th : (MayEndTwice(th)' <=> MayEndTwice(th))
  BY RolesStay DEF MayEndTwice
<1>3. \A q : (EndedOnce(q)' <=> EndedOnce(q))
  BY <1>2, RolesStay DEF EndedOnce
<1>4. \A q : (IsFarmInput(q)' <=> IsFarmInput(q))
  BY <1>1, RolesStay DEF IsFarmInput
<1>5. \A q, item : IsMarker(q, item)' <=> IsMarker(q, item)
  BY RolesStay DEF IsMarker
<1>6. \A m : IsEndMsg(m)' <=> IsEndMsg(m)
  BY <1>5 DEF IsEndMsg
<1> QED  BY <1>1, <1>2, <1>3, <1>4, <1>5, <1>6

\* So the threads stay wired.
LEMMA WiredStays ==
  ASSUME Wired, conf' = conf, DOMAIN queue' = DOMAIN queue,
         DOMAIN done_threads' = DOMAIN done_threads
  PROVE  Wired'
<1>1. Connected'  BY RolesStay DEF Wired, Connected, Queues
<1>2. FilterQueues'  BY RolesStay, MarkersStay DEF Wired, FilterQueues
<1>3. OneWriter'  BY RolesStay, MarkersStay DEF Wired, OneWriter, Queues, FarmOf
<1>4. FarmQueues'  BY RolesStay, MarkersStay DEF Wired, FarmQueues, Queues, FarmOf
<1> QED  BY <1>1, <1>2, <1>3, <1>4 DEF Wired

-----------------------------------------------------------------------------
(* What a step of one thread leaves alone. *)

Frame(th) ==
  /\ conf' = conf
  /\ DOMAIN queue' = DOMAIN queue /\ DOMAIN done_threads' = DOMAIN done_threads
  /\ \A t \in Threads \ {th} : pc'[t] = pc[t] /\ out'[t] = out[t]
  /\ ~Finished(th)

\* The thread does not leave its loop, or the loop is not at queue q.
StaysAt(th, q) == th \in Readers(q) => (pc'[th] = "loop" <=> pc[th] = "loop")

\* A step of thread th that does not leave the loop at q gives q no new holder of an
\* end marker, except by what th itself has to push.
LEMMA FewerHave ==
  ASSUME NEW th, Frame(th), NEW q, StaysAt(th, q)
  PROVE  /\ Holding(q)' \subseteq Holding(q)
         /\ Kept(q)' \subseteq Kept(q)
         /\ Pending(q)' \ {th} \subseteq Pending(q)
<1>1. conf' = conf  BY DEF Frame
<1>2. \A t \in Threads : Finished(t) => Finished(t)'
  BY DEF Frame, Finished
<1>3. \A t \in Readers(q) : pc'[t] # "loop" => pc[t] # "loop"
  BY DEF Frame, StaysAt, Readers
<1>4. Holding(q)' \subseteq Holding(q)
  BY <1>1, <1>2, <1>3, RolesStay, MarkersStay DEF Holding, Crew
<1>5. Kept(q)' \subseteq Kept(q)
  BY <1>1, <1>3, RolesStay, MarkersStay DEF Kept
<1>6. Pending(q)' \ {th} \subseteq Pending(q)
  BY <1>1, RolesStay, MarkersStay DEF Pending, Frame
<1> QED  BY <1>4, <1>5, <1>6

-----------------------------------------------------------------------------
(* The markers in a queue when an item is taken from it or added to it. *)

Takes(th, item) ==
  /\ queue[input_queue(th)] # <<>>
  /\ item = Head(queue[input_queue(th)])
  /\ queue' = [queue EXCEPT ![input_queue(th)] = Tail(@)]

\* Behind a pop every item is one place further on, and so is every end marker.
LEMMA TakenFrom ==
  ASSUME queue \in [Queues -> Seq(Items)], conf' = conf, NEW th, NEW item, Takes(th, item),
         NEW q, q = input_queue(th), q \in Queues
  PROVE  /\ \A k \in Markers(q)' : k \in Nat /\ k # 0 /\ k + 1 \in Markers(q)
         /\ IsMarker(q, item) => 1 \in Markers(q)
         /\ \A k \in DOMAIN queue'[q] :
              k \in Nat /\ k + 1 \in DOMAIN queue[q] /\ queue'[q][k] = queue[q][k + 1]
<1>1. queue[q] \in Seq(Items) /\ queue[q] # <<>> /\ queue'[q] = Tail(queue[q])
  BY DEF Takes, Queues
<1>2. \A k \in DOMAIN queue'[q] : /\ k \in Nat /\ k # 0
                                  /\ k + 1 \in DOMAIN queue[q] /\ queue'[q][k] = queue[q][k + 1]
  BY <1>1
<1>3. 1 \in DOMAIN queue[q] /\ queue[q][1] = item
  BY <1>1 DEF Takes
<1> QED  BY <1>2, <1>3, MarkersStay DEF Markers

\* Behind a push the item is the last, and a marker more if it is one.
LEMMA AddedTo ==
  ASSUME queue \in [Queues -> Seq(Items)], conf' = conf, NEW q \in Queues,
         NEW item \in Items, queue'[q] = Append(queue[q], item)
  PROVE  /\ Markers(q)' = Markers(q) \cup
                           (IF IsMarker(q, item) THEN {Len(queue[q]) + 1} ELSE {})
         /\ \A k \in DOMAIN queue'[q] : \/ k \in DOMAIN queue[q] /\ queue'[q][k] = queue[q][k]
                                        \/ k = Len(queue[q]) + 1 /\ queue'[q][k] = item
         /\ \A k \in DOMAIN queue[q] : k < Len(queue[q]) + 1
<1>1. queue[q] \in Seq(Items)  OBVIOUS
<1>2. DOMAIN queue'[q] = 1 .. Len(queue[q]) + 1 /\ DOMAIN queue[q] = 1 .. Len(queue[q])
      /\ Len(queue[q]) \in Nat
  BY <1>1
<1>3. /\ \A k \in 1 .. Len(queue[q]) : queue'[q][k] = queue[q][k]
      /\ queue'[q][Len(queue[q]) + 1] = item
  BY <1>1
<1>4. Markers(q)' = {k \in DOMAIN queue'[q] : IsMarker(q, queue'[q][k])}
  BY MarkersStay DEF Markers
<1>5. Markers(q) = {k \in DOMAIN queue[q] : IsMarker(q, queue[q][k])}
  BY DEF Markers
<1> QED  BY <1>2, <1>3, <1>4, <1>5

\* No item is taken from the queue or added to it.
LEMMA SameQueue ==
  ASSUME conf' = conf, NEW q, queue'[q] = queue[q]
  PROVE  Markers(q)' = Markers(q)
BY MarkersStay DEF Markers

-----------------------------------------------------------------------------
(* The kinds of step, as far as the end markers are concerned. *)

Emits(th, m) == \E k \in DOMAIN out'[th] : out'[th][k] = m /\ IsEndMsg(m) /\ EndedOnce(m.to)

\* A step within the loop, or after it, that has nothing to do with the end.
Work(th) ==
  /\ Frame(th) /\ out[th] = <<>> /\ pc[th] # "last" /\ pc'[th] # "last"
  /\ pc'[th] = "loop" <=> pc[th] = "loop"
  /\ queue' = queue \/ \E item : Takes(th, item) /\ ~IsMarker(input_queue(th), item)
  /\ \A m : ~Emits(th, m)

\* The thread takes an end marker and leaves its loop.
Leave(th) ==
  /\ Frame(th) /\ out[th] = <<>> /\ pc[th] = "loop" /\ pc'[th] # "loop"
  /\ kind(th) = "iterate" => pc'[th] # "last"
  /\ input_queue(th) \in Queues
  /\ \E item : Takes(th, item) /\ IsMarker(input_queue(th), item)
  /\ \A m : Emits(th, m) =>
       /\ pc'[th] = "last" /\ ~IsReplica(th)
       /\ m.to = output_queue(th) \/ (kind(th) = "farm_sink" /\ m.to = input_queue(th))

\* The thread ends its output, or the consumer is done; an iteration, when its queue is
\* empty.
Finish(th) ==
  /\ Frame(th) /\ out[th] = <<>> /\ pc[th] # "last" /\ pc'[th] = "last"
  /\ pc[th] # "loop" \/ kind(th) = "generate"
  /\ kind(th) = "iterate" => queue[input_queue(th)] = <<>>
  /\ queue' = queue /\ ~IsReplica(th)
  /\ \A m : Emits(th, m) => m.to = output_queue(th)

\* What the edge q is about to lose, it has not lost yet: no end marker appears.
LEMMA NothingNew ==
  ASSUME NEW th \in Threads, Frame(th), NEW q, OneMarker(q),
         pc[th] = "last" => pc'[th] = "last",
         Have(q)' \subseteq Have(q),
         Markers(q)' # {} => Markers(q) # {},
         \A k, l \in Markers(q)' : k = l
  PROVE  OneMarker(q)'
<1>1. Writers(q)' = Writers(q) /\ Writers(q) \subseteq Threads
  BY RolesStay DEF Frame, Writers
<1>2. \A w \in Threads : pc[w] = "last" => pc'[w] = "last"
  BY DEF Frame
<1>3. Markers(q)' # {} => Have(q)' = {}
  BY DEF OneMarker
<1>4. \A t, u \in Have(q)' : t = u
  BY DEF OneMarker
<1>5. (Markers(q)' # {} \/ Have(q)' # {}) => \A w \in Writers(q)' : pc'[w] = "last"
  BY <1>1, <1>2 DEF OneMarker
<1> QED  BY <1>3, <1>4, <1>5 DEF OneMarker

\* Such a step leaves every edge with one end marker.
LEMMA WorkKeeps ==
  ASSUME Wired, Typed, NEW th \in Threads, Work(th),
         NEW q \in Queues, EndedOnce(q), OneMarker(q)
  PROVE  OneMarker(q)'
<1>1. Frame(th) /\ conf' = conf /\ pc[th] # "last"  BY DEF Work, Frame
<1>2. Have(q)' \subseteq Have(q)
  <2>1. StaysAt(th, q)  BY DEF StaysAt, Work
  <2>2. th \notin Pending(q)'
    BY <1>1, RolesStay, MarkersStay DEF Pending, Work, Emits
  <2> QED  BY <1>1, <2>1, <2>2, FewerHave DEF Have
<1>3. (Markers(q)' # {} => Markers(q) # {}) /\ \A k, l \in Markers(q)' : k = l
  <2>1. CASE queue'[q] = queue[q]  BY <1>1, <2>1, SameQueue DEF OneMarker
  <2>2. CASE queue'[q] # queue[q]
    <3>1. q = input_queue(th) /\ \E item : Takes(th, item)
      BY <2>2 DEF Work, Takes, Typed
    <3>2. \A k \in Markers(q)' : k \in Nat /\ k + 1 \in Markers(q)
      BY <1>1, <3>1, TakenFrom DEF Typed
    <3> QED  BY <3>2 DEF OneMarker
  <2> QED  BY <2>1, <2>2
<1> QED  BY <1>1, <1>2, <1>3, NothingNew

\* The only thread that feeds an edge ends it.
LEMMA EndsEdge ==
  ASSUME Wired, NEW th \in Threads, Frame(th), NEW q \in Queues, EndedOnce(q), OneMarker(q),
         th \in Writers(q), pc[th] # "last", pc'[th] = "last",
         \A w \in Writers(q) \ {th} : pc[w] = "last",
         StaysAt(th, q), queue'[q] = queue[q]
  PROVE  OneMarker(q)'
<1>1. conf' = conf /\ Writers(q)' = Writers(q) /\ Writers(q) \subseteq Threads
  BY RolesStay DEF Frame, Writers
<1>2. Markers(q) = {} /\ Have(q) = {}  BY DEF OneMarker
<1>3. Markers(q)' = {}  BY <1>1, <1>2, SameQueue
<1>4. Have(q)' \subseteq {th}  BY <1>2, FewerHave DEF Have
<1>5. \A w \in Writers(q)' : pc'[w] = "last"  BY <1>1 DEF Frame
<1> QED  BY <1>3, <1>4, <1>5 DEF OneMarker

\* The end of a thread gives its output the one end marker.
LEMMA FinishKeeps ==
  ASSUME Wired, NEW th \in Threads, Finish(th),
         NEW q \in Queues, EndedOnce(q), OneMarker(q)
  PROVE  OneMarker(q)'
<1>1. Frame(th) /\ conf' = conf /\ queue'[q] = queue[q]  BY DEF Finish, Frame
<1>2. StaysAt(th, q)
  BY DEF StaysAt, Finish, Wired, Connected, Readers
<1>3. CASE th \in Pending(q)'
  <2>1. th \in Writers(q)
    BY <1>1, <1>3, RolesStay, MarkersStay DEF Pending, Finish, Emits, Writers
  <2>2. \A w \in Writers(q) \ {th} : pc[w] = "last"
    BY <2>1 DEF Wired, OneWriter, Finish
  <2> QED  BY <1>1, <1>2, <2>1, <2>2, EndsEdge DEF Finish
<1>4. CASE th \notin Pending(q)'
  <2>1. Have(q)' \subseteq Have(q)  BY <1>1, <1>2, <1>4, FewerHave DEF Have
  <2>2. Markers(q)' = Markers(q)  BY <1>1, SameQueue
  <2>3. \A k, l \in Markers(q)' : k = l  BY <2>2 DEF OneMarker
  <2> QED  BY <1>1, <2>1, <2>2, <2>3, NothingNew DEF Finish
<1> QED  BY <1>3, <1>4

\* The reader of an edge takes its end marker.
LEMMA TakesMarker ==
  ASSUME Wired, Typed, NEW th \in Threads, Leave(th),
         NEW q \in Queues, EndedOnce(q), OneMarker(q), q = input_queue(th)
  PROVE  OneMarker(q)'
<1>1. Frame(th) /\ conf' = conf /\ Writers(q)' = Writers(q) /\ Writers(q) \subseteq Threads
  BY RolesStay DEF Leave, Frame, Writers
<1>2. PICK item : Takes(th, item) /\ IsMarker(q, item)  BY DEF Leave
<1>3. 1 \in Markers(q) /\ \A k \in Markers(q)' : k \in Nat /\ k # 0 /\ k + 1 \in Markers(q)
  BY <1>1, <1>2, TakenFrom DEF Typed
<1>4. Markers(q)' = {}  BY <1>3 DEF OneMarker
<1>5. Have(q) = {} /\ \A w \in Writers(q) : pc[w] = "last"  BY <1>3 DEF OneMarker
<1>6. \A w \in Writers(q)' : pc'[w] = "last"  BY <1>1, <1>5 DEF Frame, Leave
<1>7. th \in Readers(q)  BY DEF Readers
<1>8. Pending(q)' \subseteq {th} /\ Kept(q)' \subseteq {th}
  <2>1. Pending(q)' \subseteq {th}
    BY <1>1, <1>5, RolesStay, MarkersStay DEF Pending, Have, Frame
  <2>2. Kept(q)' \subseteq {th}
    BY <1>1, <1>5, RolesStay, MarkersStay DEF Kept, Have, Frame, Readers
  <2> QED  BY <2>1, <2>2
<1>9. \A t \in Holding(q)' : IsReplica(t) /\ t \in Threads /\ FarmInput(t) = q /\ th \in Crew(t)
  <2>1. \A t \in Threads : Finished(t) => Finished(t)'  BY <1>1 DEF Frame, Finished
  <2>2. \A r \in Readers(q) \ {th} : pc'[r] = pc[r]  BY <1>1 DEF Frame, Readers
  <2> QED  BY <1>1, <1>5, <2>1, <2>2, RolesStay, MarkersStay DEF Holding, Have, Crew, IsReplica
<1>10. CASE IsFarmInput(q)
  <2>1. Kept(q)' = {}  BY <1>1, <1>10, MarkersStay DEF Kept
  <2>2. kind(th) # "farm_sink" /\ q # output_queue(th)
    BY <1>7, <1>10 DEF Wired, Connected, FarmQueues, IsFarmInput, Leave
  <2>3. Pending(q)' = {}
    BY <1>1, <1>8, <2>2, RolesStay, MarkersStay DEF Pending, Leave, Emits
  <2>4. \A t, u \in Holding(q)' : t = u
    BY <1>9 DEF Wired, FarmQueues
  <2> QED  BY <1>4, <1>6, <2>1, <2>3, <2>4 DEF OneMarker, Have
<1>11. CASE ~IsFarmInput(q)
  <2>1. Holding(q)' = {}  BY <1>9, <1>11 DEF IsFarmInput
  <2> QED  BY <1>4, <1>6, <1>8, <2>1 DEF OneMarker, Have
<1> QED  BY <1>10, <1>11

\* Whatever edge it is: the marker moves from one queue to what its reader has to push.
LEMMA LeaveKeeps ==
  ASSUME Wired, Typed, NEW th \in Threads, Leave(th),
         NEW q \in Queues, EndedOnce(q), OneMarker(q)
  PROVE  OneMarker(q)'
<1>1. CASE q = input_queue(th)  BY <1>1, TakesMarker
<1>2. CASE q # input_queue(th)
  <2>1. Frame(th) /\ conf' = conf /\ queue'[q] = queue[q] /\ StaysAt(th, q)
    BY <1>2 DEF Leave, Frame, Takes, StaysAt, Readers, Typed
  <2>2. CASE th \in Pending(q)'
    <3>1. th \in Writers(q) /\ ~IsReplica(th) /\ pc'[th] = "last"
      BY <1>2, <2>1, <2>2, RolesStay, MarkersStay DEF Pending, Leave, Emits, Writers
    <3>2. \A w \in Writers(q) \ {th} : pc[w] = "last"
      BY <3>1 DEF Wired, OneWriter
    <3> QED  BY <2>1, <3>1, <3>2, EndsEdge DEF Leave
  <2>3. CASE th \notin Pending(q)'
    <3>1. Have(q)' \subseteq Have(q)  BY <2>1, <2>3, FewerHave DEF Have
    <3>2. Markers(q)' = Markers(q)  BY <2>1, SameQueue
    <3>3. \A k, l \in Markers(q)' : k = l  BY <3>2 DEF OneMarker
    <3> QED  BY <2>1, <3>1, <3>2, <3>3, NothingNew DEF Leave
  <2> QED  BY <2>2, <2>3
<1> QED  BY <1>1, <1>2

-----------------------------------------------------------------------------
(* Pushes. *)

\* The thread hands over the first of its messages.
HandsOver(th) ==
  /\ Frame(th) /\ out[th] # <<>> /\ out'[th] = Tail(out[th]) /\ pc' = pc

\* The empty sequence.
LEMMA EmptySequence ==
  ASSUME NEW S, NEW s \in Seq(S), Len(s) = 0
  PROVE  s = <<>>
OBVIOUS

\* What is left of a sequence of messages.
LEMMA TailOf ==
  ASSUME NEW S, NEW s \in Seq(S), s # <<>>
  PROVE  /\ Head(s) \in S /\ Tail(s) \in Seq(S)
         /\ Len(s) \in Nat \ {0} /\ Len(Tail(s)) = Len(s) - 1
         /\ 1 \in DOMAIN s /\ s[1] = Head(s)
         /\ \A k \in DOMAIN Tail(s) : /\ k \in Nat \ {0} /\ k <= Len(s) - 1
                                      /\ k + 1 \in DOMAIN s /\ Tail(s)[k] = s[k + 1]
         /\ \A k \in DOMAIN s : k # 1 => k - 1 \in DOMAIN Tail(s) /\ Tail(s)[k - 1] = s[k]
         /\ Len(s) = 1 => Tail(s) = <<>>
<1>1. /\ Head(s) \in S /\ Tail(s) \in Seq(S)
      /\ Len(s) \in Nat \ {0} /\ Len(Tail(s)) = Len(s) - 1
  OBVIOUS
<1>2. /\ DOMAIN s = 1 .. Len(s) /\ s[1] = Head(s)
      /\ DOMAIN Tail(s) = 1 .. Len(s) - 1
      /\ \A k \in 1 .. Len(s) - 1 : Tail(s)[k] = s[k + 1]
  OBVIOUS
<1>3. ASSUME Len(s) = 1 PROVE Tail(s) = <<>>
  <2>1. Tail(s) \in Seq(S) /\ Len(Tail(s)) = 0  BY <1>1, <1>3
  <2> HIDE <1>3
  <2> QED  BY <2>1, EmptySequence
<1>4. \A k \in DOMAIN Tail(s) : /\ k \in Nat \ {0} /\ k <= Len(s) - 1
                                /\ k + 1 \in DOMAIN s /\ Tail(s)[k] = s[k + 1]
  BY <1>1, <1>2
<1>5. \A k \in DOMAIN s : k # 1 => k - 1 \in DOMAIN Tail(s) /\ Tail(s)[k - 1] = s[k]
  BY <1>1, <1>2
<1> QED  BY <1>1, <1>2, <1>3, <1>4, <1>5

Messages == [to : {User} \cup Queues, item : Items]

\* Handing over a message makes no holder of an end marker.
LEMMA FewerPending ==
  ASSUME Typed, NEW th \in Threads, HandsOver(th), NEW q
  PROVE  /\ Have(q)' \subseteq Have(q)
         /\ th \in Pending(q)' => th \in Pending(q)
<1>1. Frame(th) /\ conf' = conf /\ StaysAt(th, q)  BY DEF HandsOver, Frame, StaysAt
<1>2. out[th] \in Seq(Messages) /\ out[th] # <<>>  BY DEF Typed, HandsOver, Messages
<1>3. \A k \in DOMAIN out'[th] : k + 1 \in DOMAIN out[th] /\ out'[th][k] = out[th][k + 1]
  BY <1>2, TailOf DEF HandsOver
<1>4. th \in Pending(q)' => th \in Pending(q)
  BY <1>1, <1>3, MarkersStay DEF Pending
<1> QED  BY <1>1, <1>4, FewerHave DEF Have

\* A call of the user's operation, or a push to another queue.
LEMMA ConsumeKeeps ==
  ASSUME Typed, NEW th \in Threads, HandsOver(th), NEW q \in Queues,
         queue'[q] = queue[q], OneMarker(q)
  PROVE  OneMarker(q)'
<1>1. Frame(th) /\ conf' = conf  BY DEF HandsOver, Frame
<1>2. Markers(q)' = Markers(q)  BY <1>1, SameQueue
<1>3. \A k, l \in Markers(q)' : k = l  BY <1>2 DEF OneMarker
<1> QED  BY <1>1, <1>2, <1>3, FewerPending, NothingNew DEF HandsOver

\* The holder of the end marker of an edge pushes it.
LEMMA PushesMarker ==
  ASSUME Wired, Typed, Outgoing, NEW th \in Threads, HandsOver(th),
         NEW q \in Queues, EndedOnce(q), OneMarker(q),
         NEW item \in Items, queue'[q] = Append(queue[q], item),
         Head(out[th]).to = q, Head(out[th]).item = item, IsMarker(q, item)
  PROVE  OneMarker(q)'
<1>1. Frame(th) /\ conf' = conf /\ Writers(q)' = Writers(q) /\ Writers(q) \subseteq Threads
  BY RolesStay DEF HandsOver, Frame, Writers
<1>2. out[th] \in Seq(Messages) /\ out[th] # <<>>  BY DEF Typed, HandsOver, Messages
<1>3. 1 \in DOMAIN out[th] /\ out[th][1].to = q /\ out[th][1].item = item /\ IsEndMsg(out[th][1])
  BY <1>2, TailOf DEF IsEndMsg, Wired, Connected
<1>4. Len(out[th]) = 1 /\ pc[th] = "last"  BY <1>3 DEF Outgoing, OutgoingOf
<1>5. out'[th] = <<>> /\ pc'[th] = "last"  BY <1>2, <1>4, TailOf DEF HandsOver
<1>6. th \in Pending(q)  BY <1>3 DEF Pending
<1>7. Have(q) = {th} /\ Markers(q) = {} /\ \A w \in Writers(q) : pc[w] = "last"
  BY <1>6 DEF OneMarker, Have
<1>8. Markers(q)' = {Len(queue[q]) + 1}
  BY <1>1, <1>7, AddedTo DEF Typed
<1>9. Have(q)' \subseteq {th}  BY <1>7, FewerPending
<1>10. th \notin Pending(q)' /\ th \notin Holding(q)'
  BY <1>1, <1>5, RolesStay DEF Pending, Holding, Finished
<1>11. th \notin Kept(q)'
  <2>1. \/ q = output_queue(th)
        \/ kind(th) = "farm_sink" /\ q = input_queue(th)
        \/ IsReplica(th) /\ q = FarmInput(th)
    BY <1>3 DEF Outgoing, OutgoingOf, IsEndMsg, IsMarker
  <2>2. SUFFICES ASSUME th \in Readers(q), ~IsFarmInput(q), kind(th) # "farm_sink" PROVE FALSE
    BY <1>1, RolesStay, MarkersStay DEF Kept
  <2>3. q = output_queue(th)  BY <2>1, <2>2 DEF IsFarmInput
  <2> QED  BY <2>2, <2>3 DEF Readers, Wired, Connected
<1>12. Have(q)' = {}  BY <1>9, <1>10, <1>11 DEF Have
<1>13. \A w \in Writers(q)' : pc'[w] = "last"  BY <1>1, <1>7 DEF HandsOver
<1> QED  BY <1>8, <1>12, <1>13 DEF OneMarker

\* A push leaves every edge with one end marker.
LEMMA PushKeeps ==
  ASSUME Wired, Typed, Outgoing, NEW th \in Threads, Push(th), Frame(th),
         NEW q \in Queues, EndedOnce(q), OneMarker(q)
  PROVE  OneMarker(q)'
<1> DEFINE m == Head(out[th])
<1>1. HandsOver(th) /\ conf' = conf  BY DEF Push, HandsOver, Frame, Typed
<1>2. m \in Messages
  BY TailOf DEF Push, Typed, Messages
<1>3. m.item \in Items  BY <1>2 DEF Messages
<1>4. CASE m.to # q
  <2>1. queue'[q] = queue[q]  BY <1>4 DEF Push, Typed
  <2> QED  BY <1>1, <2>1, ConsumeKeeps
<1>5. CASE m.to = q
  <2>1. queue'[q] = Append(queue[q], m.item)  BY <1>5 DEF Push, Typed
  <2>2. CASE IsMarker(q, m.item)
    BY <1>1, <1>3, <1>5, <2>1, <2>2, PushesMarker
  <2>3. CASE ~IsMarker(q, m.item)
    <3>1. Markers(q)' = Markers(q)  BY <1>1, <1>3, <2>1, <2>3, AddedTo DEF Typed
    <3>2. \A k, l \in Markers(q)' : k = l  BY <3>1 DEF OneMarker
    <3> QED  BY <1>1, <3>1, <3>2, FewerPending, NothingNew DEF HandsOver
  <2> QED  BY <2>2, <2>3
<1> QED  BY <1>4, <1>5

-----------------------------------------------------------------------------
(* Farms. *)

\* A replica that has counted itself out, and has still to push, holds the end
\* marker of the queue of its farm.
LEMMA ReplicaHolds ==
  ASSUME Wired, InPlace, NEW th \in Threads, IsReplica(th), pc[th] \in {"test", "last"},
         ~Finished(th)
  PROVE  th \in Holding(FarmInput(th))
<1>1. PICK r \in Crew(th) : input_queue(r) = FarmInput(th)
  BY DEF Wired, FarmQueues
<1>2. pc[r] # "loop" /\ r \in Threads
  BY <1>1 DEF Crew, InPlace, PlaceOf, Finished, IsReplica, IsHost, Wired, Connected
<1> QED  BY <1>1, <1>2 DEF Holding, Readers, Crew, IsReplica

\* When the counter says that all replicas have left, the others have put the end
\* marker back already.
LEMMA LastReplica ==
  ASSUME Wired, InPlace, Counted, NEW th \in Threads, IsReplica(th), pc[th] = "test",
         done_threads[FarmOf(th)] = stage(th).n, OneMarker(FarmInput(th)),
         NEW t \in Replicas(FarmOf(th)), t # th
  PROVE  pc[t] = "last"
<1> DEFINE R == Replicas(FarmOf(th))
           L == {u \in R : pc[u] \in {"test", "last"}}
<1>1. IsFiniteSet(R) /\ Cardinality(R) = Cardinality(L)
  BY DEF Wired, FarmQueues, Counted
<1>2. L \subseteq R  OBVIOUS
<1>3. L = R
  <2> HIDE DEF L, R
  <2> QED  BY <1>1, <1>2, FS_Subset
<1>4. t \in Threads /\ IsReplica(t) /\ FarmInput(t) = FarmInput(th) /\ pc[t] \in {"test", "last"}
  BY <1>3 DEF Replicas, Wired, FarmQueues
<1>5. th \in Holding(FarmInput(th))  BY ReplicaHolds DEF Finished
<1>6. pc[t] = "test" => t \in Holding(FarmInput(th))  BY <1>4, ReplicaHolds DEF Finished
<1> QED  BY <1>4, <1>5, <1>6 DEF OneMarker, Have

\* The end of a replica: the last ends the output, each other puts the end marker
\* back into the queue of the farm; no edge gets two.
LEMMA FarmEndKeeps ==
  ASSUME Wired, Typed, InPlace, Counted, NEW th \in Threads, FarmEnd(th), Frame(th),
         NEW q \in Queues, EndedOnce(q),
         \A p \in Queues : EndedOnce(p) => OneMarker(p)
  PROVE  OneMarker(q)'
<1>1. conf' = conf /\ queue' = queue /\ pc[th] = "test" /\ IsReplica(th) /\ pc'[th] = "last"
  BY DEF FarmEnd, Frame, InPlace, PlaceOf, EndOutput, PutBack, Then, Typed
<1>2. StaysAt(th, q) /\ Markers(q)' = Markers(q)
  BY <1>1, SameQueue DEF StaysAt
<1>3. \A k, l \in Markers(q)' : k = l  BY <1>2 DEF OneMarker
<1>4. CASE th \notin Pending(q)'
  <2>1. Have(q)' \subseteq Have(q)  BY <1>2, <1>4, FewerHave DEF Have
  <2> QED  BY <1>1, <1>2, <1>3, <2>1, NothingNew
<1>5. CASE done_threads[FarmOf(th)] = stage(th).n /\ EndOutput(th) /\ th \in Pending(q)'
  <2>1. q = output_queue(th)
    BY <1>1, <1>5, RolesStay DEF Pending, EndOutput, Then, Msg, Typed
  <2>2. FarmInput(th) \in Queues /\ EndedOnce(FarmInput(th))
    BY <1>1, <2>1 DEF Wired, FarmQueues
  <2>3. \A t \in Replicas(FarmOf(th)) \ {th} : pc[t] = "last"
    BY <1>1, <1>5, <2>2, LastReplica
  <2>4. \A w \in Writers(q) \ {th} : pc[w] = "last"
    <3>1. th \in Writers(q)  BY <2>1 DEF Writers
    <3> QED  BY <1>1, <2>3, <3>1 DEF Wired, OneWriter, Writers, Replicas
  <2>5. th \in Writers(q)  BY <2>1 DEF Writers
  <2> QED  BY <1>1, <1>2, <2>4, <2>5, EndsEdge
<1>6. CASE PutBack(th) /\ th \in Pending(q)'
  <2>1. q = FarmInput(th)
    BY <1>1, <1>6, RolesStay DEF Pending, PutBack, Then, Msg, Typed
  <2>2. th \in Have(q)  BY <1>1, <2>1, ReplicaHolds DEF Have, Finished
  <2>3. Have(q)' \subseteq Have(q)  BY <1>2, <2>2, FewerHave DEF Have
  <2> QED  BY <1>1, <1>2, <1>3, <2>3, NothingNew
<1> QED  BY <1>4, <1>5, <1>6 DEF FarmEnd

-----------------------------------------------------------------------------
(* What a queue holds besides. *)

\* A pop: the values are still before the end marker, and none is new.
LEMMA TakeKeepsQueue ==
  ASSUME Typed, conf' = conf, NEW th, NEW item, Takes(th, item), input_queue(th) \in Queues,
         NEW q \in Queues
  PROVE  /\ ValuesBefore(q) => ValuesBefore(q)'
         /\ queue' \in [Queues -> Seq(Items)]
         /\ item \in Items
         /\ \A k \in DOMAIN queue'[q] : \E j \in DOMAIN queue[q] : queue'[q][k] = queue[q][j]
         /\ \E j \in DOMAIN queue[input_queue(th)] : item = queue[input_queue(th)][j]
<1>1. queue \in [Queues -> Seq(Items)] /\ queue[input_queue(th)] # <<>>
  BY DEF Typed, Takes
<1>2. /\ queue' \in [Queues -> Seq(Items)] /\ item \in Items
      /\ \E j \in DOMAIN queue[input_queue(th)] : item = queue[input_queue(th)][j]
  BY <1>1, TailOf DEF Takes
<1>3. CASE q # input_queue(th)
  <2>1. queue'[q] = queue[q]  BY <1>1, <1>3 DEF Takes
  <2> QED  BY <1>2, <2>1, RolesStay, SameQueue DEF ValuesBefore
<1>4. CASE q = input_queue(th)
  <2>1. /\ \A k \in Markers(q)' : k \in Nat /\ k # 0 /\ k + 1 \in Markers(q)
        /\ \A k \in DOMAIN queue'[q] :
              k \in Nat /\ k + 1 \in DOMAIN queue[q] /\ queue'[q][k] = queue[q][k + 1]
    BY <1>1, <1>4, TakenFrom
  <2>2. ValuesBefore(q) => ValuesBefore(q)'
    BY <2>1, RolesStay DEF ValuesBefore
  <2> QED  BY <1>2, <2>1, <2>2
<1> QED  BY <1>3, <1>4

\* A push: no value comes behind the end marker of an edge.
LEMMA PushKeepsValues ==
  ASSUME Wired, Typed, Outgoing, NEW th \in Threads, Push(th), Frame(th),
         NEW q \in Queues, EndedOnce(q), OneMarker(q), ValuesBefore(q)
  PROVE  ValuesBefore(q)'
<1> DEFINE m == Head(out[th])
<1>1. conf' = conf  BY DEF Frame
<1>2. out[th] \in Seq(Messages) /\ out[th] # <<>>  BY DEF Push, Typed, Messages
<1>3. m \in Messages /\ 1 \in DOMAIN out[th] /\ out[th][1] = m  BY <1>2, TailOf
<1>4. m.item \in Items /\ m.to # User  BY <1>3 DEF Messages, Push
<1>5. CASE m.to # q
  <2>1. queue'[q] = queue[q]  BY <1>5 DEF Push, Typed
  <2> QED  BY <1>1, <2>1, RolesStay, SameQueue DEF ValuesBefore
<1>6. CASE m.to = q
  <2>1. queue'[q] = Append(queue[q], m.item)  BY <1>6 DEF Push, Typed
  <2>2. ASSUME \A r \in Readers(q) : kind(r) # "iterate", ~Empty(m.item) PROVE Markers(q) = {}
    <3>1. SUFFICES ASSUME Markers(q) # {} PROVE FALSE  OBVIOUS
    <3>2. th \in Writers(q)
      BY <1>3, <1>4, <1>6, <2>2 DEF Outgoing, OutgoingOf, Writers, Readers
    <3>3. pc[th] = "last" /\ Pending(q) = {}  BY <3>1, <3>2 DEF OneMarker, Have
    <3>4. \E l \in DOMAIN out[th] : out[th][l].to = q /\ IsEndMsg(out[th][l])
      BY <1>3, <1>4, <1>6, <2>2, <3>3 DEF Outgoing, OutgoingOf
    <3> QED  BY <3>3, <3>4 DEF Pending
  <2>3. /\ Markers(q)' = Markers(q) \cup
                           (IF IsMarker(q, m.item) THEN {Len(queue[q]) + 1} ELSE {})
        /\ \A k \in DOMAIN queue'[q] : \/ k \in DOMAIN queue[q] /\ queue'[q][k] = queue[q][k]
                                       \/ k = Len(queue[q]) + 1 /\ queue'[q][k] = m.item
        /\ \A k \in DOMAIN queue[q] : k < Len(queue[q]) + 1
    BY <1>1, <1>4, <2>1, AddedTo DEF Typed
  <2>4. IsMarker(q, m.item) => Empty(m.item)  BY DEF IsMarker
  <2> HIDE DEF m
  <2>5. Readers(q)' = Readers(q) /\ \A r : kind(r)' = kind(r)  BY <1>1, RolesStay
  <2>6. SUFFICES ASSUME \A r \in Readers(q) : kind(r) # "iterate",
                        NEW x \in Markers(q)', NEW k \in DOMAIN queue'[q], ~Empty(queue'[q][k])
                 PROVE  k < x
    BY <2>5 DEF ValuesBefore, Empty
  <2>7. CASE k \in DOMAIN queue[q] /\ queue'[q][k] = queue[q][k]
    BY <2>3, <2>6, <2>7 DEF ValuesBefore
  <2>8. CASE k = Len(queue[q]) + 1 /\ queue'[q][k] = m.item
    BY <2>2, <2>3, <2>4, <2>6, <2>8
  <2> QED  BY <2>3, <2>7, <2>8
<1> QED  BY <1>5, <1>6

-----------------------------------------------------------------------------
(* What a step gives a thread to push. *)

\* Nothing.
LEMMA NoMessage ==
  ASSUME NEW th, out'[th] = <<>>
  PROVE  OutgoingOf(th)' /\ \A m : ~Emits(th, m)
BY DEF OutgoingOf, Emits

\* One message, which is a value, or is for the user.
LEMMA OneValue ==
  ASSUME conf' = conf, NEW th, NEW to, NEW item, out'[th] = <<Msg(to, item)>>,
         pc'[th] # "last" \/ to = User,
         \/ to = User
         \/ /\ ~Empty(item) /\ item.order >= 0
            /\ to = output_queue(th) \/ (kind(th) = "iterate" /\ to = input_queue(th))
  PROVE  OutgoingOf(th)' /\ \A m : ~Emits(th, m)
<1>1. /\ DOMAIN out'[th] = {1} /\ out'[th][1].to = to /\ out'[th][1].item = item
  BY DEF Msg
<1>2. ~IsEndMsg(Msg(to, item))  BY DEF IsEndMsg, IsMarker, Msg
<1> QED  BY <1>1, <1>2, RolesStay, MarkersStay DEF OutgoingOf, Emits, Empty

\* One empty item, which ends the output, or is a rejected value.
LEMMA OneEnd ==
  ASSUME conf' = conf, NEW th, NEW to, NEW item, out'[th] = <<Msg(to, item)>>,
         Empty(item), to # User,
         pc'[th] = "last" \/ ~IsMarker(to, item) \/ ~EndedOnce(to),
         \/ to = output_queue(th)
         \/ kind(th) = "farm_sink" /\ to = input_queue(th)
         \/ IsReplica(th) /\ to = FarmInput(th)
  PROVE  /\ OutgoingOf(th)'
         /\ \A m : Emits(th, m) => /\ m.to = to /\ IsMarker(to, item)
                                   /\ EndedOnce(to) /\ pc'[th] = "last"
<1>1. /\ DOMAIN out'[th] = {1} /\ out'[th][1].to = to /\ out'[th][1].item = item
      /\ Len(out'[th]) = 1
  BY DEF Msg
<1> QED  BY <1>1, RolesStay, MarkersStay DEF OutgoingOf, Emits, Empty, IsEndMsg

\* The item a pop returns.
LEMMA PopsTakes ==
  ASSUME Typed, Orders, NEW th \in Threads, NEW item, Pops(th, item), input_queue(th) \in Queues,
         conf' = conf
  PROVE  /\ Takes(th, item) /\ item \in Items
         /\ ~Empty(item) => item.order >= 0
         /\ queue' \in [Queues -> Seq(Items)]
         /\ out[th] = <<>> /\ pc[th] = "loop"
<1>1. Takes(th, item)  BY DEF Pops, Takes
<1>2. /\ queue' \in [Queues -> Seq(Items)] /\ item \in Items
      /\ \E j \in DOMAIN queue[input_queue(th)] : item = queue[input_queue(th)][j]
  BY <1>1, TakeKeepsQueue
<1> QED  BY <1>1, <1>2 DEF Orders, Pops

\* The step moves thread th only.
LEMMA ThenFrame ==
  ASSUME Typed, NEW th \in Threads, NEW l \in Labels, NEW msgs \in Seq(Messages), Then(th, l, msgs),
         conf' = conf, done_threads' = done_threads, out[th] # <<>> \/ pc[th] # "last",
         queue' \in [Queues -> Seq(Items)]
  PROVE  /\ Frame(th) /\ out'[th] = msgs /\ pc'[th] = l
         /\ pc' \in [Threads -> Labels]
         /\ out' \in [Threads -> Seq(Messages)]
<1>1. out \in [Threads -> Seq(Messages)] /\ pc \in [Threads -> Labels]
  BY DEF Typed, Messages
<1> QED  BY <1>1 DEF Then, Frame, Finished, Queues

-----------------------------------------------------------------------------
(* The actions, one by one. *)

HeldTypes == [elements : Seq(Items), current : Int, order : Nat]
ReducerTypes == [items : Seq(Values), remaining : Int]

\* What an action of thread th, other than a push, has to do.
Settled(th) ==
  /\ Frame(th) /\ Typed' /\ OutgoingOf(th)' /\ PlaceOf(th)'
  /\ Work(th) \/ Leave(th) \/ Finish(th) \/ FarmEnd(th)
  /\ \/ FarmCount(th)
     \/ /\ done_threads' = done_threads
        /\ IsReplica(th) => (pc'[th] \in {"test", "last"} <=> pc[th] \in {"test", "last"})

\* What each such action starts from, and ends with, if it takes an item.
PoppedWith(th, item, l, msgs) ==
  /\ Frame(th) /\ Takes(th, item) /\ Typed'
  /\ item \in Items /\ (~Empty(item) => item.order >= 0)
  /\ out[th] = <<>> /\ pc[th] = "loop" /\ out'[th] = msgs /\ pc'[th] = l
  /\ input_queue(th) \in Queues
  /\ done_threads' = done_threads

\* A step that pops an item is one.
LEMMA PopStep ==
  ASSUME Typed, Orders, Wired, NEW th \in Threads, NEW item, NEW l \in Labels, NEW msgs \in Seq(Messages),
         Pops(th, item), Then(th, l, msgs), kind(th) # "generate", ~OnlyWaits(th),
         conf' = conf, done_threads' = done_threads, produced' = produced,
         held' \in [Threads -> HeldTypes], reducer' \in [Threads -> ReducerTypes]
  PROVE  PoppedWith(th, item, l, msgs)
<1>1. input_queue(th) \in Queues  BY DEF Wired, Connected
<1>2. /\ Takes(th, item) /\ item \in Items
      /\ ~Empty(item) => item.order >= 0
      /\ queue' \in [Queues -> Seq(Items)]
      /\ out[th] = <<>> /\ pc[th] = "loop"
  BY <1>1, PopsTakes
<1>3. /\ Frame(th) /\ out'[th] = msgs /\ pc'[th] = l
      /\ pc' \in [Threads -> Labels]
      /\ out' \in [Threads -> Seq(Messages)]
  BY <1>2, ThenFrame
<1>4. Typed'
  <2>1. Threads' = Threads /\ Queues' = Queues  BY <1>3, RolesStay DEF Frame, Queues
  <2> QED  BY <1>2, <1>3, <2>1 DEF Typed, Messages, HeldTypes, ReducerTypes
<1> QED  BY <1>1, <1>2, <1>3, <1>4 DEF PoppedWith

\* A message is one.
LEMMA MessageTypes ==
  ASSUME Wired, NEW th \in Threads, NEW item \in Items
  PROVE  /\ Msg(User, item) \in Messages /\ Msg(output_queue(th), item) \in Messages
         /\ input_queue(th) # User => Msg(input_queue(th), item) \in Messages
         /\ IsReplica(th) => Msg(FarmInput(th), item) \in Messages
BY DEF Msg, Messages, Wired, Connected, FarmQueues

\* The end marker a thread pushes.
LEMMA EndType == End \in Items /\ Empty(End) /\ End.order = -1
BY DEF End, Items, Item, NoValue, Empty

\* The next place of a thread that does not become done with a pattern it hosts.
LEMMA NextPlace ==
  ASSUME conf' = conf, NEW th, ~OnlyWaits(th),
         \/ pc'[th] = "loop"
         \/ pc'[th] = "join" /\ IsHost(th)
         \/ pc'[th] = "last" /\ ~IsHost(th)
         \/ pc'[th] \in {"drain", "drain_pop"} /\ kind(th) \in {"consume", "reorder"}
         \/ pc'[th] = "again" /\ kind(th) = "iterate"
         \/ pc'[th] = "again_pop" /\ kind(th) = "iterate" /\ out'[th] = <<>>
  PROVE  PlaceOf(th)'
BY RolesStay DEF PlaceOf, OnlyWaits, IsReplica, IsHost

\* An item that is not a marker is taken, or a marker.
LEMMA PoppedWork ==
  ASSUME NEW th \in Threads, NEW item, NEW l, NEW msgs, PoppedWith(th, item, l, msgs),
         ~IsMarker(input_queue(th), item), l = "loop", \A m : ~Emits(th, m)
  PROVE  Work(th)
BY DEF Work, PoppedWith

\* With an end marker the loop is left.
LEMMA PoppedLeave ==
  ASSUME NEW th \in Threads, NEW item, NEW l, NEW msgs, PoppedWith(th, item, l, msgs),
         IsMarker(input_queue(th), item), l # "loop", kind(th) = "iterate" => l # "last",
         \A m : Emits(th, m) =>
           /\ l = "last" /\ ~IsReplica(th)
           /\ m.to = output_queue(th) \/ (kind(th) = "farm_sink" /\ m.to = input_queue(th))
  PROVE  Leave(th)
BY DEF Leave, PoppedWith

\* The marker is what a thread other than an ordering thread takes for the end.
LEMMA EmptyIsMarker ==
  ASSUME Wired, NEW th \in Threads, input_queue(th) \in Queues, kind(th) # "reorder", NEW item
  PROVE  IsMarker(input_queue(th), item) <=> Empty(item)
BY DEF Wired, FilterQueues, IsMarker, Readers

\* What a step that takes an item may do to the loop's own variables.
OwnTypes ==
  /\ conf' = conf /\ done_threads' = done_threads /\ produced' = produced
  /\ held' \in [Threads -> HeldTypes] /\ reducer' \in [Threads -> ReducerTypes]

\* An item that does not end the loop is taken, and at most one value comes of it.
LEMMA TakesValue ==
  ASSUME Typed, Orders, Wired, NEW th \in Threads, NEW item, NEW to, NEW new \in Items,
         Pops(th, item), kind(th) # "generate", ~OnlyWaits(th), OwnTypes,
         ~IsMarker(input_queue(th), item),
         Msg(to, new) \in Messages,
         \/ Then(th, "loop", <<>>)
         \/ /\ Then(th, "loop", <<Msg(to, new)>>)
            /\ \/ to = User
               \/ /\ ~Empty(new) /\ new.order >= 0
                  /\ to = output_queue(th) \/ (kind(th) = "iterate" /\ to = input_queue(th))
               \/ /\ Empty(new) /\ to = output_queue(th) /\ to # User
                  /\ ~IsMarker(to, new) \/ ~EndedOnce(to)
  PROVE  Settled(th)
<1>1. PICK msgs \in {<<>>, <<Msg(to, new)>>} : Then(th, "loop", msgs)  OBVIOUS
<1>2. msgs \in Seq(Messages) /\ "loop" \in Labels
  <2>1. <<>> \in Seq(Messages) /\ <<Msg(to, new)>> \in Seq(Messages)  OBVIOUS
  <2> QED  BY <1>1, <2>1 DEF Labels
<1>3. PoppedWith(th, item, "loop", msgs)  BY <1>1, <1>2, PopStep DEF OwnTypes
<1>4. OutgoingOf(th)' /\ \A m : ~Emits(th, m)
  <2>1. CASE out'[th] = <<>>  BY <2>1, NoMessage
  <2>2. CASE out'[th] # <<>>
    <3>1. /\ out'[th] = <<Msg(to, new)>> /\ pc'[th] # "last" /\ conf' = conf
          /\ \/ to = User
             \/ /\ ~Empty(new) /\ new.order >= 0
                /\ to = output_queue(th) \/ (kind(th) = "iterate" /\ to = input_queue(th))
             \/ /\ Empty(new) /\ to = output_queue(th) /\ to # User
                /\ ~IsMarker(to, new) \/ ~EndedOnce(to)
      BY <1>3, <2>2 DEF PoppedWith, Then, OwnTypes, Typed
    <3>2. CASE to = User \/ ~Empty(new)  BY <3>1, <3>2, OneValue
    <3>3. CASE to # User /\ Empty(new)
      <4>1. /\ OutgoingOf(th)'
            /\ \A m : Emits(th, m) => IsMarker(to, new) /\ EndedOnce(to)
        BY <3>1, <3>3, OneEnd
      <4> QED  BY <3>1, <3>3, <4>1
    <3> QED  BY <3>2, <3>3
  <2> QED  BY <2>1, <2>2
<1>5. PlaceOf(th)'  BY <1>3, NextPlace DEF PoppedWith, OwnTypes
<1>6. Work(th)  BY <1>3, <1>4, PoppedWork
<1> QED  BY <1>3, <1>4, <1>5, <1>6 DEF Settled, PoppedWith

\* A plain stage or a filter takes the end marker and ends its output.
LEMMA TakesEnd ==
  ASSUME Typed, Orders, Wired, NEW th \in Threads, NEW item,
         Pops(th, item), kind(th) \notin {"generate", "iterate"}, ~IsHost(th), OwnTypes,
         IsMarker(input_queue(th), item), output_queue(th) # User,
         Then(th, "last", <<Msg(output_queue(th), End)>>)
  PROVE  Settled(th)
<1> DEFINE msgs == <<Msg(output_queue(th), End)>>
<1>1. ~OnlyWaits(th) /\ ~IsReplica(th)  BY DEF OnlyWaits, IsReplica, IsHost
<1>2. msgs \in Seq(Messages) /\ "last" \in Labels  BY EndType, MessageTypes DEF Labels
<1> HIDE DEF msgs
<1>3. PoppedWith(th, item, "last", msgs)  BY <1>1, <1>2, PopStep DEF OwnTypes, msgs
<1>4. OutgoingOf(th)' /\ \A m : Emits(th, m) => m.to = output_queue(th)
  BY <1>3, EndType, OneEnd DEF PoppedWith, OwnTypes, msgs
<1>5. PlaceOf(th)'  BY <1>1, <1>3, NextPlace DEF PoppedWith, OwnTypes
<1>6. kind(th) # "iterate"  OBVIOUS
<1>7. Leave(th)  BY <1>1, <1>3, <1>4, <1>6, PoppedLeave
<1> QED  BY <1>1, <1>3, <1>4, <1>5, <1>7 DEF Settled, PoppedWith

\* The end marker is taken for later.
LEMMA TakesSilently ==
  ASSUME Typed, Orders, Wired, NEW th \in Threads, NEW item, NEW l,
         Pops(th, item), kind(th) # "generate", ~OnlyWaits(th), OwnTypes,
         IsMarker(input_queue(th), item), Then(th, l, <<>>),
         \/ l = "join" /\ IsHost(th)
         \/ l = "last" /\ ~IsHost(th) /\ kind(th) # "iterate"
         \/ l = "drain" /\ kind(th) \in {"consume", "reorder"}
         \/ l = "again" /\ kind(th) = "iterate"
  PROVE  Settled(th)
<1>1. l \in Labels /\ l # "loop" /\ <<>> \in Seq(Messages)  BY DEF Labels
<1>2. PoppedWith(th, item, l, <<>>)  BY <1>1, PopStep DEF OwnTypes
<1>3. OutgoingOf(th)' /\ \A m : ~Emits(th, m)  BY <1>2, NoMessage DEF PoppedWith
<1>4. PlaceOf(th)'  BY <1>2, NextPlace DEF PoppedWith, OwnTypes
<1>5. Leave(th)  BY <1>1, <1>2, <1>3, PoppedLeave
<1> QED  BY <1>2, <1>3, <1>4, <1>5 DEF Settled, PoppedWith, IsHost, IsReplica

\* A plain stage.
LEMMA StageSettles ==
  ASSUME Typed, Orders, Wired, NEW th \in Threads, Stage(th)
  PROVE  Settled(th)
<1>1. PICK item : /\ Pops(th, item)
                  /\ \/ ~Empty(item) /\ Then(th, "loop", <<Msg(output_queue(th), item)>>)
                     \/ Empty(item) /\ Then(th, "last", <<Msg(output_queue(th), End)>>)
  BY DEF Stage
<1>2. kind(th) = "stage" /\ ~IsHost(th) /\ ~OnlyWaits(th)  BY DEF Stage, IsHost, OnlyWaits
<1>3. input_queue(th) \in Queues /\ output_queue(th) # User  BY <1>2 DEF Wired, Connected
<1>4. OwnTypes  BY DEF Stage, Typed, HeldTypes, ReducerTypes, OwnTypes
<1>5. item \in Items /\ (~Empty(item) => item.order >= 0)
  BY <1>1, <1>3, <1>4, PopsTakes DEF OwnTypes
<1>6. IsMarker(input_queue(th), item) <=> Empty(item)  BY <1>2, <1>3, EmptyIsMarker
<1>7. Msg(output_queue(th), item) \in Messages  BY <1>5, MessageTypes
<1>8. CASE Empty(item)  BY <1>1, <1>2, <1>3, <1>4, <1>6, <1>8, TakesEnd
<1>9. CASE ~Empty(item)  BY <1>1, <1>2, <1>4, <1>5, <1>6, <1>7, <1>9, TakesValue
<1> QED  BY <1>8, <1>9

\* A filter: the empty item it hands on for a rejected value is no end marker when an
\* ordering thread reads it, and else its output is not an edge with one marker.
LEMMA FilterSettles ==
  ASSUME Typed, Orders, Wired, NEW th \in Threads, Filter(th)
  PROVE  Settled(th)
<1> DEFINE rejected(item) == Item(NoValue, item.order)
<1>1. PICK item : /\ Pops(th, item)
                  /\ \/ ~Empty(item) /\ Then(th, "loop", <<Msg(output_queue(th), item)>>)
                     \/ ~Empty(item) /\ Then(th, "loop", <<Msg(output_queue(th), rejected(item))>>)
                     \/ Empty(item) /\ Then(th, "last", <<Msg(output_queue(th), End)>>)
  BY DEF Filter
<1>2. kind(th) = "filter" /\ ~IsHost(th) /\ ~OnlyWaits(th)  BY DEF Filter, IsHost, OnlyWaits
<1>3. input_queue(th) \in Queues /\ output_queue(th) \in Queues /\ output_queue(th) # User
  BY <1>2 DEF Wired, Connected
<1>4. OwnTypes  BY DEF Filter, Typed, HeldTypes, ReducerTypes, OwnTypes
<1>5. item \in Items /\ (~Empty(item) => item.order >= 0)
  BY <1>1, <1>3, <1>4, PopsTakes DEF OwnTypes
<1>6. IsMarker(input_queue(th), item) <=> Empty(item)  BY <1>2, <1>3, EmptyIsMarker
<1>7. rejected(item) \in Items /\ Empty(rejected(item)) /\ rejected(item).order = item.order
  BY <1>5 DEF Items, Item, NoValue, Empty
<1>8. Msg(output_queue(th), item) \in Messages /\ Msg(output_queue(th), rejected(item)) \in Messages
  BY <1>5, <1>7, MessageTypes
<1> HIDE DEF rejected
<1>9. CASE Empty(item)  BY <1>1, <1>2, <1>3, <1>4, <1>6, <1>9, TakesEnd
<1>10. CASE ~Empty(item) /\ Then(th, "loop", <<Msg(output_queue(th), item)>>)
  BY <1>1, <1>2, <1>4, <1>5, <1>6, <1>8, <1>10, TakesValue
<1>11. CASE ~Empty(item) /\ Then(th, "loop", <<Msg(output_queue(th), rejected(item))>>)
  <2>1. CASE conf.ordered
    <3>1. \E r \in Readers(output_queue(th)) : kind(r) = "reorder"
      BY <1>2, <2>1 DEF Wired, FilterQueues
    <3>2. rejected(item).order # -1  BY <1>5, <1>7, <1>11 DEF Items
    <3>3. ~IsMarker(output_queue(th), rejected(item))  BY <3>1, <3>2 DEF IsMarker
    <3> QED  BY <1>1, <1>2, <1>3, <1>4, <1>6, <1>7, <1>8, <1>11, <3>3, TakesValue
  <2>2. CASE ~conf.ordered
    <3>1. ~EndedOnce(output_queue(th))
      BY <1>2, <1>3, <2>2 DEF EndedOnce, MayEndTwice, Wired, Connected
    <3> QED  BY <1>1, <1>2, <1>3, <1>4, <1>6, <1>7, <1>8, <1>11, <3>1, TakesValue
  <2> QED  BY <2>1, <2>2
<1> QED  BY <1>1, <1>9, <1>10, <1>11

\* The unordered consumer.
LEMMA ConsumeUnorderedSettles ==
  ASSUME Typed, Orders, Wired, NEW th \in Threads, ConsumeUnordered(th)
  PROVE  Settled(th)
<1>1. PICK item : /\ Pops(th, item)
                  /\ \/ ~Empty(item) /\ Then(th, "loop", <<Msg(User, item)>>)
                     \/ Empty(item) /\ Then(th, "last", <<>>)
  BY DEF ConsumeUnordered
<1>2. kind(th) = "consume" /\ ~IsHost(th) /\ ~OnlyWaits(th)
  BY DEF ConsumeUnordered, IsHost, OnlyWaits
<1>3. input_queue(th) \in Queues  BY <1>2 DEF Wired, Connected
<1>4. OwnTypes  BY DEF ConsumeUnordered, Typed, HeldTypes, ReducerTypes, OwnTypes
<1>5. item \in Items  BY <1>1, <1>3, <1>4, PopsTakes DEF OwnTypes
<1>6. IsMarker(input_queue(th), item) <=> Empty(item)  BY <1>2, <1>3, EmptyIsMarker
<1>7. Msg(User, item) \in Messages  BY <1>5, MessageTypes
<1>8. CASE Empty(item)  BY <1>1, <1>2, <1>4, <1>6, <1>8, TakesSilently
<1>9. CASE ~Empty(item)  BY <1>1, <1>2, <1>4, <1>5, <1>6, <1>7, <1>9, TakesValue
<1> QED  BY <1>8, <1>9

\* A replica that ends the pipeline puts the end marker back into the queue it took
\* it from.
LEMMA FarmSinkSettles ==
  ASSUME Typed, Orders, Wired, NEW th \in Threads, FarmSink(th)
  PROVE  Settled(th)
<1>1. PICK item : /\ Pops(th, item)
                  /\ \/ ~Empty(item) /\ Then(th, "loop", <<Msg(User, item)>>)
                     \/ Empty(item) /\ Then(th, "last", <<Msg(input_queue(th), item)>>)
  BY DEF FarmSink
<1>2. kind(th) = "farm_sink" /\ ~IsHost(th) /\ ~OnlyWaits(th) /\ ~IsReplica(th)
  BY DEF FarmSink, IsHost, OnlyWaits, IsReplica
<1>3. input_queue(th) \in Queues /\ input_queue(th) # User  BY <1>2 DEF Wired, Connected
<1>4. OwnTypes  BY DEF FarmSink, Typed, HeldTypes, ReducerTypes, OwnTypes
<1>5. item \in Items  BY <1>1, <1>3, <1>4, PopsTakes DEF OwnTypes
<1>6. IsMarker(input_queue(th), item) <=> Empty(item)  BY <1>2, <1>3, EmptyIsMarker
<1>7. Msg(User, item) \in Messages /\ Msg(input_queue(th), item) \in Messages
  BY <1>3, <1>5, MessageTypes
<1>8. CASE ~Empty(item)  BY <1>1, <1>2, <1>4, <1>5, <1>6, <1>7, <1>8, TakesValue
<1>9. CASE Empty(item)
  <2> DEFINE msgs == <<Msg(input_queue(th), item)>>
  <2>1. msgs \in Seq(Messages) /\ "last" \in Labels  BY <1>7 DEF Labels
  <2>2. Then(th, "last", msgs)  BY <1>1, <1>9
  <2> HIDE DEF msgs
  <2>3. PoppedWith(th, item, "last", msgs)  BY <1>1, <1>2, <1>4, <2>1, <2>2, PopStep DEF OwnTypes
  <2>4. /\ OutgoingOf(th)'
        /\ \A m : Emits(th, m) => m.to = input_queue(th)
    BY <1>2, <1>3, <1>9, <2>3, OneEnd DEF PoppedWith, Frame, msgs
  <2>5. PlaceOf(th)'  BY <1>2, <1>4, <2>3, NextPlace DEF PoppedWith, OwnTypes
  <2>6. Leave(th)  BY <1>2, <1>6, <1>9, <2>3, <2>4, PoppedLeave
  <2> QED  BY <1>2, <2>3, <2>4, <2>5, <2>6 DEF Settled, PoppedWith
<1> QED  BY <1>8, <1>9

\* A replica or a context runs the loop of a stage; a sequential context ends its
\* output before it joins nobody.
LEMMA HostWorkSettles ==
  ASSUME Typed, Orders, Wired, InPlace, NEW th \in Threads, HostWork(th)
  PROVE  Settled(th)
<1>1. PICK item : /\ Pops(th, item)
                  /\ \/ /\ ~Empty(item)
                        /\ Then(th, "loop", IF Passes(th, item)
                                            THEN <<Msg(output_queue(th), item)>> ELSE <<>>)
                     \/ /\ Empty(item)
                        /\ Then(th, "join", IF IsSequential(th)
                                            THEN <<Msg(output_queue(th), End)>> ELSE <<>>)
  BY DEF HostWork
<1>2. IsHost(th) /\ ~OnlyWaits(th) /\ kind(th) # "generate" /\ kind(th) # "reorder"
  BY DEF HostWork, IsHost, InPlace, PlaceOf
<1>3. input_queue(th) \in Queues /\ output_queue(th) \in Queues /\ output_queue(th) # User
  BY <1>2 DEF Wired, Connected, IsHost
<1>4. OwnTypes  BY DEF HostWork, Typed, HeldTypes, ReducerTypes, OwnTypes
<1>5. item \in Items /\ (~Empty(item) => item.order >= 0)
  BY <1>1, <1>3, <1>4, PopsTakes DEF OwnTypes
<1>6. IsMarker(input_queue(th), item) <=> Empty(item)  BY <1>2, <1>3, EmptyIsMarker
<1>7. Msg(output_queue(th), item) \in Messages  BY <1>5, MessageTypes
<1>8. CASE ~Empty(item)
  <2>1. \/ Then(th, "loop", <<>>)
        \/ Then(th, "loop", <<Msg(output_queue(th), item)>>)
    BY <1>1, <1>8
  <2> QED  BY <1>1, <1>2, <1>4, <1>5, <1>6, <1>7, <1>8, <2>1, TakesValue
<1>9. CASE Empty(item) /\ ~IsSequential(th)
  BY <1>1, <1>2, <1>4, <1>6, <1>9, TakesSilently
<1>10. CASE Empty(item) /\ IsSequential(th)
  <2> DEFINE msgs == <<Msg(output_queue(th), End)>>
  <2>1. msgs \in Seq(Messages) /\ "join" \in Labels  BY EndType, MessageTypes DEF Labels
  <2>2. Then(th, "join", msgs)  BY <1>1, <1>10
  <2> HIDE DEF msgs
  <2>3. PoppedWith(th, item, "join", msgs)  BY <1>1, <1>2, <1>4, <2>1, <2>2, PopStep DEF OwnTypes
  <2>4. ~EndedOnce(output_queue(th))
    BY <1>3, <1>10 DEF EndedOnce, MayEndTwice, Wired, Connected
  <2>5. OutgoingOf(th)' /\ \A m : ~Emits(th, m)
    BY <1>3, <2>3, <2>4, EndType, OneEnd DEF PoppedWith, Frame, msgs
  <2>6. PlaceOf(th)'  BY <1>2, <1>4, <2>3, NextPlace DEF PoppedWith, OwnTypes
  <2>7. Leave(th)  BY <1>2, <1>6, <1>10, <2>3, <2>5, PoppedLeave
  <2> QED  BY <2>3, <2>5, <2>6, <2>7 DEF Settled, PoppedWith
<1> QED  BY <1>1, <1>8, <1>9, <1>10

\* What an iteration makes of a value is one.
LEMMA IteratedValue ==
  ASSUME Wired, NEW th \in Threads, kind(th) = "iterate", NEW item \in Items, ~Empty(item),
         item.order >= 0
  PROVE  \E to \in Queues, new \in Items :
           /\ Iterated(th, item) = Msg(to, new) /\ Msg(to, new) \in Messages
           /\ ~Empty(new) /\ new.order >= 0
           /\ to \in {input_queue(th), output_queue(th)} /\ to # User
<1> DEFINE one == [item EXCEPT !.rounds = @ + 1]
           zero == [one EXCEPT !.rounds = 0]
<1>1. /\ one \in Items /\ one.value = item.value /\ one.order = item.order
      /\ zero \in Items /\ zero.value = item.value /\ zero.order = item.order
  <2>1. one \in Items /\ one.value = item.value /\ one.order = item.order
    BY DEF Items
  <2> HIDE DEF one
  <2>2. zero \in Items /\ zero.value = one.value /\ zero.order = one.order
    BY <2>1 DEF Items
  <2> QED  BY <2>1, <2>2
<1>2. ~Empty(one) /\ ~Empty(zero)  BY <1>1 DEF Empty
<1>3. /\ input_queue(th) # User /\ output_queue(th) # User
      /\ input_queue(th) \in Queues /\ output_queue(th) \in Queues
  BY DEF Wired, Connected, OnlyWaits, IsHost
<1>4. Iterated(th, item) \in {Msg(output_queue(th), zero), Msg(input_queue(th), one)}
  BY DEF Iterated
<1> HIDE DEF one, zero
<1>5. Msg(output_queue(th), zero) \in Messages /\ Msg(input_queue(th), one) \in Messages
  BY <1>1, <1>3, MessageTypes
<1>6. CASE Iterated(th, item) = Msg(output_queue(th), zero)
  BY <1>1, <1>2, <1>3, <1>5, <1>6
<1>7. CASE Iterated(th, item) = Msg(input_queue(th), one)
  BY <1>1, <1>2, <1>3, <1>5, <1>7
<1> QED  BY <1>4, <1>6, <1>7

\* An iteration: the value goes on, or back to its own queue.
LEMMA IterateSettles ==
  ASSUME Typed, Orders, Wired, NEW th \in Threads, Iterate(th)
  PROVE  Settled(th)
<1>1. PICK item : /\ Pops(th, item)
                  /\ \/ ~Empty(item) /\ Then(th, "loop", <<Iterated(th, item)>>)
                     \/ Empty(item) /\ Then(th, "again", <<>>)
  BY DEF Iterate
<1>2. kind(th) = "iterate" /\ ~IsHost(th) /\ ~OnlyWaits(th)  BY DEF Iterate, IsHost, OnlyWaits
<1>3. input_queue(th) \in Queues  BY <1>2 DEF Wired, Connected
<1>4. OwnTypes  BY DEF Iterate, Typed, HeldTypes, ReducerTypes, OwnTypes
<1>5. item \in Items /\ (~Empty(item) => item.order >= 0)
  BY <1>1, <1>3, <1>4, PopsTakes DEF OwnTypes
<1>6. IsMarker(input_queue(th), item) <=> Empty(item)  BY <1>2, <1>3, EmptyIsMarker
<1>7. CASE Empty(item)  BY <1>1, <1>2, <1>4, <1>6, <1>7, TakesSilently
<1>8. CASE ~Empty(item)
  <2>1. PICK to \in Queues, new \in Items :
           /\ Iterated(th, item) = Msg(to, new) /\ Msg(to, new) \in Messages
           /\ ~Empty(new) /\ new.order >= 0
           /\ to \in {input_queue(th), output_queue(th)} /\ to # User
    BY <1>2, <1>5, <1>8, IteratedValue
  <2>2. Then(th, "loop", <<Msg(to, new)>>)  BY <1>1, <1>8, <2>1
  <2> QED  BY <1>1, <1>2, <1>4, <1>6, <1>8, <2>1, <2>2, TakesValue
<1> QED  BY <1>7, <1>8

\* The same behind the end marker.
LEMMA IterateAgainSettles ==
  ASSUME Typed, Orders, Wired, InPlace, NEW th \in Threads, IterateAgain(th)
  PROVE  Settled(th)
<1>1. PICK item \in ToSet(queue[input_queue(th)]) :
         /\ item = Head(queue[input_queue(th)]) /\ ~Empty(item)
         /\ queue' = [queue EXCEPT ![input_queue(th)] = Tail(@)]
         /\ Then(th, "again", <<Iterated(th, item)>>)
  BY DEF IterateAgain
<1>2. /\ pc[th] = "again_pop" /\ conf' = conf /\ done_threads' = done_threads
      /\ kind(th) = "iterate" /\ ~IsHost(th) /\ ~OnlyWaits(th) /\ ~IsReplica(th) /\ out[th] = <<>>
  BY DEF IterateAgain, InPlace, PlaceOf, IsHost, OnlyWaits, IsReplica
<1>3. input_queue(th) \in Queues /\ kind(th) # "reorder"  BY <1>2 DEF Wired, Connected
<1>4. Takes(th, item)  BY <1>1 DEF Takes, ToSet
<1>5. /\ queue' \in [Queues -> Seq(Items)] /\ item \in Items
      /\ \E j \in DOMAIN queue[input_queue(th)] : item = queue[input_queue(th)][j]
  BY <1>2, <1>3, <1>4, TakeKeepsQueue
<1>6. item.order >= 0  BY <1>1, <1>3, <1>5 DEF Orders
<1>7. PICK to \in Queues, new \in Items :
           /\ Iterated(th, item) = Msg(to, new) /\ Msg(to, new) \in Messages
           /\ ~Empty(new) /\ new.order >= 0
           /\ to \in {input_queue(th), output_queue(th)} /\ to # User
  BY <1>1, <1>2, <1>5, <1>6, IteratedValue
<1>8. Then(th, "again", <<Msg(to, new)>>) /\ <<Msg(to, new)>> \in Seq(Messages)
      /\ "again" \in Labels
  BY <1>1, <1>7 DEF Labels
<1>9. /\ Frame(th) /\ out'[th] = <<Msg(to, new)>> /\ pc'[th] = "again"
      /\ pc' \in [Threads -> Labels]
      /\ out' \in [Threads -> Seq(Messages)]
  BY <1>2, <1>5, <1>8, ThenFrame
<1>10. Typed'
  <2>1. Threads' = Threads /\ Queues' = Queues  BY <1>9, RolesStay DEF Frame, Queues
  <2>2. produced' = produced /\ held' = held /\ reducer' = reducer  BY DEF IterateAgain
  <2> QED  BY <1>2, <1>5, <1>9, <2>1, <2>2 DEF Typed, Messages
<1>11. OutgoingOf(th)' /\ \A m : ~Emits(th, m)
  BY <1>2, <1>7, <1>9, OneValue
<1>12. PlaceOf(th)'  BY <1>2, <1>9, NextPlace
<1>13. ~IsMarker(input_queue(th), item)  BY <1>1, <1>2, <1>3, EmptyIsMarker
<1>14. Work(th)  BY <1>2, <1>4, <1>9, <1>11, <1>13 DEF Work
<1> QED  BY <1>2, <1>9, <1>10, <1>11, <1>12, <1>14 DEF Settled

\* A step between two operations on queues.
LEMMA InnerStep ==
  ASSUME Typed, NEW th \in Threads, NEW l \in Labels, NEW msgs \in Seq(Messages),
         Then(th, l, msgs), out[th] = <<>>, pc[th] # "last",
         conf' = conf, queue' = queue, done_threads' = done_threads, produced' \in Nat,
         held' \in [Threads -> HeldTypes], reducer' = reducer
  PROVE  Frame(th) /\ Typed' /\ out'[th] = msgs /\ pc'[th] = l
<1>1. queue' \in [Queues -> Seq(Items)]  BY DEF Typed
<1>2. /\ Frame(th) /\ out'[th] = msgs /\ pc'[th] = l
      /\ pc' \in [Threads -> Labels]
      /\ out' \in [Threads -> Seq(Messages)]
  BY <1>1, ThenFrame
<1>3. Threads' = Threads /\ Queues' = Queues  BY RolesStay DEF Queues
<1> QED  BY <1>1, <1>2, <1>3 DEF Typed, Messages, HeldTypes

\* A thread that is not a replica ends its output.
LEMMA EndsOutput ==
  ASSUME Typed, Wired, NEW th \in Threads, NEW item \in Items, Empty(item), ~IsReplica(th),
         \/ Then(th, "last", <<Msg(output_queue(th), item)>>) /\ output_queue(th) # User
         \/ Then(th, "last", <<>>),
         out[th] = <<>>, pc[th] # "last", pc[th] # "loop" \/ kind(th) = "generate",
         IsHost(th) => \A h \in helpers(th) : Finished(h),
         kind(th) = "iterate" => queue[input_queue(th)] = <<>>,
         conf' = conf, queue' = queue, done_threads' = done_threads, produced' = produced,
         held' = held, reducer' = reducer
  PROVE  Settled(th)
<1>1. PICK msgs \in {<<>>, <<Msg(output_queue(th), item)>>} :
        Then(th, "last", msgs) /\ (msgs = <<>> \/ output_queue(th) # User)
  OBVIOUS
<1>2. msgs \in Seq(Messages)
  <2>1. <<>> \in Seq(Messages) /\ <<Msg(output_queue(th), item)>> \in Seq(Messages)
    BY MessageTypes
  <2> QED  BY <1>1, <2>1
<1>3. "last" \in Labels /\ produced' \in Nat /\ held' \in [Threads -> HeldTypes]
  BY DEF Labels, Typed, HeldTypes
<1>4. Frame(th) /\ Typed' /\ out'[th] = msgs /\ pc'[th] = "last"
  BY <1>1, <1>2, <1>3, InnerStep
<1>5. OutgoingOf(th)' /\ \A m : Emits(th, m) => m.to = output_queue(th)
  <2>1. CASE msgs = <<>>  BY <1>4, <2>1, NoMessage
  <2>2. CASE msgs = <<Msg(output_queue(th), item)>> /\ output_queue(th) # User
    BY <1>4, <2>2, OneEnd
  <2> QED  BY <1>1, <2>1, <2>2
<1>6. PlaceOf(th)'
  <2>1. \A h \in helpers(th) : h # th /\ Finished(h) => Finished(h)'
    BY <1>4 DEF Frame, Finished, Wired, Connected
  <2>2. IsHost(th) => \A h \in helpers(th) : Finished(h)'
    BY <1>4, <2>1 DEF Frame
  <2> QED  BY <1>4, <2>2, RolesStay DEF PlaceOf, OnlyWaits, IsReplica, IsHost
<1>7. Finish(th)  BY <1>4, <1>5 DEF Finish
<1> QED  BY <1>4, <1>5, <1>6, <1>7 DEF Settled

\* The generator: its empty item is the end marker of the first queue.
LEMMA GenerateSettles ==
  ASSUME Typed, Wired, NEW th \in Threads, Generate(th)
  PROVE  Settled(th)
<1>1. /\ kind(th) = "generate" /\ pc[th] = "loop" /\ out[th] = <<>>
      /\ conf' = conf /\ queue' = queue /\ done_threads' = done_threads
      /\ held' = held /\ reducer' = reducer /\ produced \in Nat
      /\ held' \in [Threads -> HeldTypes]
      /\ ~IsHost(th) /\ ~IsReplica(th) /\ ~OnlyWaits(th)
  BY DEF Generate, IsHost, IsReplica, OnlyWaits, Typed, HeldTypes
<1>2. output_queue(th) # User  BY <1>1 DEF Wired, Connected
<1>3. CASE produced' = produced + 1 /\
           Then(th, "loop", <<Msg(output_queue(th), Item(<<produced + 1>>, produced))>>)
  <2> DEFINE item == Item(<<produced + 1>>, produced)
             msgs == <<Msg(output_queue(th), item)>>
  <2>1. item \in Items /\ ~Empty(item) /\ item.order >= 0
    BY <1>1 DEF Item, Items, Empty, NoValue
  <2>2. msgs \in Seq(Messages) /\ "loop" \in Labels  BY <2>1, MessageTypes DEF Labels
  <2>3. Then(th, "loop", msgs)  BY <1>3
  <2>4. produced' \in Nat /\ pc[th] # "last"  BY <1>1, <1>3
  <2> HIDE DEF msgs, item
  <2>5. Frame(th) /\ Typed' /\ out'[th] = msgs /\ pc'[th] = "loop"
    BY <1>1, <2>2, <2>3, <2>4, InnerStep
  <2>6. OutgoingOf(th)' /\ \A m : ~Emits(th, m)
    BY <1>1, <2>1, <2>5, OneValue DEF msgs
  <2>7. PlaceOf(th)'  BY <1>1, <2>5, NextPlace
  <2>8. Work(th)  BY <1>1, <2>5, <2>6 DEF Work
  <2> QED  BY <1>1, <2>5, <2>6, <2>7, <2>8 DEF Settled
<1>4. CASE produced' = produced /\
           Then(th, "last", <<Msg(output_queue(th), Item(NoValue, produced))>>)
  <2>1. Item(NoValue, produced) \in Items /\ Empty(Item(NoValue, produced))
    BY <1>1 DEF Item, Items, Empty, NoValue
  <2> QED  BY <1>1, <1>2, <1>4, <2>1, EndsOutput
<1> QED  BY <1>3, <1>4 DEF Generate

\* A context that waits for what it runs ends its output.
LEMMA ContextEndSettles ==
  ASSUME Typed, Wired, NEW th \in Threads, ContextEnd(th)
  PROVE  Settled(th)
<1>1. /\ kind(th) = "context" /\ ~IsReplica(th) /\ pc[th] = "join" /\ out[th] = <<>>
      /\ \A h \in helpers(th) : Finished(h)
      /\ Then(th, "last", <<Msg(output_queue(th), End)>>)
      /\ conf' = conf /\ queue' = queue /\ done_threads' = done_threads
      /\ held' = held /\ reducer' = reducer /\ produced' = produced
  BY DEF ContextEnd, Joined, EndOutput, IsReplica
<1>2. output_queue(th) # User  BY <1>1 DEF Wired, Connected
<1> QED  BY <1>1, <1>2, EndType, EndsOutput

\* An iteration that finds its queue empty ends its output.
LEMMA IterateTestSettles ==
  ASSUME Typed, Wired, InPlace, NEW th \in Threads, IterateTest(th)
  PROVE  Settled(th)
<1>1. /\ pc[th] = "again" /\ out[th] = <<>> /\ kind(th) = "iterate"
      /\ ~IsReplica(th) /\ ~IsHost(th) /\ ~OnlyWaits(th)
      /\ conf' = conf /\ queue' = queue /\ done_threads' = done_threads
      /\ held' = held /\ reducer' = reducer /\ produced' = produced
      /\ produced' \in Nat /\ held' \in [Threads -> HeldTypes]
  BY DEF IterateTest, InPlace, PlaceOf, IsReplica, IsHost, OnlyWaits, Typed, HeldTypes
<1>2. output_queue(th) # User  BY <1>1 DEF Wired, Connected
<1>3. CASE Then(th, "again_pop", <<>>) /\ queue[input_queue(th)] # <<>>
  <2>1. "again_pop" \in Labels /\ <<>> \in Seq(Messages)  BY DEF Labels
  <2>2. Frame(th) /\ Typed' /\ out'[th] = <<>> /\ pc'[th] = "again_pop"
    BY <1>1, <1>3, <2>1, InnerStep
  <2>3. OutgoingOf(th)' /\ \A m : ~Emits(th, m)  BY <2>2, NoMessage
  <2>4. PlaceOf(th)'  BY <1>1, <2>2, NextPlace
  <2>5. Work(th)  BY <1>1, <2>2, <2>3 DEF Work
  <2> QED  BY <1>1, <2>2, <2>3, <2>4, <2>5 DEF Settled
<1>4. CASE EndOutput(th) /\ queue[input_queue(th)] = <<>>
  <2>1. Then(th, "last", <<Msg(output_queue(th), End)>>)  BY <1>4 DEF EndOutput
  <2> QED  BY <1>1, <1>2, <1>4, <2>1, EndType, EndsOutput
<1> QED  BY <1>3, <1>4 DEF IterateTest

\* An ordering thread ends its output when it keeps nothing any more.
LEMMA DrainEndSettles ==
  ASSUME Typed, Wired, InPlace, NEW th \in Threads, DrainEnd(th)
  PROVE  Settled(th)
<1>1. /\ pc[th] = "drain" /\ out[th] = <<>> /\ kind(th) \in {"consume", "reorder"}
      /\ ~IsReplica(th) /\ ~IsHost(th)
      /\ \/ Then(th, "last", <<Msg(output_queue(th), End)>>) /\ kind(th) = "reorder"
         \/ Then(th, "last", <<>>)
      /\ conf' = conf /\ queue' = queue /\ done_threads' = done_threads
      /\ held' = held /\ reducer' = reducer /\ produced' = produced
  BY DEF DrainEnd, InPlace, PlaceOf, IsReplica, IsHost
<1>2. kind(th) = "reorder" => output_queue(th) # User  BY DEF Wired, Connected
<1> QED  BY <1>1, <1>2, EndType, EndsOutput

\* A replica counts itself out when the threads it created have been joined.
LEMMA FarmCountSettles ==
  ASSUME Typed, Wired, NEW th \in Threads, FarmCount(th)
  PROVE  Settled(th)
<1>1. /\ IsReplica(th) /\ IsHost(th) /\ pc[th] = "join" /\ out[th] = <<>>
      /\ \A h \in helpers(th) : Finished(h)
      /\ conf' = conf /\ queue' = queue /\ out' = out
      /\ held' = held /\ reducer' = reducer /\ produced' = produced
      /\ pc' = [pc EXCEPT ![th] = "test"]
      /\ done_threads' = [done_threads EXCEPT ![FarmOf(th)] = @ + 1]
  BY DEF FarmCount, Joined, IsReplica, IsHost
<1>2. FarmOf(th) \in DOMAIN done_threads  BY <1>1 DEF Wired, FarmQueues
<1>3. /\ pc' \in [Threads -> Labels] /\ pc'[th] = "test" /\ out'[th] = <<>>
      /\ done_threads' \in [DOMAIN done_threads -> Nat]
      /\ DOMAIN done_threads' = DOMAIN done_threads
  BY <1>1, <1>2 DEF Typed, Labels
<1>4. Frame(th)  BY <1>1, <1>3 DEF Frame, Finished, Typed
<1>5. Typed'
  <2>1. Threads' = Threads /\ Queues' = Queues  BY <1>4, RolesStay DEF Frame, Queues
  <2> QED  BY <1>1, <1>3, <2>1 DEF Typed
<1>6. OutgoingOf(th)' /\ \A m : ~Emits(th, m)  BY <1>3, NoMessage
<1>7. PlaceOf(th)'
  <2>1. \A h \in helpers(th) : h # th /\ Finished(h) => Finished(h)'
    BY <1>4 DEF Frame, Finished, Wired, Connected
  <2>2. \A h \in helpers(th) : Finished(h)'
    BY <1>1, <1>4, <2>1 DEF Frame
  <2> QED  BY <1>1, <1>3, <2>2, RolesStay DEF PlaceOf, OnlyWaits, IsReplica, IsHost
<1>8. Work(th)  BY <1>1, <1>3, <1>4, <1>6 DEF Work
<1> QED  BY <1>4, <1>5, <1>6, <1>7, <1>8 DEF Settled

\* A replica reads the counter again and ends the output, or puts the marker back.
LEMMA FarmEndSettles ==
  ASSUME Typed, Wired, InPlace, NEW th \in Threads, FarmEnd(th)
  PROVE  Settled(th)
<1>1. /\ pc[th] = "test" /\ out[th] = <<>> /\ IsReplica(th) /\ IsHost(th)
      /\ \A h \in helpers(th) : Finished(h)
      /\ conf' = conf /\ queue' = queue /\ done_threads' = done_threads
      /\ held' = held /\ reducer' = reducer /\ produced' = produced
      /\ produced' \in Nat /\ held' \in [Threads -> HeldTypes]
  BY DEF FarmEnd, InPlace, PlaceOf, IsReplica, IsHost, Typed, HeldTypes
<1>2. /\ output_queue(th) # User /\ FarmInput(th) # User
      /\ output_queue(th) \in Queues /\ FarmInput(th) \in Queues
  BY <1>1 DEF Wired, Connected, FarmQueues, IsReplica
<1>3. PICK to \in {output_queue(th), FarmInput(th)}, item \in {End, Item(NoValue, 0)} :
        Then(th, "last", <<Msg(to, item)>>)
  BY DEF FarmEnd, EndOutput, PutBack
<1>4. item \in Items /\ Empty(item)  BY EndType DEF Item, Items, Empty, NoValue
<1>5. <<Msg(to, item)>> \in Seq(Messages) /\ "last" \in Labels
  BY <1>1, <1>3, <1>4, MessageTypes DEF Labels
<1>6. Frame(th) /\ Typed' /\ out'[th] = <<Msg(to, item)>> /\ pc'[th] = "last"
  BY <1>1, <1>3, <1>5, InnerStep
<1>7. OutgoingOf(th)'  BY <1>1, <1>2, <1>3, <1>4, <1>6, OneEnd
<1>8. PlaceOf(th)'
  <2>1. \A h \in helpers(th) : h # th /\ Finished(h) => Finished(h)'
    BY <1>6 DEF Frame, Finished, Wired, Connected
  <2>2. \A h \in helpers(th) : Finished(h)'
    BY <1>1, <1>6, <2>1 DEF Frame
  <2> QED  BY <1>1, <1>6, <2>2, RolesStay DEF PlaceOf, OnlyWaits, IsReplica, IsHost
<1> QED  BY <1>1, <1>6, <1>7, <1>8 DEF Settled

-----------------------------------------------------------------------------
(* The ordering loops. *)

\* A set of numbers has a least one.
LEMMA Least ==
  ASSUME NEW T, T \subseteq Nat, T # {}
  PROVE  \E n \in T : \A m \in T : n <= m
<1> DEFINE R == {ss \in Nat \X Nat : ss[1] < ss[2]}
<1>1. IsWellFoundedOn(R, Nat)  BY NatLessThanWellFounded DEF OpToRel
<1>2. PICK n \in T : \A m \in T : <<m, n>> \notin R
  <2> HIDE DEF R
  <2> QED  BY <1>1, WFMin
<1>3. SUFFICES ASSUME NEW m \in T PROVE n <= m  OBVIOUS
<1>4. n \in Nat /\ m \in Nat  OBVIOUS
<1>5. <<m, n>> \notin R  BY <1>2
<1> QED  BY <1>4, <1>5

\* What is left of a sequence without its k-th element.
LEMMA RemoveAtType ==
  ASSUME NEW S, NEW s \in Seq(S), NEW k \in DOMAIN s
  PROVE  RemoveAt(s, k) \in Seq(S)
<1>1. k \in 1 .. Len(s) /\ Len(s) \in Nat  OBVIOUS
<1>2. SubSeq(s, 1, k - 1) \in Seq(S) /\ SubSeq(s, k + 1, Len(s)) \in Seq(S)  BY <1>1
<1> QED  BY <1>2, ConcatElements DEF RemoveAt

\* One look among the elements.
LEMMA ReleaseOneType ==
  ASSUME NEW h \in HeldTypes
  PROVE  /\ ReleaseOne(h).given \in Seq(Items)
         /\ ReleaseOne(h).held \in HeldTypes /\ ReleaseOne(h).held.order = h.order
<1>1. CASE Positions(h) = {}
  <2>1. ReleaseOne(h) = [given |-> <<>>, held |-> h]  BY <1>1 DEF ReleaseOne
  <2>2. <<>> \in Seq(Items)  OBVIOUS
  <2> QED  BY <2>1, <2>2
<1>2. CASE Positions(h) # {}
  <2> DEFINE k == CHOOSE k \in Positions(h) : \A j \in Positions(h) : k <= j
             left == [h EXCEPT !.elements = RemoveAt(@, k), !.current = @ + 1]
  <2>1. ReleaseOne(h) = [given |-> <<h.elements[k]>>, held |-> left]
    BY <1>2 DEF ReleaseOne
  <2>2. /\ Positions(h) \subseteq DOMAIN h.elements
        /\ h.elements \in Seq(Items) /\ h.current \in Int /\ h.order \in Nat
    BY DEF Positions, HeldTypes
  <2>3. k \in DOMAIN h.elements
    <3>1. Positions(h) \subseteq Nat  BY <2>2
    <3>2. PICK x \in Positions(h) : \A m \in Positions(h) : x <= m
      BY <1>2, <3>1, Least
    <3>3. \E n \in Positions(h) : \A m \in Positions(h) : n <= m  BY <3>2
    <3>4. k \in Positions(h)  BY <3>3
    <3> QED  BY <2>2, <3>4
  <2>4. RemoveAt(h.elements, k) \in Seq(Items) /\ h.elements[k] \in Items
    BY <2>2, <2>3, RemoveAtType
  <2> HIDE DEF k
  <2> DEFINE rest == RemoveAt(h.elements, k)
  <2>5. left \in HeldTypes /\ left.order = h.order
    <3>1. left = [h EXCEPT !.elements = rest, !.current = h.current + 1]  OBVIOUS
    <3>2. rest \in Seq(Items)  BY <2>4
    <3> HIDE DEF rest, left
    <3>3. left = [elements |-> rest, current |-> h.current + 1, order |-> h.order]
      BY <3>1 DEF HeldTypes
    <3>4. h.current + 1 \in Int  BY <2>2
    <3> QED  BY <2>2, <3>2, <3>3, <3>4 DEF HeldTypes
  <2>6. <<h.elements[k]>> \in Seq(Items)  BY <2>4
  <2> HIDE DEF left
  <2> QED  BY <2>1, <2>5, <2>6
<1> QED  BY <1>1, <1>2

\* The body of the loop.
LEMMA ReleaseWithType ==
  ASSUME NEW h \in HeldTypes, NEW item \in Items
  PROVE  /\ ReleaseWith(h, item).given \in Seq(Items)
         /\ ReleaseWith(h, item).held \in HeldTypes
         /\ ReleaseWith(h, item).held.order = h.order
<1> DEFINE next == [h EXCEPT !.current = @ + 1]
           more == [h EXCEPT !.elements = Append(@, item)]
<1>1. next \in HeldTypes /\ next.order = h.order  BY DEF HeldTypes
<1>2. more \in HeldTypes /\ more.order = h.order  BY DEF HeldTypes
<1> HIDE DEF next, more
<1>3. CASE item.order = h.current
  <2> DEFINE r == ReleaseOne(next)
  <2>1. ReleaseWith(h, item) = [r EXCEPT !.given = <<item>> \o @]
    BY <1>3 DEF ReleaseWith, next
  <2>2. r.given \in Seq(Items) /\ r.held \in HeldTypes /\ r.held.order = h.order
        /\ r = [given |-> r.given, held |-> r.held]
    BY <1>1, ReleaseOneType DEF ReleaseOne
  <2>3. <<item>> \o r.given \in Seq(Items)  BY <2>2
  <2> HIDE DEF r
  <2> QED  BY <2>1, <2>2, <2>3
<1>4. CASE item.order # h.current
  <2>1. ReleaseWith(h, item) = ReleaseOne(more)  BY <1>4 DEF ReleaseWith, more
  <2> QED  BY <1>2, <2>1, ReleaseOneType
<1> QED  BY <1>3, <1>4

\* Only values are handed on, under orders of their own.
LEMMA RenumberedValues ==
  ASSUME NEW given \in Seq(Items), NEW n \in Nat
  PROVE  /\ Renumbered(given, n) \in Seq({x \in Items : ~Empty(x) /\ x.order >= 0})
         /\ Len(Renumbered(given, n)) \in Nat
<1> DEFINE V == {x \in Items : ~Empty(x)}
           parts == [k \in DOMAIN given |-> IF Empty(given[k]) THEN <<>> ELSE <<given[k]>>]
           kept == FlattenSeq(parts)
           N == {x \in Items : ~Empty(x) /\ x.order >= 0}
<1>1. parts \in Seq(Seq(V))
  <2>1. \A k \in DOMAIN given : given[k] \in Items  OBVIOUS
  <2>2. \A k \in DOMAIN given : parts[k] \in Seq(V)
    <3>1. <<>> \in Seq(V) /\ \A x \in V : <<x>> \in Seq(V)  OBVIOUS
    <3> QED  BY <2>1, <3>1
  <2> HIDE DEF V
  <2>3. DOMAIN given = 1 .. Len(given) /\ Len(given) \in Nat  OBVIOUS
  <2>4. parts \in [1 .. Len(given) -> Seq(V)]  BY <2>2, <2>3
  <2> QED  BY <2>3, <2>4
<1> HIDE DEF parts, V
<1>2. kept \in Seq(V)  BY <1>1, FlattenType
<1> HIDE DEF kept
<1>3. Renumbered(given, n) = [k \in DOMAIN kept |-> [kept[k] EXCEPT !.order = n + k - 1]]
  BY DEF Renumbered, kept, parts
<1>4. DOMAIN kept = 1 .. Len(kept) /\ Len(kept) \in Nat /\ \A k \in 1 .. Len(kept) : kept[k] \in V
  BY <1>2
<1>5. \A k \in 1 .. Len(kept) : [kept[k] EXCEPT !.order = n + k - 1] \in N
  <2>1. SUFFICES ASSUME NEW k \in 1 .. Len(kept)
                 PROVE  [kept[k] EXCEPT !.order = n + k - 1] \in N
    OBVIOUS
  <2>2. kept[k] \in Items /\ ~Empty(kept[k])  BY <1>4 DEF V
  <2>3. n + k - 1 \in Int /\ n + k - 1 >= 0  BY <1>4
  <2> QED  BY <2>2, <2>3 DEF Items, Empty
<1> HIDE DEF N
<1>6. Renumbered(given, n) \in [1 .. Len(kept) -> N]  BY <1>3, <1>4, <1>5
<1>7. Renumbered(given, n) \in Seq(N)  BY <1>4, <1>6
<1> QED  BY <1>7 DEF N

\* Calls of the user's operation, and values for the output.
ValuesOnly(th, msgs) ==
  \A k \in DOMAIN msgs :
    \/ msgs[k].to = User
    \/ msgs[k].to = output_queue(th) /\ ~Empty(msgs[k].item) /\ msgs[k].item.order >= 0

\* Any number of these messages are no end markers.
LEMMA ManyValues ==
  ASSUME conf' = conf, NEW th, ValuesOnly(th, out'[th]), pc'[th] # "last"
  PROVE  OutgoingOf(th)' /\ \A m : ~Emits(th, m)
<1>1. \A k \in DOMAIN out'[th] : ~IsEndMsg(out'[th][k])
  BY DEF ValuesOnly, IsEndMsg, IsMarker
<1> QED  BY <1>1, RolesStay, MarkersStay DEF OutgoingOf, Emits, ValuesOnly, Empty

\* What an ordering loop hands over.
LEMMA ReleaseMessages ==
  ASSUME Typed, Wired, NEW th \in Threads, NEW r, r.given \in Seq(Items), r.held \in HeldTypes,
         NEW l, Release(th, r, l)
  PROVE  /\ held' \in [Threads -> HeldTypes]
         /\ \E msgs \in Seq(Messages) : Then(th, l, msgs) /\ ValuesOnly(th, msgs)
<1> DEFINE kept == Renumbered(r.given, r.held.order)
<1>1. held \in [Threads -> HeldTypes]  BY DEF Typed, HeldTypes
<1>2. /\ kept \in Seq({x \in Items : ~Empty(x) /\ x.order >= 0})
      /\ Len(kept) \in Nat
  BY RenumberedValues DEF HeldTypes
<1>3. CASE /\ Then(th, l, Calls(r.given))
           /\ held' = [held EXCEPT ![th] = r.held]
  <2>1. \A k \in DOMAIN r.given : Msg(User, r.given[k]) \in Messages
    <3>1. \A k \in DOMAIN r.given : r.given[k] \in Items  OBVIOUS
    <3> QED  BY <3>1, MessageTypes
  <2>2. /\ DOMAIN Calls(r.given) = DOMAIN r.given
        /\ \A k \in DOMAIN r.given : Calls(r.given)[k] = Msg(User, r.given[k])
    BY DEF Calls
  <2>3. Calls(r.given) \in [1 .. Len(r.given) -> Messages] /\ Len(r.given) \in Nat
    <3>1. DOMAIN r.given = 1 .. Len(r.given) /\ Len(r.given) \in Nat  OBVIOUS
    <3> QED  BY <2>1, <3>1 DEF Calls
  <2>4. Calls(r.given) \in Seq(Messages)  BY <2>3
  <2>5. ValuesOnly(th, Calls(r.given))
    <3>1. \A k \in DOMAIN r.given : Msg(User, r.given[k]).to = User  BY DEF Msg
    <3>2. \A k \in DOMAIN Calls(r.given) : Calls(r.given)[k].to = User  BY <2>2, <3>1
    <3> QED  BY <3>2 DEF ValuesOnly
  <2> QED  BY <1>1, <1>3, <2>4, <2>5
<1>4. CASE /\ Then(th, l, [k \in DOMAIN kept |-> Msg(output_queue(th), kept[k])])
           /\ held' = [held EXCEPT ![th] = [r.held EXCEPT !.order = @ + Len(kept)]]
  <2> DEFINE msgs == [k \in DOMAIN kept |-> Msg(output_queue(th), kept[k])]
             left == [r.held EXCEPT !.order = @ + Len(kept)]
  <2>1. /\ DOMAIN kept = 1 .. Len(kept)
        /\ \A k \in DOMAIN kept : kept[k] \in Items /\ ~Empty(kept[k]) /\ kept[k].order >= 0
    BY <1>2
  <2>2. Then(th, l, msgs) /\ held' = [held EXCEPT ![th] = left]  BY <1>4
  <2>3. left \in HeldTypes
    <3> DEFINE n == Len(kept)
    <3>1. n \in Nat /\ left = [r.held EXCEPT !.order = r.held.order + n]  BY <1>2
    <3> HIDE DEF n, left
    <3>2. left = [elements |-> r.held.elements, current |-> r.held.current,
                  order |-> r.held.order + n]
      BY <3>1 DEF HeldTypes
    <3>3. /\ r.held.elements \in Seq(Items) /\ r.held.current \in Int /\ r.held.order \in Nat
          /\ r.held.order + n \in Nat
      BY <3>1 DEF HeldTypes
    <3> QED  BY <3>2, <3>3 DEF HeldTypes
  <2> HIDE DEF kept, left
  <2>4. \A k \in DOMAIN kept : Msg(output_queue(th), kept[k]) \in Messages
    BY <2>1, MessageTypes
  <2>5. msgs \in [1 .. Len(kept) -> Messages]  BY <2>1, <2>4
  <2>6. msgs \in Seq(Messages)  BY <1>2, <2>5
  <2>7. ValuesOnly(th, msgs)  BY <2>1 DEF ValuesOnly, Msg
  <2> QED  BY <1>1, <2>2, <2>3, <2>6, <2>7
<1> QED  BY <1>3, <1>4 DEF Release

\* The ordering loop takes an item.
LEMMA OrderSettles ==
  ASSUME Typed, Orders, Wired, NEW th \in Threads, Order(th)
  PROVE  Settled(th)
<1>1. PICK item :
        /\ Pops(th, item)
        /\ \/ ~EndsOrdering(th, item) /\ Release(th, ReleaseWith(held[th], item), "loop")
           \/ EndsOrdering(th, item) /\ Then(th, "drain", <<>>) /\ UNCHANGED held
  BY DEF Order
<1>2. /\ kind(th) \in {"consume", "reorder"}
      /\ ~IsHost(th) /\ ~OnlyWaits(th) /\ ~IsReplica(th)
  BY DEF Order, OrderingLoop, IsHost, OnlyWaits, IsReplica
<1>3. input_queue(th) \in Queues  BY <1>2 DEF Wired, Connected
<1>4. /\ conf' = conf /\ done_threads' = done_threads /\ produced' = produced
      /\ reducer' \in [Threads -> ReducerTypes] /\ held \in [Threads -> HeldTypes]
  BY DEF Order, Typed, ReducerTypes, HeldTypes
<1>5. item \in Items  BY <1>1, <1>3, <1>4, PopsTakes
<1>6. IsMarker(input_queue(th), item) <=> EndsOrdering(th, item)
  <2>1. CASE kind(th) = "consume"
    BY <1>3, <2>1, EmptyIsMarker DEF EndsOrdering
  <2>2. CASE kind(th) = "reorder"
    <3>1. th \in Readers(input_queue(th))  BY DEF Readers
    <3> QED  BY <2>2, <3>1 DEF EndsOrdering, IsMarker
  <2> QED  BY <1>2, <2>1, <2>2
<1>7. CASE EndsOrdering(th, item) /\ Then(th, "drain", <<>>) /\ UNCHANGED held
  <2>1. OwnTypes  BY <1>4, <1>7 DEF OwnTypes
  <2> QED  BY <1>1, <1>2, <1>6, <1>7, <2>1, TakesSilently
<1>8. CASE ~EndsOrdering(th, item) /\ Release(th, ReleaseWith(held[th], item), "loop")
  <2> DEFINE r == ReleaseWith(held[th], item)
  <2>1. r.given \in Seq(Items) /\ r.held \in HeldTypes  BY <1>4, <1>5, ReleaseWithType
  <2> HIDE DEF r
  <2>2. Release(th, r, "loop")  BY <1>8 DEF r
  <2>3. held' \in [Threads -> HeldTypes]  BY <2>1, <2>2, ReleaseMessages
  <2>4. PICK msgs \in Seq(Messages) : Then(th, "loop", msgs) /\ ValuesOnly(th, msgs)
    BY <2>1, <2>2, ReleaseMessages
  <2>5. "loop" \in Labels  BY DEF Labels
  <2>6. PoppedWith(th, item, "loop", msgs)
    BY <1>1, <1>2, <1>4, <2>3, <2>4, <2>5, PopStep
  <2>7. OutgoingOf(th)' /\ \A m : ~Emits(th, m)
    BY <1>4, <2>4, <2>6, ManyValues DEF PoppedWith
  <2>8. PlaceOf(th)'  BY <1>2, <1>4, <2>6, NextPlace DEF PoppedWith
  <2>9. Work(th)  BY <1>6, <1>8, <2>6, <2>7, PoppedWork
  <2> QED  BY <1>2, <2>6, <2>7, <2>8, <2>9 DEF Settled, PoppedWith
<1> QED  BY <1>1, <1>7, <1>8

\* The ordering loop behind the end marker releases what it has kept.
LEMMA DrainReleases ==
  ASSUME Typed, Wired, InPlace, NEW th \in Threads, NEW l \in {"drain", "drain_pop"},
         pc[th] = "drain", out[th] = <<>>, Release(th, ReleaseOne(held[th]), l),
         conf' = conf, queue' = queue, done_threads' = done_threads,
         produced' = produced, reducer' = reducer
  PROVE  Settled(th)
<1>1. /\ kind(th) \in {"consume", "reorder"}
      /\ ~IsHost(th) /\ ~OnlyWaits(th) /\ ~IsReplica(th)
      /\ produced' \in Nat /\ held[th] \in HeldTypes
  BY DEF InPlace, PlaceOf, IsHost, OnlyWaits, IsReplica, Typed, HeldTypes
<1> DEFINE r == ReleaseOne(held[th])
<1>2. r.given \in Seq(Items) /\ r.held \in HeldTypes  BY <1>1, ReleaseOneType
<1>3. Release(th, r, l)  OBVIOUS
<1> HIDE DEF r
<1>4. held' \in [Threads -> HeldTypes]  BY <1>2, <1>3, ReleaseMessages
<1>5. PICK msgs \in Seq(Messages) : Then(th, l, msgs) /\ ValuesOnly(th, msgs)
  BY <1>2, <1>3, ReleaseMessages
<1>6. l \in Labels /\ pc[th] # "last"  BY DEF Labels
<1>7. Frame(th) /\ Typed' /\ out'[th] = msgs /\ pc'[th] = l
  BY <1>1, <1>4, <1>5, <1>6, InnerStep
<1>8. OutgoingOf(th)' /\ \A m : ~Emits(th, m)  BY <1>1, <1>5, <1>7, ManyValues
<1>9. PlaceOf(th)'  BY <1>1, <1>7, NextPlace
<1>10. Work(th)  BY <1>1, <1>7, <1>8 DEF Work
<1> QED  BY <1>1, <1>7, <1>8, <1>9, <1>10 DEF Settled

\* So does it do in its loop.
LEMMA DrainSettles ==
  ASSUME Typed, Wired, InPlace, NEW th \in Threads, Drain(th)
  PROVE  Settled(th)
BY DrainReleases DEF Drain

-----------------------------------------------------------------------------
(* Reductions. *)

\* The value of a window: it is not empty if the buffer is not.
LEMMA WindowType ==
  ASSUME NEW r \in ReducerTypes, NEW w, ReductionNeeded(r, w)
  PROVE  WindowValue(r) \in Seq(Int) /\ WindowValue(r) # <<>>
<1> DEFINE s == r.items
           n == Len(s) - 1
           first == SubSeq(s, 1, n)
           last == s[n + 1]
<1>1. s \in Seq(Values) /\ s # <<>>  BY DEF ReducerTypes, ReductionNeeded
<1>2. n \in Nat /\ Len(s) = n + 1
  <2>1. Len(s) \in Nat /\ Len(s) # 0  BY <1>1, EmptySequence
  <2> HIDE DEF s
  <2> QED  BY <2>1
<1>3. Values \subseteq Seq(Int) /\ \A v \in Values : v # <<>>  BY DEF Values
<1> HIDE DEF s, n
<1>4. /\ first \in Seq(Values) /\ last \in Values /\ s = Append(first, last)
  BY <1>1, <1>2, ButLast
<1>5. first \in Seq(Seq(Int)) /\ last \in Seq(Int) /\ last # <<>>
  <2>1. \A t \in Seq(Values) : t \in Seq(Seq(Int))  BY <1>3
  <2> QED  BY <1>3, <1>4, <2>1
<1> HIDE DEF first, last
<1>6. FlattenSeq(s) = FlattenSeq(first) \o last  BY <1>4, <1>5, FlattenAppend
<1>7. FlattenSeq(first) \in Seq(Int)  BY <1>5, FlattenType
<1> DEFINE x == FlattenSeq(first)
<1> HIDE DEF x
<1>8. x \o last \in Seq(Int) /\ x \o last # <<>>
  <2>1. x \in Seq(Int)  BY <1>7 DEF x
  <2>2. Len(last) \in Nat /\ Len(last) # 0  BY <1>5, EmptySequence
  <2>3. x \o last \in Seq(Int) /\ Len(x \o last) = Len(x) + Len(last) /\ Len(x) \in Nat
    BY <1>5, <2>1, ConcatElements
  <2>4. Len(x \o last) # 0  BY <2>2, <2>3
  <2>5. Len(<<>>) = 0  OBVIOUS
  <2> QED  BY <2>3, <2>4, <2>5
<1> QED  BY <1>6, <1>8 DEF WindowValue, x, s

\* The operations of a reduction.
LEMMA ReducerOperations ==
  ASSUME NEW r \in ReducerTypes
  PROVE  /\ \A v \in Values : AddItem(r, v) \in ReducerTypes
         /\ \A w, off \in Nat \ {0} : NextWindow(r, w, off) \in ReducerTypes
<1>1. r.items \in Seq(Values) /\ r.remaining \in Int  BY DEF ReducerTypes
<1>2. ASSUME NEW v \in Values PROVE AddItem(r, v) \in ReducerTypes
  <2>1. Append(r.items, v) \in Seq(Values)  BY <1>1
  <2>2. [r EXCEPT !.remaining = @ - 1] \in ReducerTypes  BY <1>1 DEF ReducerTypes
  <2>3. [r EXCEPT !.items = Append(@, v)] \in ReducerTypes  BY <1>1, <2>1 DEF ReducerTypes
  <2> QED  BY <2>2, <2>3 DEF AddItem
<1>3. ASSUME NEW w \in Nat \ {0}, NEW off \in Nat \ {0} PROVE NextWindow(r, w, off) \in ReducerTypes
  <2>1. SubSeq(r.items, off + 1, Len(r.items)) \in Seq(Values)  BY <1>1
  <2>2. [r EXCEPT !.items = SubSeq(@, off + 1, Len(@))] \in ReducerTypes
    BY <1>1, <2>1 DEF ReducerTypes
  <2>3. [items |-> <<>>, remaining |-> off - w] \in ReducerTypes
    <3>1. <<>> \in Seq(Values)  OBVIOUS
    <3> QED  BY <3>1 DEF ReducerTypes
  <2> QED  BY <2>2, <2>3 DEF NextWindow
<1> QED  BY <1>2, <1>3

\* A value, and the end of the output behind it.
LEMMA ValueAndEnd ==
  ASSUME conf' = conf, NEW th, NEW new, ~Empty(new), new.order >= 0, output_queue(th) # User,
         out'[th] = <<Msg(output_queue(th), new), Msg(output_queue(th), End)>>,
         pc'[th] = "last"
  PROVE  /\ OutgoingOf(th)'
         /\ \A m : Emits(th, m) => m.to = output_queue(th)
<1>1. /\ DOMAIN out'[th] = {1, 2} /\ Len(out'[th]) = 2
      /\ out'[th][1].to = output_queue(th) /\ out'[th][1].item = new
      /\ out'[th][2].to = output_queue(th) /\ out'[th][2].item = End
  BY DEF Msg
<1>2. Empty(End) /\ End.order = -1  BY EndType
<1>3. IsMarker(output_queue(th), End) /\ ~IsMarker(output_queue(th), new)
  BY <1>2 DEF IsMarker
<1>4. IsEndMsg(out'[th][2]) /\ ~IsEndMsg(out'[th][1])
  BY <1>1, <1>3 DEF IsEndMsg
<1>5. /\ output_queue(th)' = output_queue(th) /\ Empty(End)' /\ ~Empty(new)'
      /\ IsEndMsg(out[th][2])' /\ ~IsEndMsg(out[th][1])'
  BY <1>2, <1>4, RolesStay, MarkersStay DEF Empty, End
<1>6. OutgoingOf(th)'
  BY <1>1, <1>5 DEF OutgoingOf, Empty
<1> QED  BY <1>1, <1>4, <1>6 DEF Emits

\* The two messages with which a reduction may end.
LEMMA TwoMessages ==
  ASSUME NEW x \in Messages, NEW y \in Messages
  PROVE  Append(<<x>>, y) = <<x, y>>
<1>1. <<x>> \in Seq(Messages) /\ <<x, y>> \in Seq(Messages)  OBVIOUS
<1>2. Append(<<x>>, y) \in Seq(Messages) /\ Len(Append(<<x>>, y)) = 2  BY <1>1
<1>3. Append(<<x>>, y)[1] = x /\ Append(<<x>>, y)[2] = y  BY <1>1
<1>4. Len(<<x, y>>) = 2 /\ <<x, y>>[1] = x /\ <<x, y>>[2] = y  OBVIOUS
<1>5. \A m \in 1 .. 2 : m = 1 \/ m = 2  OBVIOUS
<1> DEFINE s == Append(<<x>>, y)
           t == <<x, y>>
<1> HIDE DEF s, t
<1>6. s \in Seq(Messages) /\ t \in Seq(Messages) /\ Len(s) = Len(t)
      /\ \A m \in 1 .. Len(s) : s[m] = t[m]
  BY <1>1, <1>2, <1>3, <1>4, <1>5 DEF s, t
<1>7. s = t  BY <1>6, SameElements
<1> QED  BY <1>7 DEF s, t

\* A reduction: with the end marker the last full window may leave too, before the end.
LEMMA ReduceSettles ==
  ASSUME Typed, Orders, Wired, NEW th \in Threads, Reduce(th)
  PROVE  Settled(th)
<1> DEFINE r == reducer[th]
           w == stage(th).window
           full == ReductionNeeded(r, w)
           rest == IF full THEN NextWindow(r, w, stage(th).offset) ELSE r
           new == Item(WindowValue(r), held[th].order)
           red == IF full THEN <<Msg(output_queue(th), new)>> ELSE <<>>
<1>1. PICK item :
        /\ Pops(th, item)
        /\ \/ /\ ~Empty(item)
              /\ reducer' = [reducer EXCEPT ![th] = AddItem(rest, item.value)]
              /\ Then(th, "loop", red)
           \/ /\ Empty(item)
              /\ reducer' = [reducer EXCEPT ![th] = rest]
              /\ Then(th, "last", Append(red, Msg(output_queue(th), End)))
  BY DEF Reduce
<1>2. /\ kind(th) = "reduce" /\ ~IsHost(th) /\ ~OnlyWaits(th) /\ ~IsReplica(th)
  BY DEF Reduce, IsHost, OnlyWaits, IsReplica
<1>3. /\ input_queue(th) \in Queues /\ output_queue(th) # User
      /\ w \in Nat \ {0} /\ stage(th).offset \in Nat \ {0}
  BY <1>2 DEF Wired, Connected
<1>4. /\ conf' = conf /\ done_threads' = done_threads /\ produced' = produced
      /\ held' = [held EXCEPT ![th].order = @ + Len(red)]
      /\ held \in [Threads -> HeldTypes] /\ reducer \in [Threads -> ReducerTypes]
  BY DEF Reduce, Typed, HeldTypes, ReducerTypes
<1>5. item \in Items /\ (~Empty(item) => item.order >= 0)
  BY <1>1, <1>3, <1>4, PopsTakes
<1>6. IsMarker(input_queue(th), item) <=> Empty(item)  BY <1>2, <1>3, EmptyIsMarker
<1>7. rest \in ReducerTypes  BY <1>3, <1>4, ReducerOperations
<1>8. ~Empty(item) => item.value \in Values
  BY <1>5 DEF Items, Values, Empty, NoValue
<1>9. reducer' \in [Threads -> ReducerTypes]
  <2> HIDE DEF rest
  <2>1. ~Empty(item) => AddItem(rest, item.value) \in ReducerTypes
    BY <1>7, <1>8, ReducerOperations
  <2> QED  BY <1>1, <1>4, <1>7, <2>1
<1>10. full => new \in Items /\ ~Empty(new) /\ new.order >= 0
  <2>1. full => WindowValue(r) \in Seq(Int) /\ WindowValue(r) # <<>>
    BY <1>4, WindowType
  <2>2. held[th].order \in Nat  BY <1>4 DEF HeldTypes
  <2> HIDE DEF full, r
  <2> QED  BY <2>1, <2>2 DEF Item, Items, Empty, NoValue
<1>11. \/ red = <<>> /\ ~full
       \/ red = <<Msg(output_queue(th), new)>> /\ full
  OBVIOUS
<1> HIDE DEF full, rest, new, r, w
<1>12. held' \in [Threads -> HeldTypes]
  <2> DEFINE n == Len(red)
             h == held[th]
  <2>1. n \in Nat  BY <1>11
  <2>2. h \in HeldTypes /\ held' = [held EXCEPT ![th] = [h EXCEPT !.order = h.order + n]]
    BY <1>4
  <2> HIDE DEF n, h, red
  <2>3. h.order + n \in Nat  BY <2>1, <2>2 DEF HeldTypes
  <2>4. [h EXCEPT !.order = h.order + n] \in HeldTypes  BY <2>2, <2>3 DEF HeldTypes
  <2> QED  BY <1>4, <2>2, <2>4
<1>13. OwnTypes  BY <1>4, <1>9, <1>12 DEF OwnTypes
<1>14. full => Msg(output_queue(th), new) \in Messages  BY <1>10, MessageTypes
<1>15. CASE ~Empty(item) /\ Then(th, "loop", red)
  <2>1. CASE full
    BY <1>1, <1>2, <1>6, <1>10, <1>11, <1>13, <1>14, <1>15, <2>1, TakesValue
  <2>2. CASE ~full
    <3>1. Then(th, "loop", <<>>)  BY <1>11, <1>15, <2>2
    <3>2. Msg(User, item) \in Messages  BY <1>5, MessageTypes
    <3> QED  BY <1>1, <1>2, <1>5, <1>6, <1>13, <1>15, <3>1, <3>2, TakesValue
  <2> QED  BY <2>1, <2>2
<1>16. CASE Empty(item) /\ Then(th, "last", Append(red, Msg(output_queue(th), End)))
  <2>1. CASE ~full
    <3>1. Append(red, Msg(output_queue(th), End)) = <<Msg(output_queue(th), End)>>
      BY <1>11, <2>1
    <3>2. Then(th, "last", <<Msg(output_queue(th), End)>>)  BY <1>16, <3>1
    <3> QED  BY <1>1, <1>2, <1>3, <1>6, <1>13, <1>16, <3>2, TakesEnd
  <2>2. CASE full
    <3> DEFINE msgs == <<Msg(output_queue(th), new), Msg(output_queue(th), End)>>
    <3>1. Append(red, Msg(output_queue(th), End)) = msgs
      <4>1. Msg(output_queue(th), new) \in Messages /\ Msg(output_queue(th), End) \in Messages
        BY <1>14, <2>2, EndType, MessageTypes
      <4> QED  BY <1>11, <2>2, <4>1, TwoMessages
    <3>2. Then(th, "last", msgs)  BY <1>16, <3>1
    <3>3. msgs \in Seq(Messages) /\ "last" \in Labels
      BY <1>14, <2>2, EndType, MessageTypes DEF Labels
    <3> HIDE DEF msgs, red
    <3>4. PoppedWith(th, item, "last", msgs)
      BY <1>1, <1>2, <1>4, <1>9, <1>12, <3>2, <3>3, PopStep
    <3>5. OutgoingOf(th)' /\ \A m : Emits(th, m) => m.to = output_queue(th)
      BY <1>3, <1>4, <1>10, <2>2, <3>4, ValueAndEnd DEF PoppedWith, msgs
    <3>6. PlaceOf(th)'  BY <1>2, <1>4, <3>4, NextPlace DEF PoppedWith
    <3>7. Leave(th)  BY <1>2, <1>6, <1>16, <3>4, <3>5, PoppedLeave
    <3> QED  BY <1>2, <3>4, <3>5, <3>6, <3>7 DEF Settled, PoppedWith
  <2> QED  BY <2>1, <2>2
<1> QED  BY <1>1, <1>15, <1>16

-----------------------------------------------------------------------------
(* Every step. *)

\* What a push or a call of the user's operation has to do.
Pushed(th) ==
  /\ Frame(th) /\ Typed' /\ OutgoingOf(th)' /\ PlaceOf(th)'
  /\ HandsOver(th) /\ done_threads' = done_threads

\* What has still to be pushed after that.
LEMMA StillOutgoing ==
  ASSUME Typed, Wired, Outgoing, InPlace, NEW th \in Threads, HandsOver(th)
  PROVE  OutgoingOf(th)' /\ PlaceOf(th)'
<1>1. /\ conf' = conf /\ pc'[th] = pc[th] /\ out'[th] = Tail(out[th])
      /\ out[th] \in Seq(Messages) /\ out[th] # <<>>
  BY DEF HandsOver, Frame, Typed, Messages
<1>2. /\ Len(out[th]) \in Nat \ {0} /\ Len(out'[th]) = Len(out[th]) - 1
      /\ \A k \in DOMAIN out'[th] : /\ k \in Nat \ {0} /\ k <= Len(out[th]) - 1
                                    /\ k + 1 \in DOMAIN out[th] /\ out'[th][k] = out[th][k + 1]
      /\ \A k \in DOMAIN out[th] : k # 1 => k - 1 \in DOMAIN out'[th] /\ out'[th][k - 1] = out[th][k]
  BY <1>1, TailOf
<1>3. OutgoingOf(th)'
  <2>1. SUFFICES ASSUME NEW k \in DOMAIN out'[th]
        PROVE  LET m == out'[th][k] IN
               /\ (~Empty(m.item) /\ m.to # User) =>
                    /\ m.item.order >= 0
                    /\ \/ m.to = output_queue(th)
                       \/ kind(th) = "iterate" /\ m.to = input_queue(th)
               /\ (Empty(m.item) /\ m.to # User) =>
                    \/ m.to = output_queue(th)
                    \/ kind(th) = "farm_sink" /\ m.to = input_queue(th)
                    \/ IsReplica(th) /\ m.to = FarmInput(th)
               /\ (IsEndMsg(m) /\ EndedOnce(m.to)) => k = Len(out'[th]) /\ pc'[th] = "last"
               /\ (pc'[th] = "last" /\ ~Empty(m.item) /\ m.to # User) =>
                    \E l \in DOMAIN out'[th] :
                      l > k /\ out'[th][l].to = m.to /\ IsEndMsg(out'[th][l])
    BY <1>1, RolesStay, MarkersStay DEF OutgoingOf, Empty
  <2> DEFINE m == out[th][k + 1]
             j == k + 1
  <2>2. j \in DOMAIN out[th] /\ j \in Nat /\ out'[th][k] = m /\ j # 1 /\ k = j - 1 /\ k \in Nat
    BY <1>2
  <2>3. /\ (~Empty(m.item) /\ m.to # User) =>
             /\ m.item.order >= 0
             /\ m.to = output_queue(th) \/ (kind(th) = "iterate" /\ m.to = input_queue(th))
        /\ (Empty(m.item) /\ m.to # User) =>
             \/ m.to = output_queue(th)
             \/ kind(th) = "farm_sink" /\ m.to = input_queue(th)
             \/ IsReplica(th) /\ m.to = FarmInput(th)
        /\ (IsEndMsg(m) /\ EndedOnce(m.to)) => j = Len(out[th]) /\ pc[th] = "last"
        /\ (pc[th] = "last" /\ ~Empty(m.item) /\ m.to # User) =>
             \E l \in DOMAIN out[th] : l > j /\ out[th][l].to = m.to /\ IsEndMsg(out[th][l])
    BY <2>2 DEF Outgoing, OutgoingOf
  <2> HIDE DEF m, j
  <2>4. ASSUME NEW l \in DOMAIN out[th], l > j
        PROVE  l - 1 \in DOMAIN out'[th] /\ out'[th][l - 1] = out[th][l] /\ l - 1 > k
    <3>1. l \in Nat  BY <1>1
    <3>2. l # 1  BY <2>2, <2>4, <3>1
    <3> QED  BY <1>2, <2>2, <2>4, <3>1, <3>2
  <2>5. (pc'[th] = "last" /\ ~Empty(m.item) /\ m.to # User) =>
          \E l \in DOMAIN out'[th] : l > k /\ out'[th][l].to = m.to /\ IsEndMsg(out'[th][l])
    BY <1>1, <2>3, <2>4
  <2>6. (IsEndMsg(m) /\ EndedOnce(m.to)) => k = Len(out'[th]) /\ pc'[th] = "last"
    BY <1>1, <1>2, <2>2, <2>3
  <2> QED  BY <2>2, <2>3, <2>5, <2>6
<1>4. PlaceOf(th)'
  <2>1. PlaceOf(th)  BY DEF InPlace
  <2>2. \A h \in helpers(th) : Finished(h) => Finished(h)'
    BY DEF HandsOver, Frame, Finished, Wired, Connected
  <2> QED  BY <1>1, <2>1, <2>2, RolesStay DEF PlaceOf, OnlyWaits, IsReplica, IsHost
<1> QED  BY <1>3, <1>4

\* Pushes and calls do that.
LEMMA PushDone ==
  ASSUME Typed, Wired, Outgoing, InPlace, NEW th \in Threads, Push(th) \/ Consume(th)
  PROVE  Pushed(th)
<1>1. /\ conf' = conf /\ done_threads' = done_threads /\ produced' = produced
      /\ held' = held /\ reducer' = reducer /\ pc' = pc
      /\ out[th] # <<>> /\ out' = [out EXCEPT ![th] = Tail(out[th])]
  BY DEF Push, Consume
<1>2. /\ out \in [Threads -> Seq(Messages)] /\ queue \in [Queues -> Seq(Items)]
  BY DEF Typed, Messages
<1>3. Head(out[th]) \in Messages /\ Tail(out[th]) \in Seq(Messages)
  BY <1>1, <1>2, TailOf
<1>4. out' \in [Threads -> Seq(Messages)] /\ out'[th] = Tail(out[th])  BY <1>1, <1>2, <1>3
<1>5. queue' \in [Queues -> Seq(Items)]
  <2>1. CASE Consume(th)  BY <1>2, <2>1 DEF Consume
  <2>2. CASE Push(th)
    <3>1. PICK q, item : /\ q # User /\ Head(out[th]) = [to |-> q, item |-> item] /\ item \in Items
                         /\ queue' = [queue EXCEPT ![q] = Append(@, item)]
      BY <1>3, <2>2 DEF Push, Messages
    <3>2. q \in Queues  BY <1>3, <3>1 DEF Messages
    <3>3. Append(queue[q], item) \in Seq(Items)  BY <1>2, <3>1, <3>2
    <3> QED  BY <1>2, <3>1, <3>2, <3>3
  <2> QED  BY <2>1, <2>2
<1>6. Frame(th)  BY <1>1, <1>2, <1>4, <1>5 DEF Frame, Finished, Queues
<1>7. HandsOver(th)  BY <1>1, <1>4, <1>6 DEF HandsOver
<1>8. Typed'
  <2>1. Threads' = Threads /\ Queues' = Queues  BY <1>6, RolesStay DEF Frame, Queues
  <2> QED  BY <1>1, <1>4, <1>5, <2>1 DEF Typed, Messages
<1>9. OutgoingOf(th)' /\ PlaceOf(th)'  BY <1>7, StillOutgoing
<1> QED  BY <1>1, <1>6, <1>7, <1>8, <1>9 DEF Pushed

\* Every action of a thread is of one of these kinds.
LEMMA StepSettles ==
  ASSUME Typed, Wired, Outgoing, InPlace, Orders, NEW th \in Threads, Step(th)
  PROVE  Settled(th) \/ (Pushed(th) /\ (Push(th) \/ Consume(th)))
BY PushDone, GenerateSettles, StageSettles, HostWorkSettles, FarmCountSettles, FarmEndSettles,
   ContextEndSettles, FarmSinkSettles, OrderSettles, DrainSettles, DrainEndSettles,
   ConsumeUnorderedSettles, FilterSettles, ReduceSettles, IterateSettles, IterateTestSettles,
   IterateAgainSettles
   DEF Step

-----------------------------------------------------------------------------
(* The inductive invariant. *)

\* A step leaves the threads wired.
LEMMA NextWired ==
  ASSUME Wired, NEW th \in Threads, Frame(th)
  PROVE  Wired' /\ Threads' = Threads /\ Queues' = Queues
BY WiredStays, RolesStay DEF Frame, Queues

\* The other threads are where they were; what a host waits for stays finished.
LEMMA NextInPlace ==
  ASSUME InPlace, Wired, NEW th \in Threads, Frame(th), PlaceOf(th)'
  PROVE  InPlace'
<1>1. conf' = conf /\ Threads' = Threads  BY RolesStay DEF Frame
<1>2. ASSUME NEW t \in Threads, t # th PROVE PlaceOf(t)'
  <2>1. PlaceOf(t) /\ pc'[t] = pc[t] /\ out'[t] = out[t]  BY <1>2 DEF InPlace, Frame
  <2>2. \A h \in helpers(t) : Finished(h) => Finished(h)'
    BY DEF Frame, Finished, Wired, Connected
  <2> QED  BY <1>1, <2>1, <2>2, RolesStay DEF PlaceOf, OnlyWaits, IsReplica, IsHost
<1> QED  BY <1>1, <1>2 DEF InPlace

\* The other threads have still to push what they had.
LEMMA NextOutgoing ==
  ASSUME Outgoing, NEW th \in Threads, Frame(th), OutgoingOf(th)'
  PROVE  Outgoing'
<1>1. conf' = conf /\ Threads' = Threads  BY RolesStay DEF Frame
<1>2. ASSUME NEW t \in Threads, t # th PROVE OutgoingOf(t)'
  <2>1. OutgoingOf(t) /\ pc'[t] = pc[t] /\ out'[t] = out[t]  BY <1>2 DEF Outgoing, Frame
  <2> QED  BY <1>1, <2>1, RolesStay, MarkersStay DEF OutgoingOf, Empty
<1> QED  BY <1>1, <1>2 DEF Outgoing

\* The queues after a step that is not a push.
LEMMA SettledQueues ==
  ASSUME Typed, NEW th \in Threads, Settled(th)
  PROVE  queue' = queue \/ \E item : Takes(th, item)
BY DEF Settled, Work, Leave, Finish, FarmEnd

\* The values in the queues come from the threads, which give them orders from 0.
LEMMA NextOrders ==
  ASSUME Orders, Typed, Outgoing, NEW th \in Threads,
         Settled(th) \/ (Pushed(th) /\ (Push(th) \/ Consume(th)))
  PROVE  Orders'
<1>1. Frame(th) /\ conf' = conf /\ DOMAIN queue' = DOMAIN queue
  BY DEF Settled, Pushed, Frame
<1>2. CASE queue' = queue  BY <1>2 DEF Orders, Queues, Empty
<1>3. CASE queue' # queue /\ \E item : Takes(th, item)
  <2>1. PICK item : Takes(th, item)  BY <1>3
  <2>2. input_queue(th) \in Queues  BY <1>3, <2>1 DEF Takes, Typed
  <2>3. \A q \in Queues : \A k \in DOMAIN queue'[q] :
           \E j \in DOMAIN queue[q] : queue'[q][k] = queue[q][j]
    BY <1>1, <2>1, <2>2, TakeKeepsQueue
  <2> QED  BY <1>1, <2>3 DEF Orders, Queues, Empty
<1>4. CASE Push(th)
  <2>1. /\ out[th] \in Seq(Messages) /\ out[th] # <<>> /\ Head(out[th]).to # User
        /\ queue' = [queue EXCEPT ![Head(out[th]).to] = Append(@, Head(out[th]).item)]
    BY <1>4 DEF Push, Typed, Messages
  <2>2. Head(out[th]) \in Messages /\ 1 \in DOMAIN out[th] /\ out[th][1] = Head(out[th])
    BY <2>1, TailOf
  <2> DEFINE q == Head(out[th]).to
             item == Head(out[th]).item
  <2>3. q \in Queues /\ item \in Items  BY <2>1, <2>2 DEF Messages
  <2>4. ~Empty(item) => item.order >= 0  BY <2>1, <2>2 DEF Outgoing, OutgoingOf
  <2> HIDE DEF q, item
  <2>5. queue' = [queue EXCEPT ![q] = Append(@, item)]  BY <2>1 DEF q, item
  <2>6. queue \in [Queues -> Seq(Items)]  BY DEF Typed
  <2>7. queue'[q] = Append(queue[q], item)  BY <2>3, <2>5, <2>6
  <2>8. \A p \in Queues \ {q} : queue'[p] = queue[p]  BY <2>5, <2>6
  <2>9. \A k \in DOMAIN queue'[q] : ~Empty(queue'[q][k]) => queue'[q][k].order >= 0
    <3>1. \A k \in DOMAIN queue'[q] : \/ k \in DOMAIN queue[q] /\ queue'[q][k] = queue[q][k]
                                      \/ k = Len(queue[q]) + 1 /\ queue'[q][k] = item
      BY <1>1, <2>3, <2>6, <2>7, AddedTo
    <3> QED  BY <2>3, <2>4, <3>1 DEF Orders
  <2> QED  BY <1>1, <2>8, <2>9 DEF Orders, Queues, Empty
<1>5. Consume(th) => queue' = queue  BY DEF Consume
<1> QED  BY <1>2, <1>3, <1>4, <1>5, SettledQueues

\* Every edge keeps its one end marker, behind the values.
LEMMA NextEdges ==
  ASSUME EdgesEnded, Wired, Typed, Outgoing, InPlace, Counted, NEW th \in Threads,
         Settled(th) \/ (Pushed(th) /\ (Push(th) \/ Consume(th)))
  PROVE  EdgesEnded'
<1>1. Frame(th) /\ conf' = conf /\ Queues' = Queues
  BY DEF Settled, Pushed, Frame, Queues
<1>2. SUFFICES ASSUME NEW q \in Queues, EndedOnce(q) PROVE OneMarker(q)' /\ ValuesBefore(q)'
  BY <1>1, MarkersStay DEF EdgesEnded
<1>3. OneMarker(q) /\ ValuesBefore(q)  BY <1>2 DEF EdgesEnded
<1>4. queue'[q] = queue[q] => ValuesBefore(q)'
  BY <1>1, <1>3, RolesStay, SameQueue DEF ValuesBefore, Empty
<1>5. CASE Settled(th)
  <2>1. OneMarker(q)'
    <3>1. \A p \in Queues : EndedOnce(p) => OneMarker(p)  BY DEF EdgesEnded
    <3> QED  BY <1>1, <1>2, <1>3, <1>5, <3>1, WorkKeeps, LeaveKeeps, FinishKeeps, FarmEndKeeps
             DEF Settled
  <2>2. ValuesBefore(q)'
    <3>1. CASE queue' = queue  BY <1>4, <3>1
    <3>2. CASE queue' # queue
      <4>1. PICK item : Takes(th, item)  BY <1>5, <3>2, SettledQueues
      <4>2. input_queue(th) \in Queues  BY <3>2, <4>1 DEF Takes, Typed
      <4> QED  BY <1>1, <1>2, <1>3, <4>1, <4>2, TakeKeepsQueue
    <3> QED  BY <3>1, <3>2
  <2> QED  BY <2>1, <2>2
<1>6. CASE Pushed(th) /\ Push(th)
  BY <1>1, <1>2, <1>3, <1>6, PushKeeps, PushKeepsValues
<1>7. CASE Pushed(th) /\ Consume(th)
  <2>1. queue'[q] = queue[q] /\ HandsOver(th)  BY <1>7 DEF Consume, Pushed
  <2> QED  BY <1>2, <1>3, <1>4, <2>1, ConsumeKeeps
<1> QED  BY <1>5, <1>6, <1>7

\* An iteration that has taken the end marker of its queue has it, or the replica that
\* has created the iteration.
LEMMA PastTheEnd ==
  ASSUME Wired, InPlace, NEW th \in Threads, kind(th) = "iterate", pc[th] # "loop", pc[th] # "last",
         NEW q, q = input_queue(th)
  PROVE  \E t \in Holding(q) \cup Kept(q) : t = th \/ (IsReplica(t) /\ FarmInput(t) = q)
<1>1. th \in Readers(q)  BY DEF Readers
<1>2. CASE ~IsFarmInput(q)  BY <1>1, <1>2 DEF Kept
<1>3. CASE IsFarmInput(q)
  <2>1. PICK t \in Threads : IsReplica(t) /\ FarmInput(t) = q /\ th \in Crew(t)
    <3>1. PICK u \in Threads : IsReplica(u) /\ FarmInput(u) = q  BY <1>3 DEF IsFarmInput
    <3>2. th \in Readers(FarmInput(u))  BY <1>1, <3>1
    <3>3. \E t \in Replicas(FarmOf(u)) : th \in Crew(t) /\ FarmInput(t) = FarmInput(u)
      BY <3>1, <3>2 DEF Wired, FarmQueues
    <3> QED  BY <3>1, <3>3 DEF Replicas
  <2>2. t # th  BY <2>1 DEF IsReplica
  <2>3. ~Finished(t)  BY <2>1, <2>2 DEF InPlace, PlaceOf, IsHost, IsReplica, Finished, Crew
  <2>4. t \in Holding(q)  BY <1>1, <2>1, <2>3 DEF Holding, Crew, IsReplica
  <2> QED  BY <2>1, <2>4
<1> QED  BY <1>2, <1>3

\* Where nothing is left a step that is not a push brings nothing: those that feed the
\* queue make no step any more.
LEMMA StaysDry ==
  ASSUME Wired, Typed, NEW th \in Threads, Settled(th), NEW q \in Queues, EndedOnce(q),
         RunDry(q), (kind(th) = "iterate" /\ th \in Readers(q)) => Finish(th)
  PROVE  RunDry(q)'
<1>1. Frame(th) /\ conf' = conf /\ Threads' = Threads /\ pc[th] # "last" /\ OutgoingOf(th)'
  BY RolesStay DEF Settled, Work, Leave, Finish, FarmEnd, Frame
<1>2. \A k \in DOMAIN queue'[q] : Empty(queue'[q][k])
  <2>1. CASE queue' = queue  BY <2>1 DEF RunDry
  <2>2. CASE queue' # queue
    <3>1. PICK item : Takes(th, item)  BY <2>2, SettledQueues
    <3>2. input_queue(th) \in Queues  BY <2>2, <3>1 DEF Takes, Typed
    <3>3. \A k \in DOMAIN queue'[q] : \E j \in DOMAIN queue[q] : queue'[q][k] = queue[q][j]
      BY <1>1, <3>1, <3>2, TakeKeepsQueue
    <3> QED  BY <3>3 DEF RunDry
  <2> QED  BY <2>1, <2>2
<1>3. output_queue(th) # q  BY <1>1 DEF RunDry
<1>4. ASSUME NEW k \in DOMAIN out'[th], out'[th][k].to = q, ~Empty(out'[th][k].item)
      PROVE  FALSE
  <2>1. q # User  BY DEF Wired, Connected
  <2>2. kind(th) = "iterate" /\ input_queue(th) = q
    BY <1>1, <1>3, <1>4, <2>1, RolesStay DEF OutgoingOf, Empty
  <2>3. Finish(th)  BY <2>2 DEF Readers
  <2>4. \E l \in DOMAIN out'[th] : out'[th][l].to = q /\ IsEndMsg(out'[th][l])
    BY <1>1, <1>4, <2>1, <2>3, MarkersStay DEF OutgoingOf, Finish, Empty
  <2> QED  BY <1>3, <2>3, <2>4 DEF Finish, Emits
<1>5. \A t \in Threads \ {th} : pc'[t] = pc[t] /\ out'[t] = out[t]  BY <1>1 DEF Frame
<1> QED  BY <1>1, <1>2, <1>3, <1>4, <1>5, RolesStay DEF RunDry, Empty

\* The end marker a thread takes is behind everything: nothing is left where it was.
LEMMA LeavesDry ==
  ASSUME Wired, Typed, Outgoing, NEW th \in Threads, Leave(th),
         NEW q \in Queues, OneMarker(q), ValuesBefore(q), q = input_queue(th),
         \A r \in Readers(q) : kind(r) # "iterate"
  PROVE  RunDry(q)
<1>1. PICK item : Takes(th, item) /\ IsMarker(q, item)  BY DEF Leave
<1>2. conf' = conf /\ queue \in [Queues -> Seq(Items)] /\ q # User
  BY DEF Leave, Frame, Typed, Wired, Connected
<1>3. 1 \in Markers(q)  BY <1>1, <1>2, TakenFrom
<1>4. \A k \in DOMAIN queue[q] : Empty(queue[q][k])
  <2>1. ASSUME NEW k \in DOMAIN queue[q] PROVE Empty(queue[q][k])
    <3>1. queue[q] \in Seq(Items)  BY <1>2
    <3>2. k \in Nat /\ k >= 1  BY <3>1
    <3>3. Empty(queue[q][k]) \/ k < 1  BY <1>3 DEF ValuesBefore
    <3> QED  BY <3>2, <3>3
  <2> QED  BY <2>1
<1>5. Pending(q) = {} /\ \A w \in Writers(q) : pc[w] = "last"  BY <1>3 DEF OneMarker, Have
<1>6. ASSUME NEW t \in Threads, NEW k \in DOMAIN out[t], out[t][k].to = q, ~Empty(out[t][k].item)
      PROVE  FALSE
  <2>1. t \in Writers(q)
    BY <1>2, <1>6 DEF Outgoing, OutgoingOf, Writers, Readers
  <2>2. \E l \in DOMAIN out[t] : out[t][l].to = q /\ IsEndMsg(out[t][l])
    BY <1>2, <1>5, <1>6, <2>1 DEF Outgoing, OutgoingOf
  <2> QED  BY <1>5, <1>6, <2>2 DEF Pending
<1> QED  BY <1>4, <1>5, <1>6 DEF RunDry, Writers

\* An iteration that has its queue to itself and finds it empty behind the end marker
\* has nothing left to come.
LEMMA FinishesDry ==
  ASSUME Wired, Typed, InPlace, Outgoing, NEW th \in Threads, Finish(th), kind(th) = "iterate",
         NEW q \in Queues, OneMarker(q), q = input_queue(th),
         \A r \in Readers(q) : r = th
  PROVE  RunDry(q)
<1>1. /\ queue[q] = <<>> /\ out[th] = <<>> /\ pc[th] # "loop" /\ pc[th] # "last"
      /\ q # User /\ q # output_queue(th)
  BY DEF Finish, Wired, Connected
<1>2. PICK h \in Holding(q) \cup Kept(q) : h = th \/ (IsReplica(h) /\ FarmInput(h) = q)
  BY <1>1, PastTheEnd
<1>3. /\ \A w \in Writers(q) : pc[w] = "last"
      /\ \A t \in Pending(q) : t = h
  BY <1>2 DEF OneMarker, Have
<1>4. output_queue(h) # q
  BY <1>1, <1>2 DEF Wired, FarmQueues, Holding, Kept, Readers
<1>5. ASSUME NEW t \in Threads, NEW k \in DOMAIN out[t], out[t][k].to = q, ~Empty(out[t][k].item)
      PROVE  FALSE
  <2>1. t # th  BY <1>1, <1>5
  <2>2. t \in Writers(q)
    BY <1>1, <1>5, <2>1 DEF Outgoing, OutgoingOf, Writers, Readers
  <2>3. \E l \in DOMAIN out[t] : out[t][l].to = q /\ IsEndMsg(out[t][l])
    BY <1>1, <1>3, <1>5, <2>2 DEF Outgoing, OutgoingOf
  <2> QED  BY <1>3, <1>4, <1>5, <2>2, <2>3 DEF Pending, Writers
<1> QED  BY <1>1, <1>3, <1>5 DEF RunDry, Writers

\* A push or a call brings no value where none is left to come.
LEMMA PushStaysDry ==
  ASSUME Typed, NEW th \in Threads, Pushed(th), Push(th) \/ Consume(th),
         NEW q \in Queues, RunDry(q)
  PROVE  RunDry(q)'
<1>1. /\ Frame(th) /\ conf' = conf /\ Threads' = Threads
      /\ pc'[th] = pc[th] /\ out'[th] = Tail(out[th])
      /\ out[th] \in Seq(Messages) /\ out[th] # <<>>
  BY RolesStay DEF Pushed, HandsOver, Frame, Typed, Messages
<1>2. /\ \A k \in DOMAIN out'[th] : k + 1 \in DOMAIN out[th] /\ out'[th][k] = out[th][k + 1]
      /\ 1 \in DOMAIN out[th] /\ out[th][1] = Head(out[th]) /\ Head(out[th]) \in Messages
  BY <1>1, TailOf
<1>3. \A t \in Threads : /\ pc'[t] = pc[t]
                          /\ \A k \in DOMAIN out'[t] : out'[t][k].to = q => Empty(out'[t][k].item)
  <2>1. \A k \in DOMAIN out[th] : out[th][k].to = q => Empty(out[th][k].item)  BY DEF RunDry
  <2>2. \A k \in DOMAIN out'[th] : out'[th][k].to = q => Empty(out'[th][k].item)
    BY <1>2, <2>1
  <2>3. \A t \in Threads \ {th} : pc'[t] = pc[t] /\ out'[t] = out[t]  BY <1>1 DEF Frame
  <2> QED  BY <1>1, <2>2, <2>3 DEF RunDry
<1>4. \A k \in DOMAIN queue'[q] : Empty(queue'[q][k])
  <2>1. CASE queue'[q] = queue[q]  BY <2>1 DEF RunDry
  <2>2. CASE queue'[q] # queue[q]
    <3> DEFINE item == Head(out[th]).item
    <3>1. queue'[q] = Append(queue[q], item) /\ Head(out[th]).to = q
      BY <2>2 DEF Push, Consume, Typed
    <3>2. item \in Items /\ Empty(item)  BY <1>2, <3>1 DEF Messages, RunDry
    <3> HIDE DEF item
    <3>3. \A k \in DOMAIN queue'[q] : \/ k \in DOMAIN queue[q] /\ queue'[q][k] = queue[q][k]
                                      \/ k = Len(queue[q]) + 1 /\ queue'[q][k] = item
      BY <1>1, <3>1, <3>2, AddedTo DEF Typed
    <3> QED  BY <3>2, <3>3 DEF RunDry
  <2> QED  BY <2>1, <2>2
<1> QED  BY <1>1, <1>3, <1>4, RolesStay DEF RunDry, Empty

\* In front of a thread that has left nothing is left.
LEMMA NextNothingLeft ==
  ASSUME NothingLeft, EdgesEnded, Wired, Typed, Outgoing, InPlace, NEW th \in Threads,
         Settled(th) \/ (Pushed(th) /\ (Push(th) \/ Consume(th)))
  PROVE  NothingLeft'
<1>1. Frame(th) /\ conf' = conf /\ DOMAIN queue' = DOMAIN queue
  BY DEF Settled, Pushed, Frame
<1>2. SUFFICES ASSUME NEW q \in Queues, EndedOnce(q),
                      \A r, s \in Readers(q) : kind(r) = "iterate" => r = s,
                      NEW r \in Readers(q), HasLeft(r)'
               PROVE  RunDry(q)'
  BY <1>1, RolesStay, MarkersStay DEF NothingLeft, NothingLeftOn, Queues
<1>3. OneMarker(q) /\ ValuesBefore(q)  BY <1>2 DEF EdgesEnded
<1>4. (\E s \in Readers(q) : HasLeft(s)) => RunDry(q)
  BY <1>2 DEF NothingLeft, NothingLeftOn, Queues
<1>5. r \in Threads /\ input_queue(r) = q /\ q # User  BY DEF Readers, Wired, Connected
<1>6. r # th => HasLeft(r)  BY <1>1, <1>2, <1>5, RolesStay DEF HasLeft, Frame
<1>7. CASE Pushed(th) /\ (Push(th) \/ Consume(th))
  <2>1. pc'[th] = pc[th]  BY <1>7 DEF Pushed, HandsOver
  <2>2. HasLeft(r)  BY <1>1, <1>2, <1>6, <2>1, RolesStay DEF HasLeft
  <2> QED  BY <1>4, <1>7, <2>2, PushStaysDry
<1>8. CASE Settled(th) /\ HasLeft(r)
  <2>1. pc[th] # "last"  BY <1>8 DEF Settled, Work, Leave, Finish, FarmEnd
  <2>2. ~(kind(th) = "iterate" /\ th \in Readers(q))  BY <1>2, <1>8, <2>1 DEF HasLeft
  <2> QED  BY <1>2, <1>4, <1>8, <2>2, StaysDry
<1>9. CASE Settled(th) /\ ~HasLeft(r)
  <2>1. r = th  BY <1>6, <1>9
  <2>2. CASE kind(th) = "iterate"
    <3>1. pc[th] # "last" /\ pc'[th] = "last"
      BY <1>1, <1>2, <1>9, <2>1, <2>2, RolesStay DEF HasLeft
    <3>2. Finish(th)
      BY <1>9, <2>2, <3>1 DEF Settled, Work, Leave, FarmEnd, InPlace, PlaceOf, IsReplica
    <3>3. \A s \in Readers(q) : s = th  BY <1>2, <2>1, <2>2
    <3>4. RunDry(q)  BY <1>3, <1>5, <2>1, <2>2, <3>2, <3>3, FinishesDry
    <3> QED  BY <1>2, <1>9, <3>2, <3>4, StaysDry
  <2>3. CASE kind(th) # "iterate"
    <3>1. pc[th] = "loop" /\ pc'[th] # "loop"
      BY <1>1, <1>2, <1>9, <2>1, <2>3, RolesStay DEF HasLeft
    <3>2. kind(th) # "generate"  BY <1>5, <2>1 DEF Wired, Connected
    <3>3. Leave(th)  BY <1>9, <3>1, <3>2 DEF Settled, Work, Finish, FarmEnd
    <3>4. \A s \in Readers(q) : kind(s) # "iterate"  BY <1>2, <2>1, <2>3
    <3>5. RunDry(q)  BY <1>3, <1>5, <2>1, <3>3, <3>4, LeavesDry
    <3> QED  BY <1>2, <1>9, <2>3, <3>5, StaysDry
  <2> QED  BY <2>2, <2>3
<1> QED  BY <1>7, <1>8, <1>9

\* The counter of a farm goes up with the replica that leaves.
LEMMA NextCounted ==
  ASSUME Counted, Wired, Typed, NEW th \in Threads, Settled(th) \/ Pushed(th)
  PROVE  Counted'
<1> DEFINE Out(f) == {t \in Replicas(f) : pc[t] \in {"test", "last"}}
           OutNext(f) == {t \in Replicas(f) : pc'[t] \in {"test", "last"}}
<1>1. Frame(th) /\ conf' = conf /\ Threads' = Threads
  BY RolesStay DEF Settled, Pushed, Frame
<1>2. SUFFICES ASSUME NEW t \in Threads, IsReplica(t)
               PROVE  done_threads'[FarmOf(t)] = Cardinality(OutNext(FarmOf(t)))
  BY <1>1, RolesStay DEF Counted, FarmOf
<1>3. done_threads[FarmOf(t)] = Cardinality(Out(FarmOf(t)))  BY <1>2 DEF Counted
<1>4. CASE /\ done_threads' = done_threads
           /\ IsReplica(th) => (pc'[th] \in {"test", "last"} <=> pc[th] \in {"test", "last"})
  <2>1. OutNext(FarmOf(t)) = Out(FarmOf(t))
    BY <1>1, <1>4 DEF Frame, Replicas
  <2> QED  BY <1>3, <1>4, <2>1
<1>5. CASE FarmCount(th)
  <2>1. /\ IsReplica(th) /\ pc[th] = "join" /\ pc'[th] = "test"
        /\ done_threads' = [done_threads EXCEPT ![FarmOf(th)] = @ + 1]
    BY <1>5 DEF FarmCount, Joined, IsReplica, Typed
  <2>2. CASE FarmOf(t) # FarmOf(th)
    <3>1. OutNext(FarmOf(t)) = Out(FarmOf(t))
      BY <1>1, <2>2 DEF Frame, Replicas
    <3>2. done_threads'[FarmOf(t)] = done_threads[FarmOf(t)]
      BY <2>1, <2>2, <1>2 DEF Typed, Wired, FarmQueues
    <3> QED  BY <1>3, <3>1, <3>2
  <2>3. CASE FarmOf(t) = FarmOf(th)
    <3> DEFINE f == FarmOf(th)
    <3>1. OutNext(f) = Out(f) \cup {th} /\ th \notin Out(f)
      BY <1>1, <2>1 DEF Frame, Replicas
    <3>2. IsFiniteSet(Out(f))
      <4>1. IsFiniteSet(Replicas(f)) /\ Out(f) \subseteq Replicas(f)
        BY <2>1 DEF Wired, FarmQueues
      <4> HIDE DEF Out, f
      <4> QED  BY <4>1, FS_Subset
    <3>3. Cardinality(OutNext(f)) = Cardinality(Out(f)) + 1
      <4> HIDE DEF Out, OutNext, f
      <4> QED  BY <3>1, <3>2, FS_AddElement
    <3>4. done_threads'[f] = done_threads[f] + 1
      BY <2>1 DEF Typed, Wired, FarmQueues
    <3> QED  BY <1>3, <2>3, <3>3, <3>4
  <2> QED  BY <2>2, <2>3
<1>6. Pushed(th) => /\ done_threads' = done_threads
                    /\ pc'[th] = pc[th]
  BY DEF Pushed, HandsOver
<1> QED  BY <1>4, <1>5, <1>6 DEF Settled

\* The invariant is about these variables.
LEMMA StutterKeeps ==
  ASSUME IInv, UNCHANGED vars
  PROVE  IInv'
<1>1. /\ conf' = conf /\ queue' = queue /\ pc' = pc /\ out' = out /\ produced' = produced
      /\ held' = held /\ reducer' = reducer /\ done_threads' = done_threads
  BY DEF vars
<1>2. Threads' = Threads /\ Queues' = Queues  BY <1>1, RolesStay DEF Queues
<1>3. Wired'  BY <1>1, WiredStays DEF IInv
<1>4. Typed'  BY <1>1, <1>2 DEF IInv, Typed
<1>5. InPlace'
  BY <1>1, <1>2, RolesStay DEF IInv, InPlace, PlaceOf, Finished, OnlyWaits, IsReplica, IsHost
<1>6. Outgoing' /\ Orders'
  BY <1>1, <1>2, RolesStay, MarkersStay DEF IInv, Outgoing, OutgoingOf, Orders, Empty
<1>7. Counted'  BY <1>1, <1>2, RolesStay DEF IInv, Counted, FarmOf
<1>8. ASSUME NEW q \in Queues, EndedOnce(q) PROVE OneMarker(q)' /\ ValuesBefore(q)'
  <2>1. OneMarker(q) /\ ValuesBefore(q)  BY <1>8 DEF IInv, EdgesEnded
  <2>2. Markers(q)' = Markers(q)  BY <1>1, SameQueue
  <2>3. Pending(q)' = Pending(q) /\ Kept(q)' = Kept(q) /\ Holding(q)' = Holding(q)
    BY <1>1, <1>2, RolesStay, MarkersStay DEF Pending, Kept, Holding, Finished
  <2>4. Have(q)' = Have(q) /\ Writers(q)' = Writers(q)  BY <1>1, <2>3, RolesStay DEF Have
  <2>5. OneMarker(q)'  BY <1>1, <2>1, <2>2, <2>4 DEF OneMarker
  <2>6. ValuesBefore(q)'  BY <1>1, <2>1, <2>2, RolesStay DEF ValuesBefore, Empty
  <2> QED  BY <2>5, <2>6
<1>9. EdgesEnded'  BY <1>1, <1>2, <1>8, MarkersStay DEF EdgesEnded
<1>10. NothingLeft'
  BY <1>1, <1>2, RolesStay, MarkersStay
     DEF IInv, NothingLeft, NothingLeftOn, RunDry, HasLeft, Empty, Queues
<1> QED  BY <1>3, <1>4, <1>5, <1>6, <1>7, <1>9, <1>10 DEF IInv

\* Each kind of step keeps it.
LEMMA SettledKeeps ==
  ASSUME IInv, NEW th \in Threads, Settled(th) \/ (Pushed(th) /\ (Push(th) \/ Consume(th)))
  PROVE  IInv'
<1>1. /\ Typed /\ Wired /\ Outgoing /\ InPlace /\ Orders /\ Counted /\ EdgesEnded
      /\ NothingLeft
  BY DEF IInv
<1>2. Frame(th) /\ Typed' /\ OutgoingOf(th)' /\ PlaceOf(th)'
  BY DEF Settled, Pushed
<1> QED  BY <1>1, <1>2, NextWired, NextInPlace, NextOutgoing, NextOrders, NextEdges,
            NextCounted, NextNothingLeft DEF IInv

\* So every step does.
LEMMA NextKeeps == IInv /\ [Next]_vars => IInv'
<1> SUFFICES ASSUME IInv, [Next]_vars PROVE IInv'  OBVIOUS
<1>1. CASE UNCHANGED vars  BY <1>1, StutterKeeps
<1>2. ASSUME NEW th \in Threads, Step(th) PROVE IInv'
  <2>1. Typed /\ Wired /\ Outgoing /\ InPlace /\ Orders  BY DEF IInv
  <2> QED  BY <1>2, <2>1, StepSettles, SettledKeeps
<1>3. CASE Return  BY <1>3, StutterKeeps DEF Return
<1> QED  BY <1>1, <1>2, <1>3 DEF Next

-----------------------------------------------------------------------------
(* What the invariant says of the pipeline. *)

\* The number of elements of a set of which all are equal.
LEMMA AtMostOne ==
  ASSUME NEW S, \A x, y \in S : x = y
  PROVE  Cardinality(S) \in {0, 1} /\ (S = {} => Cardinality(S) = 0)
<1>1. CASE S = {}  BY <1>1, FS_EmptySet
<1>2. CASE S # {}
  <2>1. PICK x \in S : S = {x}  BY <1>2
  <2> QED  BY <2>1, FS_Singleton
<1> QED  BY <1>1, <1>2

\* One marker: in the queue or held.
LEMMA InvOneEndMarker == IInv => OneEndMarker
<1> SUFFICES ASSUME IInv, NEW q \in DOMAIN queue, EndedOnce(q)
             PROVE  Cardinality(Markers(q)) + Cardinality(Holding(q)) <= 1
  BY DEF OneEndMarker
<1>1. OneMarker(q)  BY DEF IInv, EdgesEnded, Queues
<1>2. /\ \A k, l \in Markers(q) : k = l
      /\ \A t, u \in Holding(q) : t = u
      /\ Markers(q) # {} => Holding(q) = {}
  BY <1>1 DEF OneMarker, Have
<1>3. Cardinality(Markers(q)) \in {0, 1} /\ (Markers(q) = {} => Cardinality(Markers(q)) = 0)
  BY <1>2, AtMostOne
<1>4. Cardinality(Holding(q)) \in {0, 1} /\ (Holding(q) = {} => Cardinality(Holding(q)) = 0)
  BY <1>2, AtMostOne
<1> QED  BY <1>2, <1>3, <1>4

\* Behind the end marker an iteration has the one of its queue, so none is left there.
LEMMA InvNoEndLeft == IInv => NoEndLeft
<1> SUFFICES ASSUME IInv, NEW th \in Threads, pc[th] \in {"again", "again_pop"},
                    EndedOnce(input_queue(th)),
                    NEW k \in DOMAIN queue[input_queue(th)], Empty(queue[input_queue(th)][k])
             PROVE  FALSE
  BY DEF NoEndLeft
<1> DEFINE q == input_queue(th)
<1>1. /\ kind(th) = "iterate" /\ q \in Queues /\ th \in Readers(q) /\ Wired /\ InPlace
      /\ OneMarker(q)
  <2>1. PlaceOf(th) /\ Wired /\ InPlace  BY DEF IInv, InPlace
  <2>2. kind(th) = "iterate"  BY <2>1 DEF PlaceOf
  <2>3. q \in Queues  BY <2>1, <2>2 DEF Wired, Connected, OnlyWaits, IsHost
  <2> QED  BY <2>1, <2>2, <2>3 DEF IInv, EdgesEnded, Readers
<1>2. Markers(q) # {}
  <2>1. IsMarker(q, queue[q][k])  BY <1>1, EmptyIsMarker
  <2> QED  BY <2>1 DEF Markers
<1>3. Holding(q) = {} /\ Kept(q) = {}  BY <1>1, <1>2 DEF OneMarker, Have
<1> QED  BY <1>1, <1>3, PastTheEnd

\* The end marker is behind the values, and the threads that feed the queue are done.
LEMMA InvEndIsLast == IInv => \A q \in Queues : EndedOnce(q) => EndIsLastOn(q)
<1> SUFFICES ASSUME IInv, NEW q \in Queues, EndedOnce(q), Markers(q) # {},
                    \A th \in Readers(q) : kind(th) # "iterate"
             PROVE  /\ \A m \in Markers(q), k \in DOMAIN queue[q] : Empty(queue[q][k]) \/ k < m
                    /\ \A th \in Threads : output_queue(th) = q =>
                         \A k \in DOMAIN out[th] : out[th][k].to = q => Empty(out[th][k].item)
  BY DEF EndIsLastOn
<1>1. OneMarker(q) /\ ValuesBefore(q) /\ User \notin Queues
  BY DEF IInv, EdgesEnded, Wired, Connected
<1>2. \A m \in Markers(q), k \in DOMAIN queue[q] : Empty(queue[q][k]) \/ k < m
  BY <1>1 DEF ValuesBefore
<1>3. ASSUME NEW th \in Threads, output_queue(th) = q,
             NEW k \in DOMAIN out[th], out[th][k].to = q, ~Empty(out[th][k].item)
      PROVE  FALSE
  <2>1. pc[th] = "last" /\ Pending(q) = {}  BY <1>1, <1>3 DEF OneMarker, Have, Writers
  <2>2. \E l \in DOMAIN out[th] : out[th][l].to = q /\ IsEndMsg(out[th][l])
    BY <1>1, <1>3, <2>1 DEF IInv, Outgoing, OutgoingOf
  <2> QED  BY <2>1, <2>2 DEF Pending
<1> QED  BY <1>2, <1>3

-----------------------------------------------------------------------------
(* What an earlier pipeline has left in a reduction. *)

\* g feeds the values of s at the positions in a subset of 1 .. n, the last one last.
Feeds(g, base, s, stg, n) ==
  g = [d \in SUBSET (1 .. n) |->
         IF d = {} THEN base ELSE Feed(g[d \ {Max(d)}], s[Max(d)], stg)]

\* The function that FoldLeft defines exists.
LEMMA FeedsExists ==
  ASSUME NEW base, NEW s, NEW stg, NEW n \in Nat
  PROVE  \E g : Feeds(g, base, s, stg, n)
<1> DEFINE D == {k \in Nat : \E g : Feeds(g, base, s, stg, k)}
<1>1. 0 \in D
  <2> DEFINE e == [d \in SUBSET (1 .. 0) |-> base]
  <2>1. SUBSET (1 .. 0) = {{}}  OBVIOUS
  <2>2. e = [d \in SUBSET (1 .. 0) |-> IF d = {} THEN base ELSE Feed(e[d \ {Max(d)}], s[Max(d)], stg)]
    BY <2>1
  <2>3. Feeds(e, base, s, stg, 0)  BY <2>2 DEF Feeds
  <2> QED  BY <2>3
<1>2. ASSUME NEW k \in Nat, k \in D PROVE k + 1 \in D
  <2>1. PICK g : Feeds(g, base, s, stg, k)  BY <1>2
  <2> DEFINE T == SUBSET (1 .. k + 1)
             h == [d \in T |-> IF k + 1 \in d THEN Feed(g[d \ {k + 1}], s[k + 1], stg) ELSE g[d]]
             r == [d \in T |-> IF d = {} THEN base ELSE Feed(h[d \ {Max(d)}], s[Max(d)], stg)]
  <2>2. ASSUME NEW d \in T PROVE h[d] = r[d]
    <3>1. CASE k + 1 \in d
      <4>1. Max(d) = k + 1  BY <3>1, LastPosition
      <4>2. d \ {k + 1} \in T /\ k + 1 \notin d \ {k + 1} /\ d # {}  BY <3>1
      <4>3. h[d \ {k + 1}] = g[d \ {k + 1}]  BY <4>2
      <4> QED  BY <3>1, <4>1, <4>2, <4>3
    <3>2. CASE k + 1 \notin d
      <4>1. d \in SUBSET (1 .. k)
        <5>1. \A x \in 1 .. k + 1 : x # k + 1 => x \in 1 .. k  OBVIOUS
        <5> QED  BY <3>2, <5>1
      <4>2. g[d] = IF d = {} THEN base ELSE Feed(g[d \ {Max(d)}], s[Max(d)], stg)
        BY <2>1, <4>1 DEF Feeds
      <4>3. d \ {Max(d)} \in T /\ k + 1 \notin d \ {Max(d)}  BY <3>2
      <4>4. h[d] = g[d] /\ h[d \ {Max(d)}] = g[d \ {Max(d)}]  BY <3>2, <4>3
      <4> QED  BY <4>2, <4>4
    <3> QED  BY <3>1, <3>2
  <2>3. h = r
    <3> DEFINE v(d) == IF k + 1 \in d THEN Feed(g[d \ {k + 1}], s[k + 1], stg) ELSE g[d]
               w(d) == IF d = {} THEN base ELSE Feed(h[d \ {Max(d)}], s[Max(d)], stg)
    <3>1. \A d \in T : v(d) = w(d)  BY <2>2
    <3>2. h = [d \in T |-> v(d)] /\ r = [d \in T |-> w(d)]  OBVIOUS
    <3> HIDE DEF v, w, h, r, T
    <3> QED  BY <3>1, <3>2
  <2>4. Feeds(h, base, s, stg, k + 1)  BY <2>3 DEF Feeds
  <2> QED  BY <2>4
<1> HIDE DEF D
<1>3. Nat \subseteq D  BY <1>1, <1>2, SetInduction
<1> QED  BY <1>3 DEF D

\* Feeding keeps the type of the reduction.
FeedTypes == [r : ReducerTypes, outs : Seq(Seq(Int))]

\* One value.
LEMMA FeedType ==
  ASSUME NEW x \in FeedTypes, NEW v \in Values,
         NEW stg, stg.window \in Nat \ {0}, stg.offset \in Nat \ {0}
  PROVE  Feed(x, v, stg) \in FeedTypes
<1> DEFINE r == AddItem(x.r, v)
           next == NextWindow(r, stg.window, stg.offset)
           outs == Append(x.outs, WindowValue(r))
<1>1. x.r \in ReducerTypes /\ x.outs \in Seq(Seq(Int))  BY DEF FeedTypes
<1>2. r \in ReducerTypes  BY <1>1, ReducerOperations
<1> HIDE DEF r
<1>3. next \in ReducerTypes  BY <1>2, ReducerOperations
<1>4. ReductionNeeded(r, stg.window) => outs \in Seq(Seq(Int))
  BY <1>1, <1>2, WindowType
<1> HIDE DEF next, outs
<1>5. ReductionNeeded(r, stg.window) => [r |-> next, outs |-> outs] \in FeedTypes
  BY <1>3, <1>4 DEF FeedTypes
<1>6. [x EXCEPT !.r = r] \in FeedTypes  BY <1>2 DEF FeedTypes
<1> QED  BY <1>5, <1>6 DEF Feed, r, next, outs

\* The reduction object is well-typed whatever it has been given before.
LEMMA InitialReduceType ==
  ASSUME NEW stg, stg.window \in Nat \ {0}, stg.offset \in Nat \ {0}, stg.before \in Nat
  PROVE  InitialReduce(stg) \in ReducerTypes
<1> DEFINE n == stg.before
           s == [k \in 1 .. n |-> <<1 - k>>]
           base == [r |-> EmptyReduce, outs |-> <<>>]
           g == CHOOSE f : Feeds(f, base, s, stg, n)
<1>1. DOMAIN s = 1 .. n /\ n \in Nat  OBVIOUS
<1>2. Feeds(g, base, s, stg, n)  BY <1>1, FeedsExists
<1>3. InitialReduce(stg) = g[1 .. n].r
  BY <1>1 DEF InitialReduce, FeedAll, FoldLeft, MapThenFoldSet, Feeds
<1>4. base \in FeedTypes
  <2>1. <<>> \in Seq(Values) /\ <<>> \in Seq(Seq(Int))  OBVIOUS
  <2> QED  BY <2>1 DEF FeedTypes, ReducerTypes, EmptyReduce
<1>5. \A k \in 1 .. n : s[k] \in Values
  <2>1. ASSUME NEW k \in 1 .. n PROVE <<1 - k>> \in Seq(Int) /\ <<1 - k>> # <<>>
    <3>1. 1 - k \in Int  OBVIOUS
    <3> QED  BY <3>1
  <2> QED  BY <2>1 DEF Values
<1> DEFINE D == {k \in Nat : k <= n => g[1 .. k] \in FeedTypes}
<1> HIDE DEF s, base, g
<1>6. 0 \in D
  <2>1. 1 .. 0 = {} /\ {} \in SUBSET (1 .. n)  OBVIOUS
  <2>2. g[{}] = base  BY <1>2, <2>1 DEF Feeds
  <2> QED  BY <1>4, <2>1, <2>2
<1>7. ASSUME NEW k \in Nat, k \in D PROVE k + 1 \in D
  <2> SUFFICES ASSUME k + 1 <= n PROVE g[1 .. k + 1] \in FeedTypes  OBVIOUS
  <2> DEFINE d == 1 .. k + 1
  <2>1. /\ d \in SUBSET (1 .. k + 1) /\ d \in SUBSET (1 .. n) /\ k + 1 \in d
        /\ d \ {k + 1} = 1 .. k /\ d # {} /\ k + 1 \in 1 .. n /\ k <= n
    <3>1. \A y : y \in d <=> (y \in 1 .. k \/ y = k + 1)  OBVIOUS
    <3>2. \A y \in d : y \in 1 .. n  BY <1>1
    <3>3. k + 1 \notin 1 .. k  OBVIOUS
    <3>4. d \in SUBSET (1 .. k + 1) /\ k + 1 \in 1 .. n /\ k <= n  BY <1>1
    <3> HIDE DEF d, n
    <3> QED  BY <3>1, <3>2, <3>3, <3>4
  <2>2. Max(d) = k + 1  BY <2>1, LastPosition
  <2> HIDE DEF d
  <2>3. g[d] = IF d = {} THEN base ELSE Feed(g[d \ {Max(d)}], s[Max(d)], stg)
    BY <1>2, <2>1 DEF Feeds
  <2>4. g[d] = Feed(g[1 .. k], s[k + 1], stg)  BY <2>1, <2>2, <2>3
  <2>5. g[1 .. k] \in FeedTypes  BY <1>7, <2>1
  <2>6. s[k + 1] \in Values  BY <1>5, <2>1
  <2> QED  BY <2>4, <2>5, <2>6, FeedType DEF d
<1> HIDE DEF D
<1>8. Nat \subseteq D  BY <1>6, <1>7, SetInduction
<1>9. g[1 .. n] \in FeedTypes  BY <1>1, <1>8 DEF D
<1> QED  BY <1>3, <1>9 DEF FeedTypes

-----------------------------------------------------------------------------
(* The start: the threads are linked as PipelineLinked says. *)

\* The state holds the threads R, the queues between them and the counters of farms.
Carries(R) ==
  /\ Threads = Ids(R)
  /\ \A r \in R : conf.role[r.id] = r
  /\ Queues = {x \in {r.in : r \in R} \cup {r.out : r \in R} : x # User}
  /\ \A r \in R : r.kind = "replica" => Front(r.id) \in DOMAIN done_threads

\* What the operators of the model say of thread r.
LEMMA ReadRole ==
  ASSUME NEW R, Carries(R)
  PROVE  /\ \A th \in Threads : \E r \in R : r.id = th
         /\ \A r \in R :
              /\ r.id \in Threads
              /\ kind(r.id) = r.kind /\ stage(r.id) = r.stage
              /\ input_queue(r.id) = r.in /\ output_queue(r.id) = r.out
              /\ helpers(r.id) = r.helpers /\ Crew(r.id) = CrewOf(r)
              /\ OnlyWaits(r.id) <=> Waits(r)
              /\ IsReplica(r.id) <=> r.kind = "replica"
              /\ FarmOf(r.id) = Front(r.id)
<1>1. \A th \in Threads : \E r \in R : r.id = th  BY DEF Carries, Ids
<1>2. \A r \in R : r.id \in Threads /\ conf.role[r.id] = r  BY DEF Carries, Ids
<1>3. \A r \in R : /\ kind(r.id) = r.kind /\ stage(r.id) = r.stage
                   /\ input_queue(r.id) = r.in /\ output_queue(r.id) = r.out
                   /\ helpers(r.id) = r.helpers
  BY <1>2 DEF kind, stage, input_queue, output_queue, helpers
<1> QED  BY <1>1, <1>2, <1>3 DEF Crew, CrewOf, OnlyWaits, IsHost, Waits, Hosts, IsReplica, FarmOf

\* The queue of a farm is the one its replicas are fed from.
LEMMA FedFarm ==
  ASSUME NEW R, Carries(R), \A c \in R : LinkedRole(R, c),
         NEW r \in R, NEW q, Fed(R, r, q)
  PROVE  FarmInput(r.id) = q
<1> DEFINE S == {input_queue(h) : h \in helpers(r.id) \cup {r.id}}
<1>1. helpers(r.id) \cup {r.id} = CrewOf(r)  BY ReadRole DEF CrewOf
<1>2. \A h \in CrewOf(r) : \E c \in R : c.id = h
  BY DEF CrewOf, LinkedRole, Ids
<1>3. q \in S
  <2>1. PICK c \in R : c.id \in CrewOf(r) /\ c.in = q  BY DEF Fed
  <2>2. input_queue(c.id) = q  BY <2>1, ReadRole
  <2> QED  BY <1>1, <2>1, <2>2
<1>4. ASSUME NEW x \in S, x # User, Len(x) < Len(r.id) PROVE x = q
  <2>1. PICK h \in CrewOf(r) : x = input_queue(h)  BY <1>1
  <2>2. PICK c \in R : c.id = h  BY <1>2
  <2>3. x = c.in  BY <2>1, <2>2, ReadRole
  <2>4. ~(Len(r.id) <= Len(x))
    <3>1. r.id \in Paths /\ c.in \in Paths  BY DEF LinkedRole
    <3>2. Len(r.id) \in Nat /\ Len(x) \in Nat  BY <2>3, <3>1 DEF Paths
    <3> QED  BY <1>4, <3>2
  <2> QED  BY <1>4, <2>1, <2>2, <2>3, <2>4 DEF Fed
<1>5. q # User /\ Len(q) < Len(r.id)  BY DEF Fed
<1> QED  BY <1>3, <1>4, <1>5 DEF FarmInput

\* Linked threads are wired.
LEMMA WiredFirst ==
  ASSUME NEW R, Carries(R), Linked(R, conf.ordered)
  PROVE  Wired
<1>1. /\ \A r, s \in R : r.id = s.id => r = s
      /\ \A r \in R : LinkedRole(R, r) /\ LinkedFilter(R, r, conf.ordered)
      /\ \A v, w \in R : LinkedWriters(R, v, w)
      /\ \A r \in R : r.kind = "replica" => LinkedReplica(R, r)
  BY DEF Linked, LinkedThreads, Farmed
<1>2. \A th \in Threads : \E r \in R : r.id = th  BY ReadRole
<1>3. \A r \in R : r.id \in Threads  BY ReadRole
<1>4. Queues = {x \in {r.in : r \in R} \cup {r.out : r \in R} : x # User}  BY DEF Carries
<1>5. \A q \in Queues : q \in Paths /\ q # User
  BY <1>1, <1>4 DEF LinkedRole
<1>6. \A x \in Paths : x # User => x[1] \in Nat  BY DEF Paths, User
<1>7. ASSUME NEW r \in R, r.kind = "replica"
      PROVE  /\ Fed(R, r, FarmInput(r.id))
             /\ FarmInput(r.id) \in {c.in : c \in R} /\ FarmInput(r.id) # User
             /\ FarmInput(r.id) # r.out /\ FarmInput(r.id)[1] <= r.out[1]
             /\ \A c \in R : c.in = FarmInput(r.id) =>
                  /\ c.kind \notin {"farm_sink", "reorder"}
                  /\ \E t \in R : OfOneFarm(t, r) /\ c.id \in CrewOf(t)
             /\ \A t \in R : OfOneFarm(t, r) => FarmInput(t.id) = FarmInput(r.id)
  <2>1. PICK q \in {c.in : c \in R} :
          /\ Fed(R, r, q)
          /\ q # r.out /\ q[1] <= r.out[1]
          /\ \A c \in R : c.in = q =>
               /\ c.kind \notin {"farm_sink", "reorder"}
               /\ \E t \in R : OfOneFarm(t, r) /\ c.id \in CrewOf(t)
          /\ \A t \in R : OfOneFarm(t, r) => Fed(R, t, q)
    BY <1>1, <1>7 DEF LinkedReplica
  <2>2. FarmInput(r.id) = q  BY <1>1, <2>1, FedFarm
  <2>3. \A t \in R : OfOneFarm(t, r) => FarmInput(t.id) = q  BY <1>1, <2>1, FedFarm
  <2>4. q # User  BY <2>1 DEF Fed
  <2> QED  BY <2>1, <2>2, <2>3, <2>4
<1>8. Connected
  <2>1. User \notin Queues /\ \A q \in Queues : q[1] \in Nat  BY <1>5, <1>6
  <2>2. ASSUME NEW r \in R
        PROVE  LET th == r.id IN
               /\ kind(th) \in SimpleKinds \cup
                    {"generate", "replica", "context", "reorder", "consume", "farm_sink"}
               /\ helpers(th) \subseteq Threads
               /\ input_queue(th) = User <=> kind(th) = "generate" \/ OnlyWaits(th)
               /\ output_queue(th) = User <=> kind(th) \in {"consume", "farm_sink"}
               /\ input_queue(th) # User => input_queue(th) \in Queues
               /\ output_queue(th) # User => output_queue(th) \in Queues
               /\ input_queue(th) # User => input_queue(th) # output_queue(th)
               /\ kind(th) = "reduce" => /\ stage(th).window \in Nat \ {0}
                                         /\ stage(th).offset \in Nat \ {0}
    <3>1. LinkedRole(R, r)  BY <1>1
    <3>2. r.helpers \subseteq Threads  BY <3>1 DEF LinkedRole, Carries
    <3>3. r.kind = "reduce" => r.stage.window \in Nat \ {0} /\ r.stage.offset \in Nat \ {0}
      BY <3>1 DEF LinkedRole, IsSimple
    <3>4. r.in = User <=> r.kind = "generate" \/ Waits(r)  BY <3>1 DEF LinkedRole, Waits
    <3>5. (r.in # User => r.in \in Queues) /\ (r.out # User => r.out \in Queues)  BY <1>4
    <3> QED  BY <3>1, <3>2, <3>3, <3>4, <3>5, ReadRole DEF LinkedRole
  <2> QED  BY <1>2, <2>1, <2>2 DEF Connected
<1>9. FilterQueues
  <2>1. ASSUME NEW r \in R, r.kind = "reorder"
        PROVE  /\ \A x \in Readers(r.in) : kind(x) = "reorder"
               /\ \A w \in Writers(r.in) : kind(w) = "filter"
               /\ \A v, w \in Writers(r.in) : v = w
               /\ ~IsFarmInput(r.in)
    <3>1. \A s \in R : /\ s.in = r.in => s.kind = "reorder"
                       /\ s.out = r.in => s.kind = "filter"
      BY <1>1, <2>1 DEF LinkedFilter
    <3>2. \A x \in Readers(r.in) : kind(x) = "reorder"
      BY <1>2, <3>1, ReadRole DEF Readers
    <3>3. \A w \in Writers(r.in) : kind(w) = "filter"
      BY <1>2, <3>1, ReadRole DEF Writers
    <3>4. ASSUME IsFarmInput(r.in) PROVE FALSE
      <4>1. PICK th \in Threads : IsReplica(th) /\ FarmInput(th) = r.in  BY <3>4 DEF IsFarmInput
      <4>2. PICK t \in R : t.id = th  BY <1>2
      <4>3. t.kind = "replica"  BY <4>1, <4>2, ReadRole
      <4> QED  BY <1>7, <2>1, <4>1, <4>2, <4>3
    <3>5. ASSUME NEW v \in Writers(r.in), NEW w \in Writers(r.in) PROVE v = w
      <4>1. PICK a \in R : a.id = v  BY <1>2 DEF Writers
      <4>2. PICK b \in R : b.id = w  BY <1>2 DEF Writers
      <4>3. a.out = r.in /\ b.out = r.in  BY <4>1, <4>2, ReadRole DEF Writers
      <4>4. r.in # User  BY <1>1, <2>1 DEF LinkedRole, Waits, Hosts
      <4>5. a = b \/ OfOneFarm(a, b) \/ \E u \in R : u.out = r.in /\ Waits(u)
        BY <1>1, <4>3, <4>4 DEF LinkedWriters
      <4> QED  BY <3>1, <4>1, <4>2, <4>3, <4>5 DEF OfOneFarm, Waits, Hosts
    <3> QED  BY <3>2, <3>3, <3>4, <3>5
  <2>2. ASSUME conf.ordered, NEW r \in R, r.kind = "filter"
        PROVE  \E x \in Readers(r.out) : kind(x) = "reorder"
    <3>1. PICK s \in R : s.kind = "reorder" /\ s.in = r.out  BY <1>1, <2>2 DEF LinkedFilter
    <3> QED  BY <3>1, ReadRole DEF Readers
  <2>3. ASSUME NEW th \in Threads, kind(th) = "reorder"
        PROVE  /\ \A x \in Readers(input_queue(th)) : kind(x) = "reorder"
               /\ \A w \in Writers(input_queue(th)) : kind(w) = "filter"
               /\ \A v, w \in Writers(input_queue(th)) : v = w
               /\ ~IsFarmInput(input_queue(th))
    BY <1>2, <2>1, <2>3, ReadRole
  <2>4. ASSUME conf.ordered, NEW th \in Threads, kind(th) = "filter"
        PROVE  \E x \in Readers(output_queue(th)) : kind(x) = "reorder"
    BY <1>2, <2>2, <2>4, ReadRole
  <2> QED  BY <2>3, <2>4 DEF FilterQueues
<1>10. OneWriter
  <2> SUFFICES ASSUME NEW q \in Queues, EndedOnce(q), NEW v \in Writers(q), NEW w \in Writers(q)
               PROVE  v = w \/ (IsReplica(v) /\ IsReplica(w) /\ FarmOf(v) = FarmOf(w))
    BY DEF OneWriter
  <2>1. PICK r \in R : r.id = v  BY <1>2 DEF Writers
  <2>2. PICK s \in R : s.id = w  BY <1>2 DEF Writers
  <2>3. r.out = q /\ s.out = q /\ q # User  BY <1>5, <2>1, <2>2, ReadRole DEF Writers
  <2>4. r = s \/ OfOneFarm(r, s) \/ \E u \in R : u.out = q /\ Waits(u)
    BY <1>1, <2>3 DEF LinkedWriters
  <2>5. ASSUME NEW u \in R, u.out = q, Waits(u) PROVE FALSE
    <3>1. output_queue(u.id)[1] > q[1]  BY <1>3, <2>5, ReadRole DEF EndedOnce, MayEndTwice
    <3>2. q[1] \in Nat  BY <1>5, <1>6
    <3> QED  BY <2>5, <3>1, <3>2, ReadRole
  <2> QED  BY <2>1, <2>2, <2>4, <2>5, ReadRole DEF OfOneFarm
<1>11. ASSUME NEW r \in R, r.kind = "replica", EndedOnce(r.out) PROVE EndedOnce(FarmInput(r.id))
  <2>1. FarmInput(r.id)[1] \in Nat /\ r.out[1] \in Nat /\ FarmInput(r.id)[1] <= r.out[1]
    <3>1. FarmInput(r.id) \in Paths  BY <1>1, <1>7, <1>11 DEF LinkedRole
    <3>2. r.out \in Paths /\ r.out # User  BY <1>1, <1>11 DEF LinkedRole
    <3> QED  BY <1>6, <1>7, <1>11, <3>1, <3>2
  <2>2. ASSUME NEW th \in Threads, MayEndTwice(th) PROVE output_queue(th)[1] > FarmInput(r.id)[1]
    <3>1. PICK t \in R : t.id = th  BY <1>2
    <3>2. t.kind \notin {"consume", "farm_sink"}
      BY <2>2, <3>1, ReadRole DEF MayEndTwice, OnlyWaits, IsHost, IsSequential
    <3>3. t.out \in Paths /\ t.out # User  BY <1>1, <3>2 DEF LinkedRole
    <3>4. output_queue(th) = t.out /\ output_queue(th)[1] > r.out[1]
      BY <1>11, <2>2, <3>1, ReadRole DEF EndedOnce
    <3>5. t.out[1] \in Nat  BY <1>6, <3>3
    <3> QED  BY <2>1, <3>4, <3>5
  <2> QED  BY <2>2 DEF EndedOnce
<1>12. ASSUME NEW r \in R, r.kind = "replica"
       PROVE  LET th == r.id IN
              /\ FarmInput(th) \in Queues
              /\ FarmInput(th) # output_queue(th)
              /\ \E h \in Crew(th) : input_queue(h) = FarmInput(th)
              /\ \A h \in Readers(FarmInput(th)) :
                   /\ kind(h) # "farm_sink"
                   /\ \E t \in Replicas(FarmOf(th)) : h \in Crew(t) /\ FarmInput(t) = FarmInput(th)
              /\ \A t \in Threads : (IsReplica(t) /\ t # th) => Crew(t) \cap Crew(th) = {}
              /\ \A t \in Replicas(FarmOf(th)) : FarmInput(t) = FarmInput(th)
              /\ EndedOnce(output_queue(th)) => EndedOnce(FarmInput(th))
              /\ IsFiniteSet(Replicas(FarmOf(th)))
              /\ Cardinality(Replicas(FarmOf(th))) = stage(th).n
              /\ stage(th).n \in Nat
              /\ FarmOf(th) \in DOMAIN done_threads
  <2> DEFINE q == FarmInput(r.id)
             S == Replicas(FarmOf(r.id))
  <2>1. q \in Queues /\ q # output_queue(r.id)  BY <1>4, <1>7, <1>12, ReadRole
  <2>2. \E h \in Crew(r.id) : input_queue(h) = q  BY <1>7, <1>12, ReadRole DEF Fed
  <2>3. S = Ids({t \in R : OfOneFarm(t, r)})
    <3>1. \A t \in R : t.id \in S <=> OfOneFarm(t, r)
      BY <1>12, ReadRole DEF Replicas, OfOneFarm
    <3>2. S \subseteq Threads  BY DEF Replicas
    <3>3. \A x \in S : x \in Ids({t \in R : OfOneFarm(t, r)})  BY <1>2, <3>1, <3>2 DEF Ids
    <3>4. \A x \in Ids({t \in R : OfOneFarm(t, r)}) : x \in S  BY <3>1 DEF Ids
    <3> QED  BY <3>3, <3>4
  <2>4. \A t \in S : FarmInput(t) = q  BY <1>7, <1>12, <2>3 DEF Ids
  <2>5. ASSUME NEW h \in Readers(q)
        PROVE  kind(h) # "farm_sink" /\ \E t \in S : h \in Crew(t)
    <3>1. PICK c \in R : c.id = h  BY <1>2 DEF Readers
    <3>2. c.in = q  BY <3>1, ReadRole DEF Readers
    <3>3. c.kind \notin {"farm_sink", "reorder"} /\ \E t \in R : OfOneFarm(t, r) /\ c.id \in CrewOf(t)
      BY <1>7, <1>12, <3>2
    <3> QED  BY <2>3, <3>1, <3>3, ReadRole DEF Ids
  <2>6. ASSUME NEW t \in Threads, IsReplica(t), t # r.id
        PROVE  Crew(t) \cap Crew(r.id) = {}
    <3>1. PICK s \in R : s.id = t  BY <1>2
    <3>2. s.kind = "replica" /\ s # r  BY <2>6, <3>1, ReadRole
    <3>3. CrewOf(s) \cap CrewOf(r) = {}  BY <1>1, <1>12, <3>2 DEF LinkedReplica
    <3>4. Crew(t) = CrewOf(s) /\ Crew(r.id) = CrewOf(r)  BY <3>1, ReadRole
    <3> QED  BY <3>3, <3>4
  <2>7. EndedOnce(output_queue(r.id)) => EndedOnce(q)  BY <1>11, <1>12, ReadRole
  <2>8. r.stage.n \in Nat /\ IsFiniteSet(S) /\ Cardinality(S) = r.stage.n
    BY <1>1, <1>12, <2>3 DEF LinkedReplica
  <2>9. FarmOf(r.id) \in DOMAIN done_threads /\ stage(r.id) = r.stage
    BY <1>12, ReadRole DEF Carries
  <2> HIDE DEF q, S
  <2> QED  BY <2>1, <2>2, <2>4, <2>5, <2>6, <2>7, <2>8, <2>9 DEF q, S
<1>13. FarmQueues
  <2> SUFFICES ASSUME NEW th \in Threads, IsReplica(th)
               PROVE  /\ FarmInput(th) \in Queues
                      /\ FarmInput(th) # output_queue(th)
                      /\ \E h \in Crew(th) : input_queue(h) = FarmInput(th)
                      /\ \A h \in Readers(FarmInput(th)) :
                           /\ kind(h) # "farm_sink"
                           /\ \E t \in Replicas(FarmOf(th)) : h \in Crew(t) /\ FarmInput(t) = FarmInput(th)
                      /\ \A t \in Threads : (IsReplica(t) /\ t # th) => Crew(t) \cap Crew(th) = {}
                      /\ \A t \in Replicas(FarmOf(th)) : FarmInput(t) = FarmInput(th)
                      /\ EndedOnce(output_queue(th)) => EndedOnce(FarmInput(th))
                      /\ IsFiniteSet(Replicas(FarmOf(th)))
                      /\ Cardinality(Replicas(FarmOf(th))) = stage(th).n
                      /\ stage(th).n \in Nat
                      /\ FarmOf(th) \in DOMAIN done_threads
    BY DEF FarmQueues
  <2>1. PICK r \in R : r.id = th  BY <1>2
  <2>2. r.kind = "replica"  BY <2>1, ReadRole
  <2> QED  BY <1>12, <2>1, <2>2
<1> QED  BY <1>8, <1>9, <1>10, <1>13 DEF Wired

\* What a pipeline starts with.
LEMMA InitFields ==
  ASSUME NEW p, InitFor(p)
  PROVE  /\ conf.role = [id \in Ids(Roles(p)) |-> CHOOSE r \in Roles(p) : r.id = id]
         /\ conf.ordered = p.ordered /\ conf.size = p.size /\ conf.length = p.length
<1> DEFINE role == [id \in Ids(Roles(p)) |-> CHOOSE r \in Roles(p) : r.id = id]
<1>1. \E keep, need, expected :
        conf = [role |-> role, ordered |-> p.ordered, size |-> p.size,
                length |-> p.length, keep |-> keep, need |-> need, expected |-> expected]
  <2> DEFINE K == IF "filter" \in {s.kind : s \in ToSet(Unfolded(Unfolded(p.stages)))}
                  THEN SUBSET (1 .. p.length) ELSE {1 .. p.length}
             N == IF "iterate" \in {s.kind : s \in ToSet(Unfolded(Unfolded(p.stages)))}
                  THEN [1 .. p.length -> 1 .. MaxRounds] ELSE {<<>>}
             X(keep) == SeqPipelineOutput(p.stages, p.length, keep)
  <2>1. \E keep \in K : \E need \in N :
          conf = [role |-> role, ordered |-> p.ordered, size |-> p.size,
                  length |-> p.length, keep |-> keep, need |-> need, expected |-> X(keep)]
    BY DEF InitFor, Ids
  <2> HIDE DEF K, N, X, role
  <2> QED  BY <2>1
<1> HIDE DEF role
<1> QED  BY <1>1 DEF role

\* The state holds the threads of the pipeline.
LEMMA InitCarries ==
  ASSUME NEW p, InitFor(p), \A r, s \in Roles(p) : r.id = s.id => r = s
  PROVE  Carries(Roles(p))
<1> DEFINE R == Roles(p)
<1>1. conf.role = [id \in Ids(R) |-> CHOOSE r \in R : r.id = id]  BY InitFields
<1>2. /\ Queues = (UNION {{input_queue(th), output_queue(th)} : th \in Threads}) \ {User}
      /\ DOMAIN done_threads = {FarmOf(th) : th \in {t \in Threads : kind(t) = "replica"}}
  BY DEF InitFor, Queues
<1> HIDE DEF R
<1>3. \A r, s \in R : r.id = s.id => r = s  BY DEF R
<1>4. Threads = Ids(R)  BY <1>1 DEF Threads
<1>5. \A r \in R : conf.role[r.id] = r
  BY <1>1, <1>3 DEF Ids
<1>6. \A r \in R : r.id \in Threads /\ input_queue(r.id) = r.in /\ output_queue(r.id) = r.out
                   /\ kind(r.id) = r.kind
  BY <1>4, <1>5 DEF Ids, input_queue, output_queue, kind
<1>7. \A th \in Threads : \E r \in R : th = r.id  BY <1>4 DEF Ids
<1>8. \A x : x \in Queues <=> x \in {r.in : r \in R} \cup {r.out : r \in R} /\ x # User
  <2> SUFFICES ASSUME NEW x
               PROVE  x \in Queues <=> x \in {r.in : r \in R} \cup {r.out : r \in R} /\ x # User
    OBVIOUS
  <2>1. x \in Queues <=> x # User /\ \E th \in Threads : x = input_queue(th) \/ x = output_queue(th)
    <3> DEFINE U == UNION {{input_queue(th), output_queue(th)} : th \in Threads}
    <3>1. x \in U <=> \E th \in Threads : x = input_queue(th) \/ x = output_queue(th)  OBVIOUS
    <3>2. Queues = U \ {User}  BY <1>2
    <3> HIDE DEF U
    <3> QED  BY <3>1, <3>2
  <2>2. (\E th \in Threads : x = input_queue(th) \/ x = output_queue(th))
          <=> \E r \in R : x = r.in \/ x = r.out
    BY <1>6, <1>7
  <2> QED  BY <2>1, <2>2
<1>9. Queues = {x \in {r.in : r \in R} \cup {r.out : r \in R} : x # User}
  BY <1>8
<1>10. \A r \in R : r.kind = "replica" => Front(r.id) \in DOMAIN done_threads
  BY <1>2, <1>6 DEF FarmOf
<1> QED  BY <1>4, <1>5, <1>9, <1>10 DEF Carries, R

\* Nothing has been pushed and no thread has left its loop.
Started ==
  /\ queue = [q \in Queues |-> <<>>]
  /\ pc = [th \in Threads |-> IF OnlyWaits(th) THEN "join" ELSE "loop"]
  /\ out = [th \in Threads |-> <<>>]

\* No end marker is anywhere.
LEMMA NoMarkersFirst ==
  ASSUME Connected, Started, NEW q \in Queues
  PROVE  Markers(q) = {} /\ Pending(q) = {} /\ Holding(q) = {} /\ Kept(q) = {}
<1>1. \A th \in Readers(q) : th \in Threads /\ pc[th] = "loop"
  BY DEF Readers, Connected, Started, OnlyWaits
<1>2. \A th \in Threads : out[th] = <<>>  BY DEF Started
<1>3. queue[q] = <<>>  BY DEF Started
<1> QED  BY <1>1, <1>2, <1>3 DEF Markers, Pending, Holding, Kept

\* Everything has its type at the start.
LEMMA InitTyped ==
  ASSUME NEW p, IsPipeline(p), InitFor(p), Carries(Roles(p)),
         Linked(Roles(p), p.ordered)
  PROVE  Typed
<1>1. conf.size \in Nat /\ conf.length \in Nat  BY InitFields DEF IsPipeline
<1>2. queue \in [Queues -> Seq(Items)]
  <2>1. <<>> \in Seq(Items)  OBVIOUS
  <2> QED  BY <2>1 DEF InitFor, Queues
<1>3. pc \in [Threads -> Labels]  BY DEF InitFor, Labels
<1>4. out \in [Threads -> Seq([to : {User} \cup Queues, item : Items])]
  <2>1. <<>> \in Seq([to : {User} \cup Queues, item : Items])  OBVIOUS
  <2> QED  BY <2>1 DEF InitFor
<1>5. held \in [Threads -> [elements : Seq(Items), current : Int, order : Nat]]
  <2>1. <<>> \in Seq(Items)  OBVIOUS
  <2>2. [elements |-> <<>>, current |-> 0, order |-> 0]
          \in [elements : Seq(Items), current : Int, order : Nat]  BY <2>1
  <2> QED  BY <2>2 DEF InitFor
<1>6. reducer \in [Threads -> [items : Seq(Values), remaining : Int]]
  <2>1. <<>> \in Seq(Values)  OBVIOUS
  <2>2. EmptyReduce \in ReducerTypes  BY <2>1 DEF EmptyReduce, ReducerTypes
  <2>3. ASSUME NEW th \in Threads, kind(th) = "reduce"
        PROVE  InitialReduce(stage(th)) \in ReducerTypes
    <3>1. PICK r \in Roles(p) : r.id = th  BY ReadRole
    <3>2. r.kind = "reduce" /\ stage(th) = r.stage  BY <2>3, <3>1, ReadRole
    <3>3. IsSimple(r.stage) /\ r.stage.kind = "reduce"
      BY <3>2 DEF Linked, LinkedThreads, LinkedRole
    <3>4. r.stage.window \in Nat \ {0} /\ r.stage.offset \in Nat \ {0} /\ r.stage.before \in Nat
      BY <3>3 DEF IsSimple
    <3> QED  BY <3>2, <3>4, InitialReduceType
  <2>4. reducer = [th \in Threads |-> IF kind(th) = "reduce" THEN InitialReduce(stage(th))
                                                             ELSE EmptyReduce]
    BY DEF InitFor
  <2>5. reducer \in [Threads -> ReducerTypes]  BY <2>2, <2>3, <2>4
  <2> QED  BY <2>5 DEF ReducerTypes
<1>7. produced \in Nat /\ done_threads \in [DOMAIN done_threads -> Nat]  BY DEF InitFor
<1> QED  BY <1>1, <1>2, <1>3, <1>4, <1>5, <1>6, <1>7 DEF Typed

\* The invariant holds when a pipeline starts.
LEMMA InitKeeps == Init => IInv
<1> SUFFICES ASSUME NEW p \in Pipelines, InitFor(p) PROVE IInv  BY DEF Init
<1>1. IsPipeline(p)  BY PipelinesAssumption
<1>2. Linked(Roles(p), p.ordered)  BY <1>1, PipelineLinked
<1>3. Carries(Roles(p))  BY <1>2, InitCarries DEF Linked, LinkedThreads
<1>4. Wired  BY <1>2, <1>3, InitFields, WiredFirst
<1>5. Typed  BY <1>1, <1>2, <1>3, InitTyped
<1>6. Started  BY DEF InitFor, Started, Queues
<1>7. InPlace
  BY <1>6 DEF InPlace, PlaceOf, Started, OnlyWaits
<1>8. Outgoing
  BY <1>6 DEF Outgoing, OutgoingOf, Started
<1>9. Orders
  BY <1>6 DEF Orders, Started
<1>10. Counted
  <2> SUFFICES ASSUME NEW th \in Threads, IsReplica(th)
               PROVE  done_threads[FarmOf(th)] =
                        Cardinality({t \in Replicas(FarmOf(th)) : pc[t] \in {"test", "last"}})
    BY DEF Counted
  <2>1. {t \in Replicas(FarmOf(th)) : pc[t] \in {"test", "last"}} = {}
    BY <1>6 DEF Started, Replicas
  <2>2. done_threads[FarmOf(th)] = 0  BY DEF InitFor, IsReplica
  <2> QED  BY <2>1, <2>2, FS_EmptySet
<1>11. EdgesEnded
  <2> SUFFICES ASSUME NEW q \in Queues PROVE OneMarker(q) /\ ValuesBefore(q)  BY DEF EdgesEnded
  <2>1. Markers(q) = {} /\ Pending(q) = {} /\ Holding(q) = {} /\ Kept(q) = {}
    BY <1>4, <1>6, NoMarkersFirst DEF Wired
  <2> QED  BY <2>1 DEF OneMarker, ValuesBefore, Have
<1>12. NothingLeft
  <2>1. \A q \in Queues : \A r \in Readers(q) : ~HasLeft(r)
    BY <1>4, <1>6 DEF Wired, Connected, Readers, Started, HasLeft, OnlyWaits
  <2> QED  BY <2>1 DEF NothingLeft, NothingLeftOn, Queues
<1> QED  BY <1>4, <1>5, <1>7, <1>8, <1>9, <1>10, <1>11, <1>12 DEF IInv

-----------------------------------------------------------------------------
(* The theorems. *)

\* The connections of the threads, the types, the places, the messages and the end
\* markers are as the invariant says in every state, whatever the pipeline, the
\* length of the stream and the size of the queues.
THEOREM Invariance == Spec => []IInv
BY InitKeeps, NextKeeps, PTL DEF Spec

\* On every edge that is not behind a thread that may end its output twice there is
\* at most one end marker, in the queue or with the replica that is to count itself
\* out or put it back: do_pipeline for a farm reads done_threads twice, and the
\* replicas still agree on which of them ends the output.
THEOREM OneMarkerOfAFarm == Spec => []OneEndMarker
BY Invariance, InvOneEndMarker, PTL

\* An iteration that empties its queue after the end of the stream, and dereferences
\* what it pops without a test, pops no empty item.
THEOREM NoEndIsLeft == Spec => []NoEndLeft
BY Invariance, InvNoEndLeft, PTL

\* On those edges the end marker is behind every value of the stream: no thread of
\* the pipeline ends with values left behind it.  In a pipeline that has only such
\* edges it is so everywhere.
THEOREM EndBehindValues ==
  Spec => [](/\ \A q \in DOMAIN queue : EndedOnce(q) => EndIsLastOn(q)
             /\ (\A q \in DOMAIN queue : EndedOnce(q)) => EndIsLast)
<1>1. IInv => /\ \A q \in DOMAIN queue : EndedOnce(q) => EndIsLastOn(q)
              /\ (\A q \in DOMAIN queue : EndedOnce(q)) => EndIsLast
  BY InvEndIsLast DEF EndIsLast, Queues
<1> QED  BY <1>1, Invariance, PTL

\* A thread that leaves its loop leaves nothing behind, in its queue or on the way to
\* it: when pipeline() returns, no value has been dropped at the end of the stream.
THEOREM NothingIsLeft == Spec => []NothingLeft
<1>1. IInv => NothingLeft  BY DEF IInv
<1> QED  BY <1>1, Invariance, PTL

-----------------------------------------------------------------------------
(* The threads of a regular pipeline. *)

\* From one of its queues in W, W has all of them.
Drains(R, O) ==
  \A W : (O \in W /\ \A r \in R : r.out \in W => r.in \in W) =>
    \A r \in R : r.in \in W /\ r.out \in W

\* A pattern whose threads work themselves, with its filter alone.
Plain(R, O, ordered) ==
  /\ \A r \in R : /\ r.kind # "reduce" /\ r.kind # "generate" /\ r.in # User
                  /\ ~(r.kind = "context" /\ r.stage.sequential)
                  /\ r.kind \in {"filter", "reorder"} => ordered
  /\ \A r, s \in R : (r.kind = "consume" \/ (r.kind = "iterate" /\ r.in = s.in)) => r = s
  /\ \A x \in R : x.kind = "reorder" => x.out = O /\ \A r \in R \ {x} : r.out = x.in
  /\ Drains(R, O)

\* Threads of patterns without filters.
Sieveless(R) == \A r \in R : r.kind \in {"stage", "iterate", "replica", "context"}

\* A stage, an iteration or an ordered filter.
LEMMA PlainSimple ==
  ASSUME NEW P, NEW I, NEW O, Site(P, I, O), NEW s, NEW ordered \in BOOLEAN,
         s.kind \in {"stage", "iterate"} \/ (s.kind = "filter" /\ ordered)
  PROVE  LET R == SimpleThreads(At(s, P, ordered, I, O)) IN
         /\ Plain(R, O, ordered)
         /\ s.kind # "filter" => Sieveless(R)
         /\ (\E r \in R : r.kind = "reorder") <=> s.kind = "filter"
         /\ s.kind = "stage" => \A r \in R : r.kind = "stage"
<1> DEFINE p == At(s, P, ordered, I, O)
<1>1. p.stage = s /\ p.path = P /\ p.ordered = ordered /\ p.in = I /\ p.out = O  BY DEF At
<1> HIDE DEF p
<1>2. P \in Paths /\ I # User  BY DEF Site
<1>3. CASE s.kind = "filter" /\ ordered
  <2> DEFINE f == Role(Append(P, 1), "filter", s, I, Append(P, 0), {})
             r == Role(Append(P, 2), "reorder", s, Append(P, 0), O, {})
  <2>1. SimpleThreads(p) = {f, r}  BY <1>1, <1>3 DEF SimpleThreads
  <2>2. /\ f.kind = "filter" /\ f.in = I /\ f.out = Append(P, 0)
        /\ r.kind = "reorder" /\ r.in = Append(P, 0) /\ r.out = O
    BY DEF Role
  <2>3. Append(P, 0) # User  BY <1>2, Onward DEF Paths, User
  <2> HIDE DEF f, r
  <2>4. Drains({f, r}, O)  BY <2>2 DEF Drains
  <2>5. Plain({f, r}, O, ordered)  BY <1>2, <1>3, <2>2, <2>3, <2>4 DEF Plain
  <2> QED  BY <1>3, <2>1, <2>2, <2>5 DEF p
<1>4. CASE s.kind \in {"stage", "iterate"}
  <2> DEFINE r == Role(P, s.kind, s, I, O, {})
  <2>1. SimpleThreads(p) = {r}  BY <1>1, <1>4 DEF SimpleThreads
  <2>2. r.kind = s.kind /\ r.in = I /\ r.out = O  BY DEF Role
  <2> HIDE DEF r
  <2>3. Drains({r}, O)  BY <2>2 DEF Drains
  <2>4. Plain({r}, O, ordered)  BY <1>2, <1>4, <2>2, <2>3 DEF Plain
  <2>5. Sieveless({r})  BY <1>4, <2>2 DEF Sieveless
  <2> QED  BY <1>4, <2>1, <2>2, <2>4, <2>5 DEF p
<1> QED  BY <1>3, <1>4

\* The last stage calls the user's operation.
LEMMA PlainSink ==
  ASSUME NEW P, NEW I, I # User, NEW s, IsSink(s), NEW ordered
  PROVE  LET R == ContextThreads(At(s, P, ordered, I, User)) IN
         /\ Plain(R, User, ordered)
         /\ \A r \in R : r.out = User /\ r.kind # "reorder"
<1> DEFINE p == At(s, P, ordered, I, User)
<1>1. p.stage = s /\ p.path = P /\ p.ordered = ordered /\ p.in = I /\ p.out = User  BY DEF At
<1> HIDE DEF p
<1>2. s.kind \in {"consume", "farm_sink"}  BY DEF IsSink
<1>3. ContextThreads(p) = SimpleThreads(p)  BY <1>1, <1>2 DEF ContextThreads, FarmThreads
<1>4. CASE s.kind = "consume"
  <2> DEFINE r == Role(P, s.kind, s, I, User, {})
  <2>1. SimpleThreads(p) = {r}  BY <1>1, <1>4 DEF SimpleThreads
  <2>2. r.kind = "consume" /\ r.in = I /\ r.out = User  BY <1>4 DEF Role
  <2> HIDE DEF r
  <2>3. Drains({r}, User)  BY <2>2 DEF Drains
  <2>4. Plain({r}, User, ordered)  BY <2>2, <2>3 DEF Plain
  <2> QED  BY <1>3, <2>1, <2>2, <2>4 DEF p
<1>5. CASE s.kind = "farm_sink"
  <2> DEFINE R == SimpleThreads(p)
  <2>1. R = {Role(Append(P, w), "farm_sink", s, I, User, {}) : w \in 1 .. s.n}
    BY <1>1, <1>5 DEF SimpleThreads
  <2>2. \A r \in R : r.kind = "farm_sink" /\ r.in = I /\ r.out = User
    BY <2>1 DEF Role
  <2> HIDE DEF R
  <2>3. Drains(R, User)  BY <2>2 DEF Drains
  <2>4. Plain(R, User, ordered)  BY <2>2, <2>3 DEF Plain
  <2> QED  BY <1>3, <2>2, <2>4 DEF p, R
<1> QED  BY <1>2, <1>4, <1>5

-----------------------------------------------------------------------------
(* One place behind another. *)

\* What holds the queue behind place k holds all queues in front of it.
LEMMA SerialDrains ==
  ASSUME NEW Rs, NEW m, NEW P, NEW I, NEW outs, NEW ordered,
         Serial(Rs, m, P, I, outs, ordered),
         \A k \in 1 .. m : Drains(Rs[k], outs[k]),
         NEW W, \A k \in 1 .. m : \A r \in Rs[k] : r.out \in W => r.in \in W,
         NEW n \in 1 .. m, outs[n] \in W
  PROVE  \A k \in 1 .. n : outs[k] \in W /\ \A r \in Rs[k] : r.in \in W /\ r.out \in W
<1>1. m \in Nat  BY DEF Serial
<1> DEFINE D == {j \in Nat : j < n => outs[n - j] \in W}
<1>2. 0 \in D  BY <1>1
<1>3. \A j \in Nat : j \in D => j + 1 \in D
  <2> SUFFICES ASSUME NEW j \in Nat, j \in D, j + 1 < n PROVE outs[n - (j + 1)] \in W
    OBVIOUS
  <2>1. PICK k \in 1 .. m : k = n - j  BY <1>1
  <2>2. k - 1 \in 1 .. m /\ k - 1 = n - (j + 1) /\ k # 1 /\ k - 1 < m /\ k - 1 + 1 = k
    BY <1>1, <2>1
  <2>3. outs[k] \in W  BY <2>1, <2>2
  <2>4. \A r \in Rs[k] : r.in \in W  BY <2>3 DEF Drains
  <2>5. \E r \in Rs[k] : r.in = Entry(P, I, k)  BY DEF Serial, Region
  <2>6. outs[k - 1] = Append(P, k)
    <3> DEFINE l == k - 1
    <3>1. l \in 1 .. m /\ l < m /\ l + 1 = k  BY <2>2
    <3> HIDE DEF l
    <3>2. outs[l] = Append(P, l + 1)  BY <3>1 DEF Serial
    <3> QED  BY <3>1, <3>2 DEF l
  <2>7. Append(P, k) \in W  BY <2>2, <2>4, <2>5 DEF Entry
  <2> QED  BY <2>2, <2>6, <2>7
<1> HIDE DEF D
<1>4. Nat \subseteq D  BY <1>2, <1>3, SetInduction
<1>5. ASSUME NEW k \in 1 .. n PROVE outs[k] \in W
  <2>1. n - k \in Nat /\ n - k < n /\ n - (n - k) = k  BY <1>1
  <2>2. n - k \in D  BY <1>4, <2>1
  <2> QED  BY <2>1, <2>2 DEF D
<1>6. ASSUME NEW k \in 1 .. n PROVE \A r \in Rs[k] : r.in \in W /\ r.out \in W
  <2>1. k \in 1 .. m /\ outs[k] \in W  BY <1>1, <1>5
  <2> QED  BY <2>1 DEF Drains
<1> QED  BY <1>5, <1>6

\* A host that works, behind the places it has delegated.
LEMMA PlainHosted ==
  ASSUME NEW Rs, NEW m, NEW P, NEW I, NEW O, NEW outs, NEW ordered, NEW h,
         Hosted(Rs, m, P, I, O, outs, ordered, h), h.in # User,
         ~(h.kind = "context" /\ h.stage.sequential),
         \A k \in 1 .. m : Plain(Rs[k], outs[k], ordered) /\ Sieveless(Rs[k])
  PROVE  Plain(All(Rs, m) \cup {h}, O, ordered) /\ Sieveless(All(Rs, m) \cup {h})
<1> DEFINE U == All(Rs, m)
           V == U \cup {h}
<1>1. \A r \in U : \E k \in 1 .. m : r \in Rs[k]  BY DEF All
<1>2. \A k \in 1 .. m : Rs[k] \subseteq U  BY DEF All
<1>3. /\ m \in Nat /\ Serial(Rs, m, P, I, outs, ordered) /\ I # User
      /\ h.kind \in {"replica", "context"} /\ h.out = O
      /\ h.in = Entry(P, I, m + 1) /\ \A k \in 1 .. m : outs[k] = Append(P, k + 1)
  BY DEF Hosted, Hosts, Serial
<1>4. \A r \in U : r.in # h.in
  <2> SUFFICES ASSUME NEW r \in U PROVE r.in # h.in  OBVIOUS
  <2>1. PICK k \in 1 .. m : r \in Rs[k]  BY <1>1
  <2>2. r.in # User  BY <2>1 DEF Plain
  <2> QED  BY <2>1, <2>2, HostApart
<1> HIDE DEF U
<1>5. Sieveless(V)
  <2>1. \A r \in U : r.kind \in {"stage", "iterate", "replica", "context"}
    BY <1>1 DEF Sieveless
  <2> QED  BY <1>3, <2>1 DEF Sieveless
<1>6. \A r \in V : /\ r.in # User
                   /\ ~(r.kind = "context" /\ r.stage.sequential)
  BY <1>1 DEF Plain
<1>7. ASSUME NEW r \in V, NEW s \in V, r.kind = "iterate", r.in = s.in PROVE r = s
  <2>1. r \in U  BY <1>3, <1>7
  <2>2. s \in U  BY <1>4, <1>7, <2>1
  <2>3. PICK j \in 1 .. m : r \in Rs[j]  BY <1>1, <2>1
  <2>4. PICK k \in 1 .. m : s \in Rs[k]  BY <1>1, <2>2
  <2>5. j = k
    <3>1. Serial(Rs, m, P, I, outs, ordered) /\ r.in # User /\ r.in = s.in  BY <1>3, <1>6, <1>7
    <3> QED  BY <2>3, <2>4, <3>1, PlacesApart
  <2> QED  BY <1>7, <2>3, <2>4, <2>5 DEF Plain
<1>8. Drains(V, O)
  <2> SUFFICES ASSUME NEW W, O \in W, \A r \in V : r.out \in W => r.in \in W
               PROVE  \A r \in V : r.in \in W /\ r.out \in W
    BY DEF Drains
  <2>1. h.in \in W /\ h.out \in W  BY <1>3
  <2>2. ASSUME NEW r \in U PROVE r.in \in W /\ r.out \in W
    <3>1. PICK j \in 1 .. m : r \in Rs[j]  BY <1>1
    <3>2. m \in 1 .. m /\ m + 1 # 1  BY <1>3, <3>1
    <3>3. outs[m] \in W  BY <1>3, <2>1, <3>2 DEF Entry
    <3>4. \A k \in 1 .. m : \A x \in Rs[k] : x.out \in W => x.in \in W  BY <1>2
    <3>5. \A k \in 1 .. m : Drains(Rs[k], outs[k])  BY DEF Plain
    <3>6. \A k \in 1 .. m : outs[k] \in W /\ \A x \in Rs[k] : x.in \in W /\ x.out \in W
      BY <1>3, <3>2, <3>3, <3>4, <3>5, SerialDrains
    <3> QED  BY <3>1, <3>6
  <2> QED  BY <2>1, <2>2
<1>9. Plain(V, O, ordered)
  <2>1. \A r \in V : r.kind \in {"stage", "iterate", "replica", "context"}  BY <1>5 DEF Sieveless
  <2>2. \A r \in V : /\ r.kind # "reduce" /\ r.kind # "generate" /\ r.kind # "reorder"
                     /\ r.kind # "filter" /\ r.kind # "consume"
    BY <2>1
  <2> QED  BY <1>6, <1>7, <1>8, <2>2 DEF Plain
<1> QED  BY <1>5, <1>9 DEF U

\* The replicas of a farm.
LEMMA PlainReplicas ==
  ASSUME NEW P, NEW I, NEW O, Site(P, I, O), NEW s, IsFarm(s), PlainFarm(s), NEW ordered \in BOOLEAN
  PROVE  LET R == FarmThreads(At(s, P, ordered, I, O)) IN
         Plain(R, O, ordered) /\ Sieveless(R)
<1>1. PICK hosts, Rs, outs :
        /\ Farm(hosts, Rs, Delegates(s), s.n, P, I, O, outs, ordered)
        /\ FarmThreads(At(s, P, ordered, I, O))
             = UNION {Replica(hosts, Rs, Delegates(s), w) : w \in 1 .. s.n}
        /\ \A w \in 1 .. s.n :
             /\ Last(s.inner).kind = "stage" => hosts[w].in # User
             /\ \A k \in 1 .. Delegates(s) :
                  /\ Rs[w][k] = SimpleThreads(Inner(s, Append(P, w), ordered, I, O, k))
                  /\ Site(Append(Append(P, w), k), Entry(Append(P, w), I, k),
                          Exit(s.inner, Append(P, w), O, ordered, k))
  BY FarmParts
<1> DEFINE m == Delegates(s)
           R == UNION {Replica(hosts, Rs, m, w) : w \in 1 .. s.n}
<1>2. /\ Len(s.inner) \in Nat /\ Len(s.inner) # 0 /\ DOMAIN s.inner = 1 .. Len(s.inner)
      /\ Last(s.inner) = s.inner[Len(s.inner)]
  <2>1. IsSeq(s.inner)  BY DEF IsFarm
  <2> QED  BY <2>1, PlacesAre
<1>3. Len(s.inner) \in DOMAIN s.inner /\ Last(s.inner).kind = "stage"
  BY <1>2 DEF PlainFarm
<1>4. m \in Nat /\ m <= Len(s.inner)  BY <1>2 DEF Delegates
<1>5. \A r \in R : \E w \in 1 .. s.n : r \in Replica(hosts, Rs, m, w)  OBVIOUS
<1>6. \A w \in 1 .. s.n : Replica(hosts, Rs, m, w) \subseteq R  OBVIOUS
<1> HIDE DEF R, m
<1>7. ASSUME NEW w \in 1 .. s.n
      PROVE  /\ Plain(Replica(hosts, Rs, m, w), O, ordered)
             /\ \A r \in Replica(hosts, Rs, m, w) : r.kind \in {"stage", "replica"}
  <2>1. /\ Hosted(Rs[w], m, Append(P, w), I, O, outs[w], ordered, hosts[w])
        /\ hosts[w].kind = "replica" /\ hosts[w].in # User
    BY <1>1, <1>3 DEF Farm, m
  <2>2. ASSUME NEW k \in 1 .. m
        PROVE  /\ Plain(Rs[w][k], outs[w][k], ordered) /\ Sieveless(Rs[w][k])
               /\ \A r \in Rs[w][k] : r.kind = "stage"
    <3> DEFINE Q == Append(P, w)
               e == Exit(s.inner, Q, O, ordered, k)
    <3>1. s.inner[k].kind = "stage"  BY <1>2, <1>4 DEF PlainFarm
    <3>2. /\ Rs[w][k] = SimpleThreads(At(s.inner[k], Append(Q, k), ordered, Entry(Q, I, k), e))
          /\ Site(Append(Q, k), Entry(Q, I, k), e)
      BY <1>1 DEF m, Inner
    <3>3. Plain(Rs[w][k], e, ordered) /\ Sieveless(Rs[w][k]) /\ \A r \in Rs[w][k] : r.kind = "stage"
      <4> HIDE DEF Q, e
      <4> QED  BY <3>1, <3>2, PlainSimple
    <3>4. e = outs[w][k]
      <4>1. outs[w][k] = Append(Q, k + 1)
        <5>1. hosts[w].in # User  BY <2>1
        <5> QED  BY <2>1, <5>1 DEF Hosted
      <4>2. k < Len(s.inner)  BY <1>2, <1>3, <1>4 DEF m, Delegates
      <4> QED  BY <4>1, <4>2 DEF Exit
    <3> QED  BY <3>3, <3>4
  <2>3. Plain(All(Rs[w], m) \cup {hosts[w]}, O, ordered)
    <3> DEFINE T == Rs[w]
               g == hosts[w]
               o == outs[w]
    <3>1. /\ Hosted(T, m, Append(P, w), I, O, o, ordered, g) /\ g.in # User
          /\ ~(g.kind = "context" /\ g.stage.sequential)
          /\ \A k \in 1 .. m : Plain(T[k], o[k], ordered) /\ Sieveless(T[k])
      BY <2>1, <2>2
    <3> HIDE DEF T, g, o
    <3>2. Plain(All(T, m) \cup {g}, O, ordered)  BY <3>1, PlainHosted
    <3> QED  BY <3>2 DEF T, g
  <2>4. \A r \in All(Rs[w], m) \cup {hosts[w]} : r.kind \in {"stage", "replica"}
    <3>1. \A k \in 1 .. m : \A r \in Rs[w][k] : r.kind = "stage"  BY <2>2
    <3>2. \A r \in All(Rs[w], m) : \E k \in 1 .. m : r \in Rs[w][k]  BY DEF All
    <3> QED  BY <2>1, <3>1, <3>2
  <2> QED  BY <2>3, <2>4 DEF Replica
<1>8. \A r \in R : r.kind \in {"stage", "replica"}
  BY <1>5, <1>7
<1>9. \A r \in R : r.in # User
  <2>1. \A w \in 1 .. s.n : \A r \in Replica(hosts, Rs, m, w) : r.in # User  BY <1>7 DEF Plain
  <2> QED  BY <1>5, <2>1
<1>10. Drains(R, O)
  <2> SUFFICES ASSUME NEW W, O \in W, \A r \in R : r.out \in W => r.in \in W,
                      NEW r \in R
               PROVE  r.in \in W /\ r.out \in W
    BY DEF Drains
  <2>1. PICK w \in 1 .. s.n : r \in Replica(hosts, Rs, m, w)  BY <1>5
  <2>2. Drains(Replica(hosts, Rs, m, w), O)  BY <1>7 DEF Plain
  <2>3. \A x \in Replica(hosts, Rs, m, w) : x.out \in W => x.in \in W  BY <1>6
  <2> QED  BY <2>1, <2>2, <2>3 DEF Drains
<1>11. Sieveless(R)  BY <1>8 DEF Sieveless
<1>12. Plain(R, O, ordered)
  <2>1. \A r \in R : /\ r.kind # "reduce" /\ r.kind # "generate" /\ r.kind # "reorder"
                     /\ r.kind # "filter" /\ r.kind # "consume" /\ r.kind # "context"
                     /\ r.kind # "iterate"
    BY <1>8
  <2> QED  BY <1>9, <1>10, <2>1 DEF Plain
<1> QED  BY <1>1, <1>11, <1>12 DEF R, m

\* A context.
LEMMA PlainContexts ==
  ASSUME NEW P, NEW I, NEW O, Site(P, I, O), NEW s, IsContext(s), PlainContext(s),
         NEW ordered \in BOOLEAN
  PROVE  LET R == ContextThreads(At(s, P, ordered, I, O)) IN
         Plain(R, O, ordered) /\ Sieveless(R)
<1> DEFINE m == Delegates(s)
           Rs == [k \in 1 .. m |-> FarmThreads(Inner(s, P, ordered, I, O, k))]
           h == HostRole("context", At(s, P, ordered, I, O), All(Rs, m))
           outs == Exits(s, P, O, ordered)
<1>1. /\ ~s.sequential /\ Last(s.inner).kind = "stage"
      /\ \A k \in DOMAIN s.inner : s.inner[k].kind \in {"stage", "iterate"} \/ PlainFarm(s.inner[k])
  BY DEF PlainContext
<1>2. /\ Hosted(Rs, m, P, I, O, outs, ordered, h)
      /\ h.kind = "context" /\ h.stage = s
      /\ h.in = Entry(P, I, m + 1)
      /\ ContextThreads(At(s, P, ordered, I, O)) = All(Rs, m) \cup {h}
      /\ \A k \in 1 .. m :
           /\ k \in DOMAIN s.inner
           /\ Site(Append(P, k), Entry(P, I, k), Exit(s.inner, P, O, ordered, k))
  BY <1>1, ContextParts
<1>3. \A k \in 1 .. m : Rs[k] = FarmThreads(At(s.inner[k], Append(P, k), ordered, Entry(P, I, k),
                                               Exit(s.inner, P, O, ordered, k)))
  BY DEF Inner
<1>4. Len(s.inner) \in Nat /\ DOMAIN s.inner = 1 .. Len(s.inner)
  <2>1. IsSeq(s.inner)  BY DEF IsContext
  <2> QED  BY <2>1, PlacesAre
<1>5. \A k \in 1 .. m : outs[k] = Exit(s.inner, P, O, ordered, k)
  BY <1>2, <1>4 DEF Exits
<1>6. h.in # User
  <2>1. P \in Paths /\ I # User /\ m \in Nat  BY <1>2 DEF Site, Hosted, Serial
  <2>2. m + 1 \in Nat  BY <2>1
  <2>3. Below(P, Append(P, m + 1))  BY <2>1, <2>2, Onward
  <2>4. \A x : Below(P, x) => x # User  BY <2>1 DEF Below, Paths, User
  <2> QED  BY <1>2, <2>1, <2>3, <2>4 DEF Entry
<1> HIDE DEF m, Rs, h, outs
<1>7. ASSUME NEW k \in 1 .. m
      PROVE  Plain(Rs[k], outs[k], ordered) /\ Sieveless(Rs[k])
  <2> DEFINE t == s.inner[k]
             e == Exit(s.inner, P, O, ordered, k)
             Q == Append(P, k)
             J == Entry(P, I, k)
             p == At(t, Q, ordered, J, e)
  <2>1. k \in DOMAIN s.inner /\ Site(Q, J, e)  BY <1>2
  <2>2. t.kind \in {"stage", "iterate"} \/ PlainFarm(t)  BY <1>1, <2>1
  <2>3. IsSimple(t) \/ IsFarm(t)  BY <1>1, <2>1 DEF IsContext
  <2>4. Rs[k] = FarmThreads(p) /\ outs[k] = e  BY <1>3, <1>5
  <2>5. p.stage = t  BY DEF At
  <2> HIDE DEF t, e, Q, J
  <2>6. CASE t.kind \in {"stage", "iterate"}
    <3>1. FarmThreads(p) = SimpleThreads(p)
      <4> HIDE DEF p
      <4> QED  BY <2>5, <2>6 DEF FarmThreads
    <3>2. Plain(SimpleThreads(p), e, ordered) /\ Sieveless(SimpleThreads(p))
      BY <2>1, <2>6, PlainSimple
    <3> QED  BY <2>4, <3>1, <3>2
  <2>7. CASE PlainFarm(t)
    <3>1. IsFarm(t)  BY <2>3, <2>7 DEF PlainFarm, IsSimple, SimpleKinds
    <3> QED  BY <2>1, <2>4, <2>7, <3>1, PlainReplicas
  <2> QED  BY <2>2, <2>6, <2>7
<1>8. Plain(All(Rs, m) \cup {h}, O, ordered) /\ Sieveless(All(Rs, m) \cup {h})
  BY <1>1, <1>2, <1>6, <1>7, PlainHosted
<1> QED  BY <1>2, <1>8

\* A stage of a regular pipeline, but the last.
LEMMA PlainStage ==
  ASSUME NEW P, NEW I, NEW O, Site(P, I, O), NEW s, IsStage(s), NEW ordered \in BOOLEAN,
         \/ s.kind \in {"stage", "iterate"} \/ (s.kind = "filter" /\ ordered)
         \/ PlainFarm(s) \/ PlainContext(s)
  PROVE  LET R == ContextThreads(At(s, P, ordered, I, O)) IN
         /\ Plain(R, O, ordered)
         /\ (\E r \in R : r.kind = "reorder") <=> s.kind = "filter"
<1> DEFINE p == At(s, P, ordered, I, O)
<1>1. p.stage = s  BY DEF At
<1>2. \A R : Sieveless(R) => ~\E r \in R : r.kind = "reorder"  BY DEF Sieveless
<1>3. CASE s.kind \in {"stage", "iterate"} \/ (s.kind = "filter" /\ ordered)
  <2>1. ContextThreads(p) = SimpleThreads(p)
    <3> HIDE DEF p
    <3> QED  BY <1>1, <1>3 DEF ContextThreads, FarmThreads
  <2>2. /\ Plain(SimpleThreads(p), O, ordered)
        /\ (\E r \in SimpleThreads(p) : r.kind = "reorder") <=> s.kind = "filter"
    BY <1>3, PlainSimple
  <2> QED  BY <2>1, <2>2
<1>4. CASE PlainFarm(s)
  <2>1. s.kind = "farm"  BY <1>4 DEF PlainFarm
  <2>2. IsFarm(s)  BY <2>1 DEF IsStage, IsSimple, IsContext, SimpleKinds
  <2>3. ContextThreads(p) = FarmThreads(p)
    <3> HIDE DEF p
    <3> QED  BY <1>1, <2>1 DEF ContextThreads
  <2>4. Plain(FarmThreads(p), O, ordered) /\ Sieveless(FarmThreads(p))
    BY <1>4, <2>2, PlainReplicas
  <2> QED  BY <1>2, <2>1, <2>3, <2>4
<1>5. CASE PlainContext(s)
  <2>1. s.kind = "context"  BY <1>5 DEF PlainContext
  <2>2. IsContext(s)  BY <2>1 DEF IsStage, IsSimple, IsFarm, SimpleKinds
  <2>3. Plain(ContextThreads(p), O, ordered) /\ Sieveless(ContextThreads(p))
    BY <1>5, <2>2, PlainContexts
  <2> QED  BY <1>2, <2>1, <2>3
<1> QED  BY <1>3, <1>4, <1>5

-----------------------------------------------------------------------------
(* A regular pipeline, stage by stage. *)

\* Stage k, with path <<k>>, pops from the queue <<k>> and pushes to <<k + 1>>; the last
\* of the n stages calls the user's operation.
Chain(R, Rs, n, ordered) ==
  /\ n \in Nat /\ n # 0
  /\ \A r \in R : r.kind = "generate" \/ \E k \in 1 .. n : r \in Rs[k]
  /\ \E g \in R : g.kind = "generate"
  /\ \A g \in R : g.kind = "generate" => g.in = User /\ g.out = <<1>>
  /\ \A k \in 1 .. n :
       /\ Rs[k] \subseteq R /\ Plain(Rs[k], IF k = n THEN User ELSE <<k + 1>>, ordered)
       /\ \A r \in Rs[k] :
            /\ r.in # User /\ r.in[1] = k
            /\ IF k = n THEN r.out = User /\ r.kind # "reorder"
                        ELSE r.out # User /\ (r.out = <<k + 1>> \/ r.out[1] = k)
  /\ \E r \in Rs[n] : r.out = User
  /\ \A k \in 1 .. n : \A r \in Rs[k], s \in R : r.in = s.in => s \in Rs[k]
  /\ \A W :
       (\A r \in R : (r.out \in W /\ r.in # User) => r.in \in W) =>
          \A k \in 1 .. n : ((IF k = n THEN User ELSE <<k + 1>>) \in W) =>
            \A j \in 1 .. k : \A r \in Rs[j] : r.in \in W /\ r.out \in W
  /\ \A k \in 1 .. n : \E r \in Rs[k] : r.in = <<k>>

\* The threads of a regular pipeline form a chain.
LEMMA PlainPipeline ==
  ASSUME NEW p, IsPipeline(p), Regular(p)
  PROVE  \E Rs :
           /\ Chain(Roles(p), Rs, Len(p.stages), p.ordered)
           /\ DOMAIN p.stages = 1 .. Len(p.stages)
           /\ \A k \in DOMAIN p.stages :
                (\E r \in Rs[k] : r.kind = "reorder") <=> p.stages[k].kind = "filter"
<1>1. PICK Rs, n, outs :
        /\ Serial(Rs, n, <<>>, <<1>>, outs, p.ordered)
        /\ UNION {ContextThreads(q) : q \in ToSet(Places(p.stages, <<>>, <<1>>, User, p.ordered))}
             = All(Rs, n)
        /\ n = Len(p.stages) /\ n # 0 /\ DOMAIN p.stages = 1 .. n /\ outs[n] = User
        /\ \A k \in 1 .. n :
             /\ Rs[k] = ContextThreads(At(p.stages[k], Append(<<>>, k), p.ordered,
                                          Append(<<>>, k), outs[k]))
             /\ Append(<<>>, k) \in Paths /\ Append(<<>>, k) # User
             /\ k < n => Site(Append(<<>>, k), Append(<<>>, k), outs[k])
  BY PipelineStages
<1> DEFINE R == Roles(p)
           g == Role(Generator, "generate", [kind |-> "generate"], User, <<1>>, {})
           behind(k) == IF k = n THEN User ELSE <<k + 1>>
           P == <<>>
<1>2. R = All(Rs, n) \cup {g}  BY <1>1 DEF Roles
<1>3. g.kind = "generate" /\ g.in = User /\ g.out = <<1>>  BY DEF Role
<1> HIDE DEF g, R
<1>4. /\ n \in Nat /\ p.ordered \in BOOLEAN /\ P \in Paths /\ Len(P) = 0
      /\ \A k : Append(P, k) = <<k>>
  BY <1>1 DEF Serial, IsPipeline, Paths
<1>5. \A r \in R : r = g \/ \E k \in 1 .. n : r \in Rs[k]  BY <1>2 DEF All
<1>6. \A k \in 1 .. n : Rs[k] \subseteq R  BY <1>2 DEF All
<1>7. ASSUME NEW k \in 1 .. n
      PROVE  /\ outs[k] = behind(k)
             /\ k < n => outs[k] = Append(P, k + 1)
             /\ Region(Rs[k], Append(P, k), Entry(P, <<1>>, k), outs[k], p.ordered)
             /\ Entry(P, <<1>>, k) = <<k>>
  <2>1. /\ Region(Rs[k], Append(P, k), Entry(P, <<1>>, k), outs[k], p.ordered)
        /\ k < n => outs[k] = Append(P, k + 1)
    BY <1>1 DEF Serial
  <2>2. k < n \/ k = n  BY <1>4
  <2>3. ~(n < n)  BY <1>4
  <2>4. Entry(P, <<1>>, k) = <<k>>  BY <1>4 DEF Entry
  <2> QED  BY <1>1, <1>4, <2>1, <2>2, <2>3, <2>4
<1>8. ASSUME NEW k \in 1 .. n
      PROVE  /\ Plain(Rs[k], outs[k], p.ordered)
             /\ (\E r \in Rs[k] : r.kind = "reorder") <=> p.stages[k].kind = "filter"
             /\ k = n => \A r \in Rs[k] : r.out = User /\ r.kind # "reorder"
  <2> DEFINE Q == Append(<<>>, k)
  <2>1. Rs[k] = ContextThreads(At(p.stages[k], Q, p.ordered, Q, outs[k])) /\ Q # User
        /\ (k < n => Site(Q, Q, outs[k]))
    BY <1>1
  <2> HIDE DEF Q
  <2>2. k < n \/ k = n  BY <1>4
  <2>3. CASE k < n
    <3>1. IsStage(p.stages[k])  BY <1>1, <2>3 DEF IsPipeline
    <3>2. \/ p.stages[k].kind \in {"stage", "iterate"} \/ (p.stages[k].kind = "filter" /\ p.ordered)
          \/ PlainFarm(p.stages[k]) \/ PlainContext(p.stages[k])
      <4>1. p.stages[k].kind # "consume" /\ p.stages[k].kind # "farm_sink"
        BY <3>1 DEF IsStage, IsSimple, IsFarm, IsContext, SimpleKinds
      <4> QED  BY <1>1, <4>1 DEF Regular
    <3>3. k # n  BY <1>4, <2>3
    <3> QED  BY <1>4, <2>1, <2>3, <3>1, <3>2, <3>3, PlainStage
  <2>4. CASE k = n
    <3>1. IsSink(p.stages[k]) /\ outs[k] = User  BY <1>1, <1>4, <2>4 DEF IsPipeline
    <3>2. p.stages[k].kind # "filter"  BY <3>1 DEF IsSink
    <3>3. Plain(Rs[k], User, p.ordered) /\ \A r \in Rs[k] : r.out = User /\ r.kind # "reorder"
      BY <2>1, <3>1, PlainSink
    <3> QED  BY <3>1, <3>2, <3>3
  <2> QED  BY <2>2, <2>3, <2>4
<1>9. ASSUME NEW k \in 1 .. n, NEW r \in Rs[k]
      PROVE  /\ r.in # User /\ r.in[1] = k
             /\ IF k = n THEN r.out = User /\ r.kind # "reorder"
                         ELSE r.out # User /\ (r.out = <<k + 1>> \/ r.out[1] = k)
  <2> DEFINE Q == Append(P, k)
  <2>1. r.in # User  BY <1>8 DEF Plain
  <2>2. k \in Nat /\ Q \in Paths /\ Len(Q) = 1 /\ Q[1] = k /\ Q = <<k>> /\ Q # User
    <3>1. k \in Nat  BY <1>4
    <3>4. Q # User  BY <1>1
    <3> HIDE DEF P
    <3>2. Q \in Paths /\ Len(Q) = Len(P) + 1 /\ Q[Len(P) + 1] = k  BY <1>4, <3>1, Onward
    <3>3. Len(P) + 1 = 1  BY <1>4
    <3> QED  BY <1>4, <3>1, <3>2, <3>3, <3>4
  <2>3. /\ r.in \in {User, <<k>>} \/ Below(Q, r.in)
        /\ r.out = outs[k] \/ Below(Q, r.out)
    BY <1>7 DEF Region, Located
  <2> HIDE DEF Q, P
  <2>4. \A s : Within(Q, s) => s[1] = k /\ s # User
    BY <2>2, SameStart
  <2>5. r.in[1] = k  BY <2>1, <2>2, <2>3, <2>4 DEF Below
  <2>6. CASE k = n  BY <1>8, <2>1, <2>5, <2>6
  <2>7. CASE k # n
    <3>1. outs[k] = <<k + 1>>  BY <1>7, <2>7
    <3>2. <<k + 1>> # User  BY DEF User
    <3> QED  BY <2>1, <2>3, <2>4, <2>5, <2>7, <3>1, <3>2 DEF Below
  <2> QED  BY <2>6, <2>7
<1>10. \A k \in 1 .. n : \E r \in Rs[k] : r.in = <<k>>
  BY <1>7 DEF Region
<1>11. n \in 1 .. n /\ 1 \in 1 .. n  BY <1>1, <1>4
<1>12. \E r \in Rs[n] : r.out = User  BY <1>9, <1>10, <1>11
<1>13. ASSUME NEW k \in 1 .. n, NEW r \in Rs[k], NEW s \in R, r.in = s.in PROVE s \in Rs[k]
  <2>1. r.in # User /\ s # g  BY <1>3, <1>9, <1>13
  <2>2. PICK j \in 1 .. n : s \in Rs[j]  BY <1>5, <2>1
  <2>3. j = k  BY <1>9, <1>13, <2>2
  <2> QED  BY <2>2, <2>3
<1>14. ASSUME NEW W, \A r \in R : (r.out \in W /\ r.in # User) => r.in \in W,
              NEW k \in 1 .. n, behind(k) \in W
       PROVE  \A j \in 1 .. k : \A r \in Rs[j] : r.in \in W /\ r.out \in W
  <2>1. \A j \in 1 .. n : \A r \in Rs[j] : r.out \in W => r.in \in W
    BY <1>6, <1>9, <1>14
  <2>2. \A j \in 1 .. n : Drains(Rs[j], outs[j])  BY <1>8 DEF Plain
  <2>3. outs[k] \in W  BY <1>7, <1>14
  <2>4. Serial(Rs, n, <<>>, <<1>>, outs, p.ordered)  BY <1>1
  <2> HIDE DEF R
  <2> QED  BY <2>1, <2>2, <2>3, <2>4, SerialDrains
<1>15. Chain(R, Rs, n, p.ordered)
  <2>1. \A r \in R : r.kind = "generate" \/ \E k \in 1 .. n : r \in Rs[k]  BY <1>3, <1>5
  <2>2. \E x \in R : x.kind = "generate"  BY <1>2, <1>3
  <2>3. ASSUME NEW x \in R, x.kind = "generate"
        PROVE  x.in = User /\ x.out = <<1>>
    <3>1. x = g  BY <1>5, <1>8, <2>3 DEF Plain
    <3> QED  BY <1>3, <3>1
  <2>4. \A k \in 1 .. n :
          /\ Rs[k] \subseteq R /\ Plain(Rs[k], behind(k), p.ordered)
          /\ \A r \in Rs[k] :
               /\ r.in # User /\ r.in[1] = k
               /\ IF k = n THEN r.out = User /\ r.kind # "reorder"
                           ELSE r.out # User /\ (r.out = <<k + 1>> \/ r.out[1] = k)
    <3>1. \A k \in 1 .. n : Rs[k] \subseteq R  BY <1>6
    <3>2. \A k \in 1 .. n : Plain(Rs[k], outs[k], p.ordered) /\ outs[k] = behind(k)  BY <1>7, <1>8
    <3>3. \A k \in 1 .. n : Plain(Rs[k], behind(k), p.ordered)
      <4> HIDE DEF behind
      <4> QED  BY <3>2
    <3>4. \A k \in 1 .. n : \A r \in Rs[k] :
               /\ r.in # User /\ r.in[1] = k
               /\ IF k = n THEN r.out = User /\ r.kind # "reorder"
                           ELSE r.out # User /\ (r.out = <<k + 1>> \/ r.out[1] = k)
      BY <1>9
    <3> QED  BY <3>1, <3>3, <3>4
  <2>5. \A k \in 1 .. n : \A r \in Rs[k], s \in R : r.in = s.in => s \in Rs[k]
    BY <1>13
  <2>6. \A W :
          (\A r \in R : (r.out \in W /\ r.in # User) => r.in \in W) =>
             \A k \in 1 .. n : behind(k) \in W =>
               \A j \in 1 .. k : \A r \in Rs[j] : r.in \in W /\ r.out \in W
    BY <1>14
  <2> QED  BY <1>1, <1>4, <1>10, <1>12, <2>1, <2>2, <2>3, <2>4, <2>5, <2>6 DEF Chain
<1>16. \A k \in 1 .. n : (\E r \in Rs[k] : r.kind = "reorder") <=> p.stages[k].kind = "filter"
  BY <1>8
<1> QED  BY <1>1, <1>15, <1>16 DEF R

\* An ordering thread is the way out of its stage.
LEMMA ChainFilters ==
  ASSUME NEW R, NEW Rs, NEW n, NEW ordered, Chain(R, Rs, n, ordered),
         NEW x \in R, x.kind = "reorder"
  PROVE  /\ x.in # User /\ x.out # User /\ ~(x.out[1] <= x.in[1]) /\ ordered
         /\ \A r \in R \ {x} :
              /\ (r.in # User /\ r.out # User) => (x.out[1] <= r.in[1] <=> x.out[1] <= r.out[1])
              /\ r.in = User => ~(x.out[1] <= r.out[1])
              /\ r.out = User => x.out[1] <= r.in[1]
         /\ \A W : (x.in \in W /\ \A r \in R : (r.out \in W /\ r.in # User) => r.in \in W) =>
              \A r \in R : /\ r.in # User => x.out[1] <= r.in[1] \/ r.in \in W
                           /\ r.out # User => x.out[1] <= r.out[1] \/ r.out \in W
<1>1. PICK j \in 1 .. n : x \in Rs[j]  BY DEF Chain
<1>2. n \in Nat /\ \A k : <<k>> # User /\ <<k>>[1] = k  BY DEF Chain, User
<1>3. j # n /\ Plain(Rs[j], <<j + 1>>, ordered)  BY <1>1 DEF Chain
<1>4. /\ x.in # User /\ x.in[1] = j /\ x.out = <<j + 1>> /\ x.out[1] = j + 1 /\ x.out # User
      /\ ordered
      /\ \A r \in Rs[j] \ {x} : r.out = x.in
  BY <1>1, <1>2, <1>3 DEF Chain, Plain
<1>5. ASSUME NEW r \in R, r.kind # "generate"
      PROVE  \E k \in 1 .. n : /\ r \in Rs[k] /\ r.in # User /\ r.in[1] = k
                               /\ r.out = User <=> k = n
                               /\ k # n => r.out[1] \in {k, k + 1}
  <2>1. PICK k \in 1 .. n : r \in Rs[k]  BY <1>5 DEF Chain
  <2>2. /\ r.in # User /\ r.in[1] = k
        /\ IF k = n THEN r.out = User /\ r.kind # "reorder"
                    ELSE r.out # User /\ (r.out = <<k + 1>> \/ r.out[1] = k)
    BY <2>1 DEF Chain
  <2> QED  BY <1>2, <2>1, <2>2
<1>6. \A r \in R : r.kind = "generate" => r.in = User /\ r.out = <<1>> /\ r.out # User /\ r.out[1] = 1
  BY <1>2 DEF Chain
<1>7. ASSUME NEW r \in R \ {x}
      PROVE  /\ (r.in # User /\ r.out # User) => (x.out[1] <= r.in[1] <=> x.out[1] <= r.out[1])
             /\ r.in = User => ~(x.out[1] <= r.out[1])
             /\ r.out = User => x.out[1] <= r.in[1]
  <2>1. CASE r.kind = "generate"  BY <1>2, <1>4, <1>6, <2>1
  <2>2. CASE r.kind # "generate"
    <3>1. PICK k \in 1 .. n : /\ r \in Rs[k] /\ r.in # User /\ r.in[1] = k
                              /\ (r.out = User <=> k = n)
                              /\ k # n => r.out[1] \in {k, k + 1}
      BY <1>5, <2>2
    <3>2. k = j => r.out[1] = j  BY <1>4, <3>1
    <3> QED  BY <1>2, <1>3, <1>4, <3>1, <3>2
  <2> QED  BY <2>1, <2>2
<1>8. ASSUME NEW W, x.in \in W, \A r \in R : (r.out \in W /\ r.in # User) => r.in \in W,
             NEW r \in R
      PROVE  /\ r.in # User => x.out[1] <= r.in[1] \/ r.in \in W
             /\ r.out # User => x.out[1] <= r.out[1] \/ r.out \in W
  <2>1. \A s \in Rs[j] : s.in \in W /\ (s # x => s.out \in W)
    <3>1. Rs[j] \subseteq R /\ \A s \in Rs[j] : s.in # User  BY DEF Chain
    <3> QED  BY <1>4, <1>8, <3>1
  <2>2. \E s \in Rs[j] : s.in = <<j>>  BY DEF Chain
  <2>3. <<j>> \in W  BY <2>1, <2>2
  <2>4. ASSUME NEW k \in 1 .. n, k < j PROVE \A s \in Rs[k] : s.in \in W /\ s.out \in W
    <3> DEFINE l == j - 1
    <3>1. l \in 1 .. n /\ l # n /\ l + 1 = j /\ k \in 1 .. l  BY <1>2, <2>4
    <3> HIDE DEF l
    <3>2. (IF l = n THEN User ELSE <<l + 1>>) \in W  BY <2>3, <3>1
    <3>3. \A i \in 1 .. l : \A s \in Rs[i] : s.in \in W /\ s.out \in W
      BY <1>8, <3>1, <3>2 DEF Chain
    <3> QED  BY <3>1, <3>3
  <2>5. CASE r.kind = "generate"
    <3>1. 1 \in 1 .. n  BY <1>2, <1>1
    <3>2. \E s \in Rs[1] : s.in = <<1>>  BY <3>1 DEF Chain
    <3>3. \A s \in Rs[1] : s.in \in W
      <4>1. CASE j = 1  BY <2>1, <4>1
      <4>2. CASE j # 1  BY <1>2, <2>4, <3>1, <4>2
      <4> QED  BY <4>1, <4>2
    <3> QED  BY <1>6, <2>5, <3>2, <3>3
  <2>6. CASE r.kind # "generate"
    <3>1. PICK k \in 1 .. n : /\ r \in Rs[k] /\ r.in # User /\ r.in[1] = k
                              /\ (r.out = User <=> k = n)
                              /\ k # n => r.out[1] \in {k, k + 1}
      BY <1>5, <2>6
    <3>2. CASE k < j  BY <2>4, <3>1, <3>2
    <3>3. CASE k = j  BY <1>2, <1>4, <2>1, <3>1, <3>3
    <3>4. CASE j < k  BY <1>2, <1>4, <3>1, <3>4
    <3> QED  BY <1>2, <3>2, <3>3, <3>4
  <2> QED  BY <2>5, <2>6
<1>9. ~(x.out[1] <= x.in[1])  BY <1>2, <1>4
<1> QED  BY <1>4, <1>7, <1>8, <1>9

\* The end of the last stage leads to all queues.
LEMMA ChainLeads ==
  ASSUME NEW R, NEW Rs, NEW n, NEW ordered, Chain(R, Rs, n, ordered),
         NEW W, \A r \in R : (r.out \in W /\ r.in # User) => r.in \in W,
         \A r \in R : r.out = User => r.in \in W
  PROVE  \A r \in R : /\ r.in # User => r.in \in W
                      /\ r.out # User => r.out \in W
<1> DEFINE V == W \cup {User}
<1>1. n \in Nat /\ n \in 1 .. n /\ 1 \in 1 .. n  BY DEF Chain
<1>2. \A r \in R : r.kind = "generate" => r.in = User /\ r.out = <<1>>  BY DEF Chain
<1>3. \A r \in R : (r.out \in V /\ r.in # User) => r.in \in V  OBVIOUS
<1>4. (IF n = n THEN User ELSE <<n + 1>>) \in V  OBVIOUS
<1> HIDE DEF V
<1>5. \A k \in 1 .. n : \A r \in Rs[k] : r.in \in V /\ r.out \in V
  BY <1>1, <1>3, <1>4 DEF Chain
<1>6. ASSUME NEW r \in R, r.kind # "generate" PROVE r.in \in V /\ r.out \in V
  BY <1>5, <1>6 DEF Chain
<1>7. <<1>> \in V
  <2>1. \E r \in Rs[1] : r.in = <<1>>  BY <1>1 DEF Chain
  <2> QED  BY <1>1, <1>5, <2>1
<1> QED  BY <1>2, <1>6, <1>7 DEF V

\* The threads a regular pipeline starts with.
LEMMA StraightThreads ==
  ASSUME NEW p, IsPipeline(p), Regular(p), InitFor(p)
  PROVE  /\ \A th \in Threads :
              /\ kind(th) # "reduce" /\ ~OnlyWaits(th) /\ ~IsSequential(th)
              /\ kind(th) \in {"filter", "reorder"} => conf.ordered
         /\ \E th, x \in Threads : kind(th) = "generate" /\ CallsUser(x)
         /\ \A th, x \in Threads : (kind(th) = "consume" /\ CallsUser(x)) => th = x
         /\ \A r, s \in Threads : (kind(r) = "iterate" /\ input_queue(r) = input_queue(s)) => r = s
         /\ Filters /\ Leads
         /\ (\E x \in Threads : IsReorder(x)) <=> \E k \in DOMAIN p.stages : p.stages[k].kind = "filter"
<1> DEFINE R == Roles(p)
           n == Len(p.stages)
           o == p.ordered
<1>1. PICK Rs :
        /\ Chain(R, Rs, n, o)
        /\ DOMAIN p.stages = 1 .. n
        /\ \A k \in DOMAIN p.stages :
             (\E r \in Rs[k] : r.kind = "reorder") <=> p.stages[k].kind = "filter"
  BY PlainPipeline
<1>2. \A r, s \in R : r.id = s.id => r = s
  BY PipelineLinked DEF Linked, LinkedThreads
<1>3. Carries(R)  BY <1>2, InitCarries
<1>4. conf.ordered = o  BY InitFields
<1> HIDE DEF R, n, o
<1>5. \A th \in Threads : \E r \in R : r.id = th
  BY <1>3, ReadRole
<1>6. \A r \in R : /\ r.id \in Threads
                   /\ kind(r.id) = r.kind /\ stage(r.id) = r.stage
                   /\ input_queue(r.id) = r.in /\ output_queue(r.id) = r.out
                   /\ (OnlyWaits(r.id) <=> Waits(r))
  BY <1>3, ReadRole
<1>7. n \in Nat /\ n \in 1 .. n  BY <1>1 DEF Chain
<1>8. ASSUME NEW r \in R, r.kind # "generate"
      PROVE  \E k \in 1 .. n : /\ r \in Rs[k] /\ Rs[k] \subseteq R
                               /\ r.in # User /\ (r.out = User <=> k = n)
                               /\ Plain(Rs[k], IF k = n THEN User ELSE <<k + 1>>, o)
  <2>1. PICK k \in 1 .. n : r \in Rs[k]  BY <1>1, <1>8 DEF Chain
  <2> QED  BY <1>1, <2>1 DEF Chain
<1>9. \A r \in R : r.kind = "generate" => r.in = User /\ r.out = <<1>> /\ r.out # User
  BY <1>1 DEF Chain, User
<1>10. ASSUME NEW th \in Threads
       PROVE  /\ kind(th) # "reduce" /\ ~OnlyWaits(th) /\ ~IsSequential(th)
              /\ kind(th) \in {"filter", "reorder"} => conf.ordered
  <2>1. PICK r \in R : r.id = th  BY <1>5
  <2>2. kind(th) = r.kind /\ stage(th) = r.stage /\ (OnlyWaits(th) <=> Waits(r))  BY <1>6, <2>1
  <2>3. CASE r.kind = "generate"  BY <2>2, <2>3 DEF Waits, Hosts, IsSequential
  <2>4. CASE r.kind # "generate"
    <3>1. PICK k \in 1 .. n : r \in Rs[k] /\ r.in # User
                              /\ Plain(Rs[k], IF k = n THEN User ELSE <<k + 1>>, o)
      BY <1>8, <2>4
    <3>2. /\ r.kind # "reduce" /\ ~(r.kind = "context" /\ r.stage.sequential)
          /\ r.kind \in {"filter", "reorder"} => o
      BY <3>1 DEF Plain
    <3> QED  BY <1>4, <2>2, <3>1, <3>2 DEF Waits, IsSequential
  <2> QED  BY <2>3, <2>4
<1>11. \E th, x \in Threads : kind(th) = "generate" /\ CallsUser(x)
  <2>1. PICK g \in R : g.kind = "generate"  BY <1>1 DEF Chain
  <2>2. PICK r \in R : r.out = User  BY <1>1, <1>7 DEF Chain
  <2> QED  BY <1>6, <2>1, <2>2 DEF CallsUser
<1>12. ASSUME NEW th \in Threads, NEW x \in Threads, kind(th) = "consume", CallsUser(x)
       PROVE  th = x
  <2>1. PICK r \in R : r.id = th  BY <1>5
  <2>2. PICK s \in R : s.id = x  BY <1>5
  <2>3. r.kind = "consume" /\ s.out = User  BY <1>6, <1>12, <2>1, <2>2 DEF CallsUser
  <2>4. s.kind # "generate" /\ r.kind # "generate"  BY <1>9, <2>3
  <2>5. PICK k \in 1 .. n : /\ r \in Rs[k] /\ (r.out = User <=> k = n)
                            /\ Plain(Rs[k], IF k = n THEN User ELSE <<k + 1>>, o)
    BY <1>8, <2>4
  <2>6. PICK l \in 1 .. n : s \in Rs[l] /\ (s.out = User <=> l = n)  BY <1>8, <2>4
  <2>7. r.out = User
    <3>1. LinkedRole(R, r)  BY PipelineLinked DEF Linked, LinkedThreads, R
    <3> QED  BY <2>3, <3>1 DEF LinkedRole
  <2>8. r = s  BY <2>3, <2>5, <2>6, <2>7 DEF Plain
  <2> QED  BY <2>1, <2>2, <2>8
<1>13. ASSUME NEW th \in Threads, NEW x \in Threads, kind(th) = "iterate",
              input_queue(th) = input_queue(x)
       PROVE  th = x
  <2>1. PICK r \in R : r.id = th  BY <1>5
  <2>2. PICK s \in R : s.id = x  BY <1>5
  <2>3. r.kind = "iterate" /\ r.in = s.in  BY <1>6, <1>13, <2>1, <2>2
  <2>4. PICK k \in 1 .. n : r \in Rs[k] /\ Plain(Rs[k], IF k = n THEN User ELSE <<k + 1>>, o)
    BY <1>8, <2>3
  <2>5. s \in Rs[k]  BY <1>1, <2>3, <2>4 DEF Chain
  <2>6. r = s  BY <2>3, <2>4, <2>5 DEF Plain
  <2> QED  BY <2>1, <2>2, <2>6
<1>14. ASSUME NEW x \in Threads, IsReorder(x)
       PROVE  \E s \in R : /\ s.id = x /\ s.kind = "reorder"
                           /\ input_queue(x) = s.in /\ output_queue(x) = s.out
  BY <1>5, <1>6, <1>14 DEF IsReorder
<1>15. Filters
  <2> SUFFICES ASSUME NEW x \in Threads, IsReorder(x)
               PROVE  /\ input_queue(x) # User /\ ~Behind(x, input_queue(x))
                      /\ \A th \in Threads \ {x} :
                           /\ (input_queue(th) # User /\ output_queue(th) # User) =>
                                (Behind(x, input_queue(th)) <=> Behind(x, output_queue(th)))
                           /\ (input_queue(th) = User) => ~Behind(x, output_queue(th))
                           /\ (output_queue(th) = User) => Behind(x, input_queue(th))
    BY DEF Filters
  <2>1. PICK s \in R : /\ s.id = x /\ s.kind = "reorder"
                       /\ input_queue(x) = s.in /\ output_queue(x) = s.out
    BY <1>14
  <2>2. /\ s.in # User /\ ~(s.out[1] <= s.in[1])
        /\ \A r \in R \ {s} :
             /\ (r.in # User /\ r.out # User) => (s.out[1] <= r.in[1] <=> s.out[1] <= r.out[1])
             /\ r.in = User => ~(s.out[1] <= r.out[1])
             /\ r.out = User => s.out[1] <= r.in[1]
    BY <1>1, <2>1, ChainFilters
  <2>3. ASSUME NEW th \in Threads \ {x}
        PROVE  /\ (input_queue(th) # User /\ output_queue(th) # User) =>
                    (Behind(x, input_queue(th)) <=> Behind(x, output_queue(th)))
               /\ (input_queue(th) = User) => ~Behind(x, output_queue(th))
               /\ (output_queue(th) = User) => Behind(x, input_queue(th))
    <3>1. PICK r \in R : r.id = th  BY <1>5
    <3>2. r # s /\ input_queue(th) = r.in /\ output_queue(th) = r.out  BY <1>6, <2>1, <3>1
    <3> QED  BY <2>1, <2>2, <3>2 DEF Behind
  <2> QED  BY <2>1, <2>2, <2>3 DEF Behind
<1>16. \A q \in Queues : \E r \in R : (q = r.in \/ q = r.out) /\ q # User
  BY <1>3 DEF Carries
<1>17. Leads
  <2> SUFFICES ASSUME NEW W \in SUBSET Queues, Upstream(W)
               PROVE  /\ (\A th \in Threads : CallsUser(th) => input_queue(th) \in W) => W = Queues
                      /\ \A x \in Threads : (IsReorder(x) /\ input_queue(x) \in W) =>
                           \A q \in Queues : Behind(x, q) \/ q \in W
    BY DEF Leads
  <2>1. \A r \in R : (r.out \in W /\ r.in # User) => r.in \in W  BY <1>6 DEF Upstream
  <2>2. ASSUME \A th \in Threads : CallsUser(th) => input_queue(th) \in W PROVE W = Queues
    <3>1. \A r \in R : r.out = User => r.in \in W  BY <1>6, <2>2 DEF CallsUser
    <3>2. \A r \in R : (r.in # User => r.in \in W) /\ (r.out # User => r.out \in W)
      BY <1>1, <2>1, <3>1, ChainLeads
    <3> QED  BY <1>16, <3>2
  <2>3. ASSUME NEW x \in Threads, IsReorder(x), input_queue(x) \in W, NEW q \in Queues
        PROVE  Behind(x, q) \/ q \in W
    <3>1. PICK s \in R : /\ s.id = x /\ s.kind = "reorder"
                         /\ input_queue(x) = s.in /\ output_queue(x) = s.out
      BY <1>14, <2>3
    <3>2. PICK r \in R : (q = r.in \/ q = r.out) /\ q # User  BY <1>16
    <3>3. /\ r.in # User => s.out[1] <= r.in[1] \/ r.in \in W
          /\ r.out # User => s.out[1] <= r.out[1] \/ r.out \in W
      <4>1. s.in \in W  BY <2>3, <3>1
      <4>2. \A V : (s.in \in V /\ \A t \in R : (t.out \in V /\ t.in # User) => t.in \in V) =>
              \A t \in R : /\ t.in # User => s.out[1] <= t.in[1] \/ t.in \in V
                           /\ t.out # User => s.out[1] <= t.out[1] \/ t.out \in V
        BY <1>1, <3>1, ChainFilters
      <4> QED  BY <2>1, <4>1, <4>2
    <3> QED  BY <3>1, <3>2, <3>3 DEF Behind
  <2> QED  BY <2>2, <2>3
<1>18. (\E x \in Threads : IsReorder(x)) <=> \E k \in DOMAIN p.stages : p.stages[k].kind = "filter"
  <2>1. ASSUME NEW x \in Threads, IsReorder(x)
        PROVE  \E k \in DOMAIN p.stages : p.stages[k].kind = "filter"
    <3>1. PICK s \in R : s.kind = "reorder"  BY <1>14, <2>1
    <3>2. PICK k \in 1 .. n : s \in Rs[k]  BY <1>8, <3>1
    <3> QED  BY <1>1, <3>1, <3>2
  <2>2. ASSUME NEW k \in DOMAIN p.stages, p.stages[k].kind = "filter"
        PROVE  \E x \in Threads : IsReorder(x)
    <3>1. PICK r \in Rs[k] : r.kind = "reorder"  BY <1>1, <2>2
    <3>2. r \in R  BY <1>1, <3>1 DEF Chain
    <3> QED  BY <1>6, <3>1, <3>2 DEF IsReorder
  <2> QED  BY <2>1, <2>2
<1> QED  BY <1>10, <1>11, <1>12, <1>13, <1>15, <1>17, <1>18

-----------------------------------------------------------------------------
(* What a regular pipeline is to consume. *)

\* What is in the sequences is in their concatenation, and nothing else.
LEMMA FlattenElements ==
  ASSUME NEW S, NEW s \in Seq(Seq(S))
  PROVE  \A x : x \in ToSet(FlattenSeq(s)) <=> \E k \in DOMAIN s : x \in ToSet(s[k])
<1> DEFINE Same(t) == \A x : x \in ToSet(FlattenSeq(t)) <=> \E k \in DOMAIN t : x \in ToSet(t[k])
           D == {k \in Nat : \A t \in Seq(Seq(S)) : Len(t) = k => Same(t)}
<1>1. 0 \in D
  <2>1. \A t \in Seq(Seq(S)) : Len(t) = 0 => t = <<>>  OBVIOUS
  <2>2. DOMAIN <<>> = {}  OBVIOUS
  <2>3. Same(<<>>)  BY <2>2, FlattenEmpty DEF ToSet
  <2> QED  BY <2>1, <2>3
<1>2. ASSUME NEW k \in Nat, k \in D PROVE k + 1 \in D
  <2> SUFFICES ASSUME NEW t \in Seq(Seq(S)), Len(t) = k + 1 PROVE Same(t)
    OBVIOUS
  <2> DEFINE b == SubSeq(t, 1, k)
             f == FlattenSeq(b)
             y == t[k + 1]
  <2>1. b \in Seq(Seq(S)) /\ Len(b) = k /\ y \in Seq(S) /\ t = Append(b, y)
    BY ButLast
  <2>2. /\ DOMAIN t = 1 .. k + 1 /\ DOMAIN b = 1 .. k /\ \A l \in 1 .. k : t[l] = b[l]
    BY <2>1
  <2>3. f \in Seq(S)  BY <2>1, FlattenType
  <2>4. FlattenSeq(t) = f \o y  BY <2>1, FlattenAppend
  <2>5. Same(b)  BY <1>2, <2>1
  <2> HIDE DEF b, f, y
  <2>6. \A x : x \in ToSet(f \o y) <=> (x \in ToSet(f) \/ x \in ToSet(y))
    <3> DEFINE c == f \o y
    <3>1. /\ Len(f) \in Nat /\ Len(y) \in Nat /\ DOMAIN c = 1 .. Len(f) + Len(y)
          /\ DOMAIN f = 1 .. Len(f) /\ DOMAIN y = 1 .. Len(y)
          /\ \A m \in 1 .. Len(f) : c[m] = f[m]
          /\ \A m \in 1 .. Len(y) : c[Len(f) + m] = y[m]
      BY <2>1, <2>3, ConcatElements
    <3> HIDE DEF c
    <3>2. ASSUME NEW x, x \in ToSet(c) PROVE x \in ToSet(f) \/ x \in ToSet(y)
      <4>1. PICK m \in DOMAIN c : x = c[m]  BY <3>2 DEF ToSet
      <4>2. CASE m \in 1 .. Len(f)  BY <3>1, <4>1, <4>2 DEF ToSet
      <4>3. CASE m \notin 1 .. Len(f)
        <5> DEFINE l == m - Len(f)
        <5>1. l \in 1 .. Len(y) /\ m = Len(f) + l  BY <3>1, <4>1, <4>3
        <5> HIDE DEF l
        <5>2. x = y[l]  BY <3>1, <4>1, <5>1
        <5> QED  BY <3>1, <5>1, <5>2 DEF ToSet
      <4> QED  BY <4>2, <4>3
    <3>3. ASSUME NEW x, x \in ToSet(f) PROVE x \in ToSet(c)
      <4>1. PICK m \in 1 .. Len(f) : x = f[m]  BY <3>1, <3>3 DEF ToSet
      <4>2. m \in DOMAIN c /\ c[m] = x  BY <3>1, <4>1
      <4> QED  BY <4>2 DEF ToSet
    <3>4. ASSUME NEW x, x \in ToSet(y) PROVE x \in ToSet(c)
      <4>1. PICK m \in 1 .. Len(y) : x = y[m]  BY <3>1, <3>4 DEF ToSet
      <4>2. Len(f) + m \in DOMAIN c /\ c[Len(f) + m] = x  BY <3>1, <4>1
      <4> QED  BY <4>2 DEF ToSet
    <3> QED  BY <3>2, <3>3, <3>4 DEF c
  <2>7. \A x : (\E l \in DOMAIN t : x \in ToSet(t[l]))
                 <=> ((\E l \in DOMAIN b : x \in ToSet(b[l])) \/ x \in ToSet(y))
    <3>1. t[k + 1] = y  BY DEF y
    <3>2. \A l : l \in 1 .. k + 1 <=> (l \in 1 .. k \/ l = k + 1)  OBVIOUS
    <3> HIDE DEF D
    <3> QED  BY <2>2, <3>1, <3>2
  <2>8. \A x : x \in ToSet(f) <=> \E l \in DOMAIN b : x \in ToSet(b[l])  BY <2>5 DEF f
  <2> QED  BY <2>4, <2>6, <2>7, <2>8
<1> HIDE DEF D
<1>3. Nat \subseteq D  BY <1>1, <1>2, SetInduction
<1>4. Same(s)  BY <1>3 DEF D
<1> QED  BY <1>4

\* The stages held by those of a sequence.
LEMMA UnfoldedElements ==
  ASSUME NEW stages, NEW n \in Nat, DOMAIN stages = 1 .. n,
         \A k \in 1 .. n : IsSeq(Held(stages[k]))
  PROVE  /\ \E S : Unfolded(stages) \in Seq(S)
         /\ \A x : x \in ToSet(Unfolded(stages)) <=> \E k \in 1 .. n : x \in ToSet(Held(stages[k]))
<1> DEFINE S == UNION {ToSet(Held(stages[k])) : k \in 1 .. n}
           s == [k \in 1 .. n |-> Held(stages[k])]
<1>1. \A k \in 1 .. n : s[k] \in Seq(S)
  <2> SUFFICES ASSUME NEW k \in 1 .. n PROVE s[k] \in Seq(S)  OBVIOUS
  <2>1. s[k] \in Seq(ToSet(s[k])) /\ ToSet(s[k]) \subseteq S  BY DEF IsSeq
  <2> HIDE DEF s, S
  <2> QED  BY <2>1
<1>2. s \in Seq(Seq(S)) /\ DOMAIN s = 1 .. n
  <2> HIDE DEF S
  <2> QED  BY <1>1
<1>3. Unfolded(stages) = FlattenSeq(s)  BY DEF Unfolded
<1>4. \A k \in 1 .. n : s[k] = Held(stages[k])  OBVIOUS
<1> HIDE DEF s, S
<1>5. FlattenSeq(s) \in Seq(S)  BY <1>2, FlattenType
<1>6. \A x : x \in ToSet(FlattenSeq(s)) <=> \E k \in DOMAIN s : x \in ToSet(s[k])
  BY <1>2, FlattenElements
<1> QED  BY <1>2, <1>3, <1>4, <1>5, <1>6

\* A stage that holds no other.
LEMMA HeldAlone ==
  ASSUME NEW s, s.kind \notin {"farm", "context"}
  PROVE  IsSeq(Held(s)) /\ ToSet(Held(s)) = {s}
<1> DEFINE t == <<s>>
<1>1. Held(s) = t  BY DEF Held
<1>2. t \in Seq({s}) /\ t # <<>> /\ DOMAIN t = {1} /\ t[1] = s  OBVIOUS
<1>3. ToSet(t) = {s}  BY <1>2 DEF ToSet
<1> HIDE DEF t
<1> QED  BY <1>1, <1>2, <1>3 DEF IsSeq

\* Without their hosts, the stages of a regular pipeline reduce nothing, and filter what
\* the pipeline itself filters.
LEMMA RegularKinds ==
  ASSUME NEW p, IsPipeline(p), Regular(p)
  PROVE  LET U == Unfolded(Unfolded(p.stages)) IN
         \E m \in Nat :
           /\ DOMAIN U = 1 .. m /\ \A k \in 1 .. m : U[k].kind # "reduce"
           /\ (\E k \in 1 .. m : U[k].kind = "filter")
                <=> \E k \in DOMAIN p.stages : p.stages[k].kind = "filter"
<1> DEFINE n == Len(p.stages)
           V == Unfolded(p.stages)
           U == Unfolded(V)
           Plainly(x) == x.kind \in {"stage", "iterate", "consume", "farm_sink", "filter"}
<1>1. n \in Nat /\ DOMAIN p.stages = 1 .. n
  <2>1. IsSeq(p.stages)  BY DEF IsPipeline
  <2> QED  BY <2>1, PlacesAre
<1>2. ASSUME NEW k \in 1 .. n
      PROVE  /\ IsSeq(Held(p.stages[k]))
             /\ \A x \in ToSet(Held(p.stages[k])) :
                  /\ Plainly(x) \/ (IsFarm(x) /\ PlainFarm(x))
                  /\ x.kind = "filter" => x = p.stages[k]
             /\ p.stages[k].kind = "filter" => p.stages[k] \in ToSet(Held(p.stages[k]))
  <2> DEFINE s == p.stages[k]
  <2>1. \/ s.kind \in {"stage", "iterate", "consume", "farm_sink"} \/ (s.kind = "filter" /\ p.ordered)
        \/ PlainFarm(s) \/ PlainContext(s)
    BY <1>1 DEF Regular
  <2>2. IsStage(s) \/ IsSink(s)  BY <1>1 DEF IsPipeline
  <2> HIDE DEF s
  <2>3. CASE Plainly(s)
    <3>1. IsSeq(Held(s)) /\ ToSet(Held(s)) = {s}  BY <2>3, HeldAlone
    <3> QED  BY <2>3, <3>1 DEF s
  <2>4. CASE PlainFarm(s)
    <3>1. IsFarm(s)
      BY <2>2, <2>4 DEF PlainFarm, IsStage, IsSink, IsSimple, IsContext, SimpleKinds
    <3>2. Held(s) = s.inner /\ IsSeq(s.inner) /\ s.kind = "farm"
      BY <2>4, <3>1 DEF PlainFarm, IsFarm, Held
    <3>3. \A x \in ToSet(s.inner) : x.kind = "stage"  BY <2>4 DEF PlainFarm, ToSet
    <3> QED  BY <3>2, <3>3 DEF s
  <2>5. CASE PlainContext(s)
    <3>1. IsContext(s)
      BY <2>2, <2>5 DEF PlainContext, IsStage, IsSink, IsSimple, IsFarm, SimpleKinds
    <3>2. Held(s) = s.inner /\ IsSeq(s.inner) /\ s.kind = "context"
      BY <2>5, <3>1 DEF PlainContext, IsContext, Held
    <3>3. ASSUME NEW l \in DOMAIN s.inner
          PROVE  /\ s.inner[l].kind \in {"stage", "iterate"} \/ (IsFarm(s.inner[l]) /\ PlainFarm(s.inner[l]))
                 /\ s.inner[l].kind # "filter"
      <4>1. s.inner[l].kind \in {"stage", "iterate"} \/ PlainFarm(s.inner[l])
        BY <2>5 DEF PlainContext
      <4>2. IsSimple(s.inner[l]) \/ IsFarm(s.inner[l])
        BY <2>5, <3>1 DEF PlainContext, IsContext
      <4> QED  BY <4>1, <4>2 DEF PlainFarm, IsSimple, SimpleKinds
    <3>4. \A x \in ToSet(s.inner) :
            /\ x.kind \in {"stage", "iterate"} \/ (IsFarm(x) /\ PlainFarm(x))
            /\ x.kind # "filter"
      BY <3>3 DEF ToSet
    <3> QED  BY <3>2, <3>4 DEF s
  <2> QED  BY <2>1, <2>3, <2>4, <2>5
<1>3. /\ \E S : V \in Seq(S)
      /\ \A x : x \in ToSet(V) <=> \E k \in 1 .. n : x \in ToSet(Held(p.stages[k]))
  BY <1>1, <1>2, UnfoldedElements
<1> HIDE DEF V, Plainly
<1>4. Len(V) \in Nat /\ DOMAIN V = 1 .. Len(V)  BY <1>3
<1>5. \A k \in 1 .. Len(V) : V[k] \in ToSet(V)  BY <1>4 DEF ToSet
<1>6. \A x \in ToSet(V) : Plainly(x) \/ (IsFarm(x) /\ PlainFarm(x))  BY <1>2, <1>3
<1>7. (\E x \in ToSet(V) : x.kind = "filter") <=> \E k \in 1 .. n : p.stages[k].kind = "filter"
  BY <1>2, <1>3
<1>8. ASSUME NEW x \in ToSet(V)
      PROVE  /\ IsSeq(Held(x))
             /\ \A y \in ToSet(Held(x)) : y.kind # "reduce" /\ (y.kind = "filter" => y = x)
             /\ x.kind = "filter" => x \in ToSet(Held(x))
  <2>1. CASE Plainly(x)
    <3>1. IsSeq(Held(x)) /\ ToSet(Held(x)) = {x}  BY <2>1, HeldAlone DEF Plainly
    <3> QED  BY <2>1, <3>1 DEF Plainly
  <2>2. CASE IsFarm(x) /\ PlainFarm(x)
    <3>1. Held(x) = x.inner /\ IsSeq(x.inner) /\ x.kind = "farm"
      BY <2>2 DEF PlainFarm, IsFarm, Held
    <3>2. \A y \in ToSet(x.inner) : y.kind = "stage"  BY <2>2 DEF PlainFarm, ToSet
    <3> QED  BY <3>1, <3>2
  <2> QED  BY <1>6, <2>1, <2>2
<1>9. \A k \in 1 .. Len(V) : IsSeq(Held(V[k]))  BY <1>5, <1>8
<1>10. /\ \E S : U \in Seq(S)
       /\ \A x : x \in ToSet(U) <=> \E k \in 1 .. Len(V) : x \in ToSet(Held(V[k]))
  BY <1>4, <1>9, UnfoldedElements
<1> HIDE DEF U
<1>11. Len(U) \in Nat /\ DOMAIN U = 1 .. Len(U)  BY <1>10
<1>12. \A x : x \in ToSet(U) <=> \E v \in ToSet(V) : x \in ToSet(Held(v))
  <2>1. \A v : v \in ToSet(V) <=> \E k \in 1 .. Len(V) : v = V[k]  BY <1>4 DEF ToSet
  <2> QED  BY <1>10, <2>1
<1>13. \A x \in ToSet(U) : x.kind # "reduce"  BY <1>8, <1>12
<1>14. (\E x \in ToSet(U) : x.kind = "filter") <=> \E x \in ToSet(V) : x.kind = "filter"
  BY <1>8, <1>12
<1>15. \A x : x \in ToSet(U) <=> \E k \in 1 .. Len(U) : x = U[k]  BY <1>11 DEF ToSet
<1> DEFINE m == Len(U)
<1>16. m \in Nat /\ DOMAIN U = 1 .. m /\ \A x : x \in ToSet(U) <=> \E k \in 1 .. m : x = U[k]
  BY <1>11, <1>15
<1> HIDE DEF m
<1>17. \A k \in 1 .. m : U[k].kind # "reduce"  BY <1>13, <1>16
<1>18. (\E k \in 1 .. m : U[k].kind = "filter")
         <=> \E k \in DOMAIN p.stages : p.stages[k].kind = "filter"
  BY <1>1, <1>7, <1>14, <1>16
<1>19. U = Unfolded(Unfolded(p.stages))  BY DEF U, V
<1> QED  BY <1>16, <1>17, <1>18, <1>19

-----------------------------------------------------------------------------
(* What a filter keeps. *)

\* A sequence of kept values stays.
LEMMA FilterKeepsAll ==
  ASSUME NEW S, NEW s \in Seq(S), NEW keep, \A k \in DOMAIN s : s[k][1] \in keep
  PROVE  SeqFilter(s, keep) = s
<1> DEFINE one(k) == IF s[k][1] \in keep THEN <<s[k]>> ELSE <<>>
           n == Len(s)
           f(j) == [k \in 1 .. j |-> one(k)]
           D == {j \in Nat : j <= n => FlattenSeq(f(j)) = SubSeq(s, 1, j)}
<1>1. n \in Nat /\ DOMAIN s = 1 .. n  OBVIOUS
<1>2. \A k \in 1 .. n : one(k) = <<s[k]>> /\ <<s[k]>> \in Seq(S) /\ s[k] \in S  BY <1>1
<1> HIDE DEF one
<1>3. 0 \in D
  <2>1. f(0) = <<>> /\ SubSeq(s, 1, 0) = <<>>  OBVIOUS
  <2> QED  BY <2>1, FlattenEmpty
<1>4. ASSUME NEW j \in Nat, j \in D PROVE j + 1 \in D
  <2> SUFFICES ASSUME j + 1 <= n PROVE FlattenSeq(f(j + 1)) = SubSeq(s, 1, j + 1)
    OBVIOUS
  <2>1. j + 1 \in 1 .. n /\ j <= n  BY <1>1
  <2>2. f(j) \in Seq(Seq(S))
    <3>1. ASSUME NEW k \in 1 .. j PROVE one(k) \in Seq(S)
      <4>1. k \in 1 .. n  BY <1>1, <2>1
      <4>2. one(k) = <<s[k]>> /\ <<s[k]>> \in Seq(S)  BY <1>2, <4>1
      <4> QED  BY <4>2
    <3> QED  BY <3>1
  <2>3. f(j + 1) = Append(f(j), one(j + 1))  BY <2>1
  <2>4. FlattenSeq(f(j)) = SubSeq(s, 1, j)  BY <1>4, <2>1
  <2>5. FlattenSeq(f(j + 1)) = SubSeq(s, 1, j) \o <<s[j + 1]>>
    <3> DEFINE b == f(j)
               x == <<s[j + 1]>>
    <3>1. b \in Seq(Seq(S)) /\ x \in Seq(S) /\ f(j + 1) = Append(b, x)  BY <1>2, <2>1, <2>2, <2>3
    <3> HIDE DEF b, x
    <3>2. FlattenSeq(Append(b, x)) = FlattenSeq(b) \o x  BY <3>1, FlattenAppend
    <3> QED  BY <2>4, <3>1, <3>2 DEF b, x
  <2>6. SubSeq(s, 1, j) \o <<s[j + 1]>> = SubSeq(s, 1, j + 1)  BY <1>1, <2>1
  <2> QED  BY <2>5, <2>6
<1> HIDE DEF D
<1>5. Nat \subseteq D  BY <1>3, <1>4, SetInduction
<1>6. FlattenSeq(f(n)) = s
  <2>1. SubSeq(s, 1, n) = s  OBVIOUS
  <2> QED  BY <1>1, <1>5, <2>1 DEF D
<1>7. SeqFilter(s, keep) = FlattenSeq(f(n))  BY <1>1 DEF SeqFilter, one
<1> QED  BY <1>6, <1>7

\* A sequence of the elements of keep among the first j, in their order.
Sifts(A, keep, j) ==
  /\ A \in Seq(Seq(Int))
  /\ Len(A) = Cardinality({y \in keep : y <= j})
  /\ \A k \in 1 .. Len(A) :
       \E e \in keep : A[k] = <<e>> /\ Cardinality({y \in keep : y < e}) = k - 1
  /\ \A e \in keep : e <= j => \E k \in 1 .. Len(A) : A[k] = <<e>>

\* One element more, kept.
LEMMA SiftsKept ==
  ASSUME NEW j \in Nat, NEW n \in Nat, NEW keep \in SUBSET (1 .. n), j + 1 \in keep,
         NEW A, Sifts(A, keep, j)
  PROVE  Sifts(A \o << <<j + 1>> >>, keep, j + 1)
<1> DEFINE Q == Seq(Int)
           x == <<j + 1>>
           B == A \o <<x>>
           lower == {y \in keep : y <= j}
<1>1. A \in Seq(Q) /\ x \in Q /\ x = <<j + 1>>
  BY DEF Sifts
<1>2. Len(A) \in Nat  BY <1>1
<1> HIDE DEF Q, x
<1>3. /\ B \in Seq(Q) /\ Len(B) = Len(A) + 1 /\ B[Len(A) + 1] = x
      /\ \A k \in 1 .. Len(A) : B[k] = A[k]
  BY <1>1
<1> HIDE DEF B
<1>4. \A y \in keep : y \in Int  OBVIOUS
<1>5. {y \in keep : y <= j + 1} = lower \cup {j + 1} /\ j + 1 \notin lower
      /\ {y \in keep : y < j + 1} = lower
  <2>1. \A y \in keep : /\ y <= j + 1 <=> (y <= j \/ y = j + 1)
                        /\ y < j + 1 <=> y <= j
    BY <1>4
  <2>2. ~(j + 1 <= j)  OBVIOUS
  <2>3. {y \in keep : y <= j + 1} = lower \cup {j + 1}  BY <2>1
  <2> QED  BY <2>1, <2>2, <2>3
<1>6. IsFiniteSet(lower)
  <2>1. IsFiniteSet(1 .. n)  BY FS_Interval
  <2>2. lower \subseteq 1 .. n  OBVIOUS
  <2> QED  BY <2>1, <2>2, FS_Subset
<1>7. Len(A) = Cardinality(lower)  BY DEF Sifts
<1> HIDE DEF lower
<1>8. Cardinality({y \in keep : y <= j + 1}) = Len(A) + 1
  <2>1. Cardinality(lower \cup {j + 1}) = Cardinality(lower) + 1  BY <1>5, <1>6, FS_AddElement
  <2> QED  BY <1>5, <1>7, <2>1
<1>9. ASSUME NEW k \in 1 .. Len(B)
      PROVE  \E e \in keep : B[k] = <<e>> /\ Cardinality({y \in keep : y < e}) = k - 1
  <2>1. CASE k \in 1 .. Len(A)
    <3>1. B[k] = A[k]  BY <1>3, <2>1
    <3>2. PICK e \in keep : A[k] = <<e>> /\ Cardinality({y \in keep : y < e}) = k - 1
      BY <2>1 DEF Sifts
    <3> QED  BY <3>1, <3>2
  <2>2. CASE k = Len(A) + 1
    <3>1. B[k] = <<j + 1>>  BY <1>1, <1>3, <2>2
    <3>2. Cardinality({y \in keep : y < j + 1}) = Len(A)  BY <1>5, <1>7
    <3>3. Cardinality({y \in keep : y < j + 1}) = k - 1  BY <1>2, <2>2, <3>2
    <3> QED  BY <3>1, <3>3
  <2>3. k \in 1 .. Len(A) \/ k = Len(A) + 1
    <3>1. Len(B) = Len(A) + 1  BY <1>3
    <3> QED  BY <1>2, <3>1
  <2> QED  BY <2>1, <2>2, <2>3
<1>10. ASSUME NEW e \in keep, e <= j + 1 PROVE \E k \in 1 .. Len(B) : B[k] = <<e>>
  <2>1. CASE e <= j
    <3>1. PICK k \in 1 .. Len(A) : A[k] = <<e>>  BY <2>1 DEF Sifts
    <3>2. k \in 1 .. Len(B) /\ B[k] = A[k]  BY <1>2, <1>3
    <3> QED  BY <3>1, <3>2
  <2>2. CASE e = j + 1
    <3>1. Len(B) \in 1 .. Len(B) /\ B[Len(B)] = <<e>>  BY <1>1, <1>2, <1>3, <2>2
    <3> QED  BY <3>1
  <2> QED  BY <1>4, <1>10, <2>1, <2>2
<1>11. Sifts(B, keep, j + 1)
  BY <1>3, <1>8, <1>9, <1>10 DEF Sifts, Q
<1> QED  BY <1>11 DEF B, x

\* One element more, not kept.
LEMMA SiftsRejected ==
  ASSUME NEW j \in Nat, NEW n \in Nat, NEW keep \in SUBSET (1 .. n), j + 1 \notin keep,
         NEW A, Sifts(A, keep, j)
  PROVE  Sifts(A, keep, j + 1)
<1>1. \A y \in keep : y <= j + 1 <=> y <= j  OBVIOUS
<1>2. {y \in keep : y <= j + 1} = {y \in keep : y <= j}  BY <1>1
<1> QED  BY <1>1, <1>2 DEF Sifts

\* What a filter keeps of the stream of n elements.
LEMMA FilterSifts ==
  ASSUME NEW n \in Nat, NEW keep \in SUBSET (1 .. n)
  PROVE  Sifts(SeqFilter([k \in 1 .. n |-> <<k>>], keep), keep, n)
<1> DEFINE Q == Seq(Int)
           s == [k \in 1 .. n |-> <<k>>]
           one(k) == IF s[k][1] \in keep THEN <<s[k]>> ELSE <<>>
           f(j) == [k \in 1 .. j |-> one(k)]
           D == {j \in Nat : j <= n => Sifts(FlattenSeq(f(j)), keep, j)}
<1>1. \A k \in 1 .. n : s[k] = <<k>> /\ s[k][1] = k /\ s[k] \in Q  OBVIOUS
<1>2. DOMAIN s = 1 .. n  OBVIOUS
<1> HIDE DEF Q, s
<1>3. \A k \in 1 .. n : /\ one(k) \in Seq(Q)
                        /\ k \in keep => one(k) = << <<k>> >>
                        /\ k \notin keep => one(k) = <<>>
  BY <1>1
<1> HIDE DEF one
<1>4. 0 \in D
  <2>1. f(0) = <<>>  OBVIOUS
  <2>2. FlattenSeq(f(0)) = <<>>  BY <2>1, FlattenEmpty
  <2>0. \A y \in keep : ~(y <= 0)  OBVIOUS
  <2>3. {y \in keep : y <= 0} = {}  BY <2>0
  <2>4. Cardinality({y \in keep : y <= 0}) = 0  BY <2>3, FS_EmptySet
  <2>5. <<>> \in Seq(Seq(Int)) /\ Len(<<>>) = 0 /\ 1 .. 0 = {}  OBVIOUS
  <2>6. \A e \in keep : ~(e <= 0)  OBVIOUS
  <2>7. Sifts(<<>>, keep, 0)  BY <2>4, <2>5, <2>6 DEF Sifts
  <2> QED  BY <2>2, <2>7
<1>5. ASSUME NEW j \in Nat, j \in D PROVE j + 1 \in D
  <2> SUFFICES ASSUME j + 1 <= n PROVE Sifts(FlattenSeq(f(j + 1)), keep, j + 1)
    OBVIOUS
  <2>1. j + 1 \in 1 .. n /\ j <= n  OBVIOUS
  <2>2. f(j) \in Seq(Seq(Q))
    <3>1. ASSUME NEW k \in 1 .. j PROVE one(k) \in Seq(Q)
      <4>1. k \in 1 .. n  BY <2>1
      <4> QED  BY <1>3, <4>1
    <3> DEFINE QQ == Seq(Q)
    <3> HIDE DEF QQ
    <3>2. \A k \in 1 .. j : one(k) \in QQ  BY <3>1 DEF QQ
    <3>3. f(j) \in Seq(QQ)  BY <3>2
    <3> QED  BY <3>3 DEF QQ
  <2>3. f(j + 1) = Append(f(j), one(j + 1))  BY <2>1
  <2>4. Sifts(FlattenSeq(f(j)), keep, j)  BY <1>5, <2>1
  <2> DEFINE b == f(j)
             x == one(j + 1)
             A == FlattenSeq(b)
  <2>5. b \in Seq(Seq(Q)) /\ x \in Seq(Q) /\ f(j + 1) = Append(b, x)  BY <1>3, <2>1, <2>2, <2>3
  <2>6. j + 1 \in keep => x = << <<j + 1>> >>  BY <1>3, <2>1
  <2>7. j + 1 \notin keep => x = <<>>  BY <1>3, <2>1
  <2>8. Sifts(A, keep, j)  BY <2>4
  <2> HIDE DEF b, x
  <2>9. FlattenSeq(f(j + 1)) = A \o x  BY <2>5, FlattenAppend
  <2> HIDE DEF A
  <2>10. CASE j + 1 \in keep
    <3>1. Sifts(A \o << <<j + 1>> >>, keep, j + 1)  BY <2>8, <2>10, SiftsKept
    <3> QED  BY <2>6, <2>9, <2>10, <3>1
  <2>11. CASE j + 1 \notin keep
    <3>1. A \in Seq(Q)  BY <2>8 DEF Sifts, Q
    <3>2. A \o <<>> = A  BY <3>1
    <3>3. Sifts(A, keep, j + 1)  BY <2>8, <2>11, SiftsRejected
    <3>4. FlattenSeq(f(j + 1)) = A  BY <2>7, <2>9, <2>11, <3>2
    <3> QED  BY <3>3, <3>4
  <2> QED  BY <2>10, <2>11
<1> HIDE DEF D
<1>6. Nat \subseteq D  BY <1>4, <1>5, SetInduction
<1>7. Sifts(FlattenSeq(f(n)), keep, n)  BY <1>6 DEF D
<1>8. SeqFilter(s, keep) = FlattenSeq(f(n))  BY <1>2 DEF SeqFilter, one
<1> QED  BY <1>7, <1>8 DEF s

-----------------------------------------------------------------------------

(* Folding the stages of a pipeline. *)

\* g applies the stages of s at the positions in a subset of 1 .. n, the last one last.
StageFolds(g, base, s, keep, n) ==
  g = [d \in SUBSET (1 .. n) |->
         IF d = {} THEN base ELSE SeqStage(g[d \ {Max(d)}], s[Max(d)], keep)]

\* The function that FoldLeft defines exists.
LEMMA StageFoldsExists ==
  ASSUME NEW base, NEW s, NEW keep, NEW n \in Nat
  PROVE  \E g : StageFolds(g, base, s, keep, n)
<1> DEFINE D == {k \in Nat : \E g : StageFolds(g, base, s, keep, k)}
<1>1. 0 \in D
  <2> DEFINE e == [d \in SUBSET (1 .. 0) |-> base]
  <2>1. SUBSET (1 .. 0) = {{}}  OBVIOUS
  <2>2. e = [d \in SUBSET (1 .. 0) |-> IF d = {} THEN base ELSE SeqStage(e[d \ {Max(d)}], s[Max(d)], keep)]
    BY <2>1
  <2>3. StageFolds(e, base, s, keep, 0)  BY <2>2 DEF StageFolds
  <2> QED  BY <2>3
<1>2. ASSUME NEW k \in Nat, k \in D PROVE k + 1 \in D
  <2>1. PICK g : StageFolds(g, base, s, keep, k)  BY <1>2
  <2> DEFINE T == SUBSET (1 .. k + 1)
             h == [d \in T |-> IF k + 1 \in d THEN SeqStage(g[d \ {k + 1}], s[k + 1], keep) ELSE g[d]]
             r == [d \in T |-> IF d = {} THEN base ELSE SeqStage(h[d \ {Max(d)}], s[Max(d)], keep)]
  <2>2. ASSUME NEW d \in T PROVE h[d] = r[d]
    <3>1. CASE k + 1 \in d
      <4>1. Max(d) = k + 1  BY <3>1, LastPosition
      <4>2. d \ {k + 1} \in T /\ k + 1 \notin d \ {k + 1} /\ d # {}  BY <3>1
      <4>3. h[d \ {k + 1}] = g[d \ {k + 1}]  BY <4>2
      <4> QED  BY <3>1, <4>1, <4>2, <4>3
    <3>2. CASE k + 1 \notin d
      <4>1. d \in SUBSET (1 .. k)
        <5>1. \A x \in 1 .. k + 1 : x # k + 1 => x \in 1 .. k  OBVIOUS
        <5> QED  BY <3>2, <5>1
      <4>2. g[d] = IF d = {} THEN base ELSE SeqStage(g[d \ {Max(d)}], s[Max(d)], keep)
        BY <2>1, <4>1 DEF StageFolds
      <4>3. d \ {Max(d)} \in T /\ k + 1 \notin d \ {Max(d)}  BY <3>2
      <4>4. h[d] = g[d] /\ h[d \ {Max(d)}] = g[d \ {Max(d)}]  BY <3>2, <4>3
      <4> QED  BY <4>2, <4>4
    <3> QED  BY <3>1, <3>2
  <2>3. h = r
    <3> DEFINE v(d) == IF k + 1 \in d THEN SeqStage(g[d \ {k + 1}], s[k + 1], keep) ELSE g[d]
               w(d) == IF d = {} THEN base ELSE SeqStage(h[d \ {Max(d)}], s[Max(d)], keep)
    <3>1. \A d \in T : v(d) = w(d)  BY <2>2
    <3>2. h = [d \in T |-> v(d)] /\ r = [d \in T |-> w(d)]  OBVIOUS
    <3> HIDE DEF v, w, h, r, T
    <3> QED  BY <3>1, <3>2
  <2>4. StageFolds(h, base, s, keep, k + 1)  BY <2>3 DEF StageFolds
  <2> QED  BY <2>4
<1> HIDE DEF D
<1>3. Nat \subseteq D  BY <1>1, <1>2, SetInduction
<1> QED  BY <1>3 DEF D

\* It applies one stage after the other.
LEMMA StageFoldsStep ==
  ASSUME NEW base, NEW s, NEW keep, NEW n \in Nat, NEW g, StageFolds(g, base, s, keep, n)
  PROVE  /\ g[1 .. 0] = base
         /\ \A k \in Nat : k + 1 <= n => g[1 .. k + 1] = SeqStage(g[1 .. k], s[k + 1], keep)
<1>1. g[1 .. 0] = base
  <2>1. 1 .. 0 = {} /\ {} \in SUBSET (1 .. n)  OBVIOUS
  <2>2. g[{}] = base  BY <2>1 DEF StageFolds
  <2> QED  BY <2>1, <2>2
<1>2. ASSUME NEW k \in Nat, k + 1 <= n
      PROVE  g[1 .. k + 1] = SeqStage(g[1 .. k], s[k + 1], keep)
  <2> DEFINE d == 1 .. k + 1
  <2>1. d \in SUBSET (1 .. k + 1) /\ d \in SUBSET (1 .. n) /\ k + 1 \in d
        /\ d \ {k + 1} = 1 .. k /\ d # {}
    <3>1. \A y : y \in d <=> (y \in 1 .. k \/ y = k + 1)  OBVIOUS
    <3>2. \A y \in d : y \in 1 .. n  BY <1>2
    <3>3. k + 1 \notin 1 .. k  OBVIOUS
    <3>4. d \in SUBSET (1 .. k + 1)  OBVIOUS
    <3> HIDE DEF d
    <3> QED  BY <3>1, <3>2, <3>3, <3>4
  <2>2. Max(d) = k + 1  BY <2>1, LastPosition
  <2> HIDE DEF d
  <2>3. g[d] = IF d = {} THEN base ELSE SeqStage(g[d \ {Max(d)}], s[Max(d)], keep)
    BY <2>1 DEF StageFolds
  <2>4. g[d] = SeqStage(g[1 .. k], s[k + 1], keep)  BY <2>1, <2>2, <2>3
  <2> QED  BY <2>4 DEF d
<1> QED  BY <1>1, <1>2

\* What the sequential pipeline computes, by the stages it has without their hosts.
LEMMA SeqPipelineStages ==
  ASSUME NEW stages, NEW n, NEW keep, NEW m \in Nat,
         DOMAIN Unfolded(Unfolded(stages)) = 1 .. m
  PROVE  \E g : /\ StageFolds(g, [k \in 1 .. n |-> <<k>>], Unfolded(Unfolded(stages)), keep, m)
                /\ SeqPipelineOutput(stages, n, keep) = g[1 .. m]
<1> DEFINE s == Unfolded(Unfolded(stages))
           base == [k \in 1 .. n |-> <<k>>]
           g == CHOOSE f : StageFolds(f, base, s, keep, m)
<1> HIDE DEF s, base
<1>1. StageFolds(g, base, s, keep, m)  BY StageFoldsExists
<1>2. DOMAIN s = 1 .. m  BY DEF s
<1>3. FoldLeft(LAMBDA x, y : SeqStage(x, y, keep), base, s) = g[1 .. m]
  BY <1>2 DEF FoldLeft, MapThenFoldSet, StageFolds
<1>4. SeqPipelineOutput(stages, n, keep) = g[1 .. m]  BY <1>3 DEF SeqPipelineOutput, s, base
<1> HIDE DEF g
<1> QED  BY <1>1, <1>4 DEF s, base

\* Without reductions, all filters keep the same elements: the first one sifts the
\* stream, and the others change nothing.
LEMMA SeqPipelineSifts ==
  ASSUME NEW stages, NEW n \in Nat, NEW keep \in SUBSET (1 .. n), NEW m \in Nat,
         DOMAIN Unfolded(Unfolded(stages)) = 1 .. m,
         \A k \in 1 .. m : Unfolded(Unfolded(stages))[k].kind # "reduce"
  PROVE  LET U == Unfolded(Unfolded(stages))
             x == SeqPipelineOutput(stages, n, keep)
         IN IF \E k \in 1 .. m : U[k].kind = "filter"
            THEN Sifts(x, keep, n)
            ELSE x = [k \in 1 .. n |-> <<k>>]
<1> DEFINE U == Unfolded(Unfolded(stages))
           base == [k \in 1 .. n |-> <<k>>]
           F == SeqFilter(base, keep)
<1>1. PICK g : /\ StageFolds(g, base, U, keep, m)
               /\ SeqPipelineOutput(stages, n, keep) = g[1 .. m]
  BY SeqPipelineStages
<1>2. Sifts(F, keep, n)  BY FilterSifts
<1>3. \A k \in 1 .. m : U[k].kind # "reduce"  OBVIOUS
<1> HIDE DEF U, base, F
<1>4. SeqFilter(F, keep) = F
  <2>1. F \in Seq(Seq(Int)) /\ DOMAIN F = 1 .. Len(F)  BY <1>2 DEF Sifts
  <2>2. ASSUME NEW k \in DOMAIN F PROVE F[k][1] \in keep
    <3>1. PICK e \in keep : F[k] = <<e>>  BY <1>2, <2>1 DEF Sifts
    <3> QED  BY <3>1
  <2> DEFINE Q == Seq(Int)
  <2> HIDE DEF Q
  <2>3. F \in Seq(Q)  BY <2>1 DEF Q
  <2> QED  BY <2>2, <2>3, FilterKeepsAll
<1>5. g[1 .. 0] = base
      /\ \A k \in Nat : k + 1 <= m => g[1 .. k + 1] = SeqStage(g[1 .. k], U[k + 1], keep)
  BY <1>1, StageFoldsStep
<1>6. SeqFilter(base, keep) = F  BY DEF F
<1> DEFINE some(k) == \E l \in 1 .. k : U[l].kind = "filter"
           D == {k \in Nat : k <= m => g[1 .. k] = IF some(k) THEN F ELSE base}
<1>7. 0 \in D  BY <1>5
<1>8. ASSUME NEW k \in Nat, k \in D PROVE k + 1 \in D
  <2> SUFFICES ASSUME k + 1 <= m
               PROVE  g[1 .. k + 1] = IF some(k + 1) THEN F ELSE base
    OBVIOUS
  <2>1. g[1 .. k] = IF some(k) THEN F ELSE base  BY <1>8
  <2>2. some(k + 1) <=> (some(k) \/ U[k + 1].kind = "filter")
    <3>1. \A y : y \in 1 .. k + 1 <=> (y \in 1 .. k \/ y = k + 1)  OBVIOUS
    <3> QED  BY <3>1
  <2>3. g[1 .. k + 1] = SeqStage(g[1 .. k], U[k + 1], keep)  BY <1>5
  <2>4. k + 1 \in 1 .. m /\ U[k + 1].kind # "reduce"  BY <1>3
  <2> HIDE DEF some, D
  <2>5. CASE U[k + 1].kind = "filter"
    <3>1. SeqStage(g[1 .. k], U[k + 1], keep) = SeqFilter(g[1 .. k], keep)
      BY <2>5 DEF SeqStage
    <3> QED  BY <1>4, <1>6, <2>1, <2>2, <2>3, <2>5, <3>1
  <2>6. CASE U[k + 1].kind # "filter"
    <3>1. SeqStage(g[1 .. k], U[k + 1], keep) = g[1 .. k]  BY <2>4, <2>6 DEF SeqStage
    <3> QED  BY <2>1, <2>2, <2>3, <2>6, <3>1
  <2> QED  BY <2>5, <2>6
<1> HIDE DEF D, some
<1>9. Nat \subseteq D  BY <1>7, <1>8, SetInduction
<1>10. g[1 .. m] = IF some(m) THEN F ELSE base  BY <1>9 DEF D
<1> QED  BY <1>1, <1>2, <1>10 DEF some, U, base

\* What a pipeline is to deliver.
LEMMA InitStream ==
  ASSUME NEW p, InitFor(p)
  PROVE  /\ conf.keep \subseteq 1 .. p.length /\ conf.length = p.length
         /\ conf.expected = SeqPipelineOutput(p.stages, p.length, conf.keep)
<1> DEFINE role == [id \in {r.id : r \in Roles(p)} |-> CHOOSE r \in Roles(p) : r.id = id]
           K == IF "filter" \in {s.kind : s \in ToSet(Unfolded(Unfolded(p.stages)))}
                THEN SUBSET (1 .. p.length) ELSE {1 .. p.length}
           N == IF "iterate" \in {s.kind : s \in ToSet(Unfolded(Unfolded(p.stages)))}
                THEN [1 .. p.length -> 1 .. MaxRounds] ELSE {<<>>}
           X(keep) == SeqPipelineOutput(p.stages, p.length, keep)
<1>1. \E keep \in K : \E need \in N :
        conf = [role |-> role, ordered |-> p.ordered, size |-> p.size,
                length |-> p.length, keep |-> keep, need |-> need, expected |-> X(keep)]
  BY DEF InitFor
<1>2. \A keep \in K : keep \subseteq 1 .. p.length  OBVIOUS
<1> HIDE DEF K, N, X, role
<1>3. PICK keep \in K :
        conf.keep = keep /\ conf.length = p.length /\ conf.expected = X(keep)
  BY <1>1
<1> QED  BY <1>2, <1>3 DEF X

\* The stream of n elements, without filters.
LEMMA StreamElements ==
  ASSUME NEW n \in Nat
  PROVE  LET s == [k \in 1 .. n |-> <<k>>] IN
         /\ s \in Seq(Seq(Int)) /\ DOMAIN s = 1 .. n /\ \A k \in 1 .. n : s[k] = <<k>>
<1> DEFINE Q == Seq(Int)
           s == [k \in 1 .. n |-> <<k>>]
<1>1. \A k \in 1 .. n : <<k>> \in Q  OBVIOUS
<1> HIDE DEF Q
<1>2. s \in Seq(Q)  BY <1>1
<1> QED  BY <1>2 DEF Q

\* A regular pipeline is straight: its threads are, and each element it is to
\* deliver has the place that the ordering loops give it.
LEMMA RegularStraight ==
  ASSUME NEW p, IsPipeline(p), Regular(p), InitFor(p)
  PROVE  Straight
<1> DEFINE n == p.length
           x == conf.expected
           keep == conf.keep
           late == \E th \in Threads : IsReorder(th)
<1>1. n \in Nat  BY DEF IsPipeline
<1>2. keep \in SUBSET (1 .. n) /\ conf.length = n
      /\ x = SeqPipelineOutput(p.stages, n, keep)
  BY InitStream
<1>3. late <=> \E k \in DOMAIN p.stages : p.stages[k].kind = "filter"  BY StraightThreads
<1>4. /\ x \in Seq(Seq(Int))
      /\ \A k \in DOMAIN x : \E e \in Chosen : x[k] = <<e>> /\ Number(late, e) = k - 1
      /\ \A e \in Chosen : \E k \in DOMAIN x : x[k] = <<e>>
  <2> DEFINE U == Unfolded(Unfolded(p.stages))
  <2>1. PICK m \in Nat :
          /\ DOMAIN U = 1 .. m /\ \A k \in 1 .. m : U[k].kind # "reduce"
          /\ (\E k \in 1 .. m : U[k].kind = "filter")
               <=> \E k \in DOMAIN p.stages : p.stages[k].kind = "filter"
    BY RegularKinds
  <2> HIDE DEF n, keep
  <2>2. IF \E k \in 1 .. m : U[k].kind = "filter"
        THEN Sifts(SeqPipelineOutput(p.stages, n, keep), keep, n)
        ELSE SeqPipelineOutput(p.stages, n, keep) = [k \in 1 .. n |-> <<k>>]
    BY <1>1, <1>2, <2>1, SeqPipelineSifts
  <2> HIDE DEF U, x, late
  <2>3. IF late THEN Sifts(x, keep, n) ELSE x = [k \in 1 .. n |-> <<k>>]
    BY <1>2, <1>3, <2>1, <2>2
  <2>4. Chosen = IF late THEN keep ELSE 1 .. n  BY <1>2 DEF Chosen, late, keep
  <2>5. CASE late
    <3>1. Chosen = keep /\ Sifts(x, keep, n)  BY <2>3, <2>4, <2>5
    <3>2. DOMAIN x = 1 .. Len(x)  BY <3>1 DEF Sifts
    <3>3. \A e \in keep : e <= n  BY <1>1, <1>2
    <3>4. \A e : Number(late, e) = Cardinality({y \in keep : y < e})
      BY <2>5 DEF Number, Rank, keep
    <3>5. x \in Seq(Seq(Int))  BY <3>1 DEF Sifts
    <3>6. ASSUME NEW k \in DOMAIN x
          PROVE  \E e \in Chosen : x[k] = <<e>> /\ Number(late, e) = k - 1
      <4>1. PICK e \in keep : x[k] = <<e>> /\ Cardinality({y \in keep : y < e}) = k - 1
        BY <3>1, <3>2 DEF Sifts
      <4> QED  BY <3>1, <3>4, <4>1
    <3>7. ASSUME NEW e \in Chosen PROVE \E k \in DOMAIN x : x[k] = <<e>>
      BY <3>1, <3>2, <3>3 DEF Sifts
    <3> QED  BY <3>5, <3>6, <3>7
  <2>6. CASE ~late
    <3>1. Chosen = 1 .. n /\ x = [k \in 1 .. n |-> <<k>>]  BY <2>3, <2>4, <2>6
    <3>2. x \in Seq(Seq(Int)) /\ DOMAIN x = 1 .. n /\ \A k \in 1 .. n : x[k] = <<k>>
      BY <1>1, <3>1, StreamElements
    <3>3. \A e : Number(late, e) = e - 1  BY <2>6 DEF Number
    <3> QED  BY <3>1, <3>2, <3>3
  <2> QED  BY <2>5, <2>6
<1>5. Enumerates(x)
  <2> HIDE DEF x, keep, n
  <2> QED  BY <1>4 DEF Enumerates
<1>6. /\ \A th \in Threads :
           /\ kind(th) # "reduce" /\ ~OnlyWaits(th) /\ ~IsSequential(th)
           /\ kind(th) \in {"filter", "reorder"} => conf.ordered
      /\ \E th, y \in Threads : kind(th) = "generate" /\ CallsUser(y)
      /\ \A th, y \in Threads : (kind(th) = "consume" /\ CallsUser(y)) => th = y
      /\ \A r, s \in Threads : (kind(r) = "iterate" /\ input_queue(r) = input_queue(s)) => r = s
      /\ Filters /\ Leads
  BY StraightThreads
<1> QED  BY <1>2, <1>4, <1>5, <1>6 DEF Straight

\* The pipeline that runs is regular.
RegularStart == \E p \in Pipelines : Regular(p) /\ InitFor(p)

\* Its threads are straight: what the account of the stream rests on holds of every
\* pipeline without reductions, sequential contexts, unordered filters and nested hosts.
THEOREM RegularStartStraight == RegularStart => Straight
BY PipelinesAssumption, RegularStraight DEF RegularStart

-----------------------------------------------------------------------------
(* Where the threads of an iteration come from. *)

\* The threads of an iteration are there for an iteration.
LEMMA SimpleIterates ==
  ASSUME NEW q, NEW r \in SimpleThreads(q), r.kind = "iterate"
  PROVE  q.stage.kind = "iterate"
BY DEF SimpleThreads, Role

LEMMA DelegatedIs ==
  ASSUME NEW s, IsSeq(s.inner), NEW P, NEW ordered, NEW I, NEW O,
         NEW q \in Delegated(At(s, P, ordered, I, O))
  PROVE  \E k \in DOMAIN s.inner : q = Inner(s, P, ordered, I, O, k)
<1> DEFINE p == At(s, P, ordered, I, O)
           n == Len(s.inner)
           ps == Places(s.inner, P, I, O, ordered)
<1>1. InnerPlaces(p) = ps  BY DEF InnerPlaces, At
<1>2. /\ n \in Nat /\ DOMAIN s.inner = 1 .. n
      /\ ToSet(ps) = {Inner(s, P, ordered, I, O, k) : k \in 1 .. n}
      /\ ToSet(Front(ps)) = {Inner(s, P, ordered, I, O, k) : k \in 1 .. n - 1}
  BY PlacesAre DEF Inner
<1>3. q \in ToSet(ps) \/ q \in ToSet(Front(ps))  BY <1>1 DEF Delegated
<1> HIDE DEF ps
<1> QED  BY <1>2, <1>3

\* What a host adds is no iteration.
LEMMA HostIterates ==
  ASSUME NEW what \in {"replica", "context"}, NEW p, NEW created,
         NEW r \in Host(what, p, created), r.kind = "iterate"
  PROVE  r \in created
BY DEF Host, Role

LEMMA ReplicaAt ==
  ASSUME NEW s, NEW P, NEW ordered, NEW I, NEW O, NEW w
  PROVE  [At(s, P, ordered, I, O) EXCEPT !.path = Append(@, w)] = At(s, Append(P, w), ordered, I, O)
<1> DEFINE p == At(s, P, ordered, I, O)
<1>1. p.path = P  BY DEF At
<1>2. [p EXCEPT !.path = Append(@, w)] = [p EXCEPT !.path = Append(P, w)]
  <2> HIDE DEF p
  <2> QED  BY <1>1
<1>3. PICK Q : Q = Append(P, w)  OBVIOUS
<1>4. [p EXCEPT !.path = Q] = At(s, Q, ordered, I, O)  BY SMTT(30) DEF At
<1> QED  BY <1>2, <1>3, <1>4

LEMMA FarmIterates ==
  ASSUME NEW s, IsFarm(s) \/ s.kind # "farm", s.kind # "context", NEW P, NEW ordered, NEW I, NEW O,
         NEW r \in FarmThreads(At(s, P, ordered, I, O)), r.kind = "iterate"
  PROVE  \E x \in ToSet(Held(s)) : x.kind = "iterate"
<1> DEFINE p == At(s, P, ordered, I, O)
<1>1. p.stage = s  BY DEF At
<1>2. CASE s.kind = "farm"
  <2> DEFINE replica(w) == [p EXCEPT !.path = Append(@, w)]
  <2>1. IsFarm(s) /\ IsSeq(s.inner) /\ Held(s) = s.inner  BY <1>2 DEF IsFarm, Held
  <2>2. PICK w \in 1 .. s.n :
          r \in Host("replica", replica(w), UNION {SimpleThreads(q) : q \in Delegated(replica(w))})
    BY <1>1, <1>2 DEF FarmThreads
  <2>3. \A v : replica(v) = At(s, Append(P, v), ordered, I, O)  BY ReplicaAt
  <2> HIDE DEF replica
  <2>4. r \in UNION {SimpleThreads(q) : q \in Delegated(replica(w))}  BY <2>2, HostIterates
  <2>5. PICK q \in Delegated(replica(w)) : r \in SimpleThreads(q)  BY <2>4
  <2>6. PICK k \in DOMAIN s.inner : q = Inner(s, Append(P, w), ordered, I, O, k)
    BY <2>1, <2>3, <2>5, DelegatedIs
  <2>7. q.stage = s.inner[k]  BY <2>6 DEF Inner, At
  <2>8. s.inner[k].kind = "iterate"  BY <2>5, <2>7, SimpleIterates
  <2> QED  BY <2>1, <2>8 DEF ToSet
<1>3. CASE s.kind # "farm"
  <2> HIDE DEF p
  <2>1. r \in SimpleThreads(p)  BY <1>1, <1>3 DEF FarmThreads, p
  <2>2. s.kind = "iterate"  BY <1>1, <2>1, SimpleIterates
  <2>3. ToSet(Held(s)) = {s}  BY <2>2, HeldAlone
  <2> QED  BY <2>2, <2>3
<1> QED  BY <1>2, <1>3

\* Of the stages held by those of a pipeline.
LEMMA StageHolds ==
  ASSUME NEW s, IsStage(s) \/ IsSink(s)
  PROVE  /\ IsSeq(Held(s))
         /\ \A x \in ToSet(Held(s)) :
              IsSeq(Held(x)) /\ x.kind # "context" /\ (IsFarm(x) \/ x.kind # "farm")
<1>1. ASSUME NEW x, IsSimple(x) \/ IsFarm(x) \/ x.kind \in {"stage", "filter", "consume", "farm_sink"}
      PROVE  IsSeq(Held(x)) /\ x.kind # "context" /\ (IsFarm(x) \/ x.kind # "farm")
  <2>1. CASE IsFarm(x)  BY <2>1 DEF IsFarm, Held
  <2>2. CASE x.kind \in SimpleKinds \cup {"consume", "farm_sink"}
    BY <2>2, HeldAlone DEF SimpleKinds
  <2> QED  BY <1>1, <2>1, <2>2 DEF IsSimple, SimpleKinds
<1>2. CASE IsSimple(s) \/ IsSink(s)
  <2>1. s.kind \in SimpleKinds \cup {"consume", "farm_sink"}  BY <1>2 DEF IsSimple, IsSink
  <2>2. IsSeq(Held(s)) /\ ToSet(Held(s)) = {s}  BY <2>1, HeldAlone DEF SimpleKinds
  <2> QED  BY <1>1, <2>1, <2>2 DEF SimpleKinds
<1>3. CASE IsFarm(s)
  <2>1. Held(s) = s.inner /\ IsSeq(s.inner) /\ \A k \in DOMAIN s.inner : IsSimple(s.inner[k])
    BY <1>3 DEF IsFarm, Held
  <2> QED  BY <1>1, <2>1 DEF ToSet
<1>4. CASE IsContext(s)
  <2>1. /\ Held(s) = s.inner /\ IsSeq(s.inner)
        /\ \A k \in DOMAIN s.inner : \/ s.inner[k].kind \in {"stage", "filter"}
                                      \/ IsSimple(s.inner[k]) \/ IsFarm(s.inner[k])
    BY <1>4 DEF IsContext, Held
  <2> QED  BY <1>1, <2>1 DEF ToSet
<1> QED  BY <1>2, <1>3, <1>4 DEF IsStage

LEMMA StageIterates ==
  ASSUME NEW s, IsStage(s) \/ IsSink(s), NEW P, NEW ordered, NEW I, NEW O,
         NEW r \in ContextThreads(At(s, P, ordered, I, O)), r.kind = "iterate"
  PROVE  \E y \in ToSet(Held(s)) : \E x \in ToSet(Held(y)) : x.kind = "iterate"
<1> DEFINE p == At(s, P, ordered, I, O)
<1>1. p.stage = s  BY DEF At
<1>2. CASE s.kind = "context"
  <2>0. IsContext(s)
    BY <1>2 DEF IsStage, IsSink, IsSimple, SimpleKinds, IsFarm
  <2>1. IsSeq(s.inner) /\ Held(s) = s.inner  BY <1>2, <2>0 DEF IsContext, Held
  <2> HIDE DEF p
  <2>2. r \in Host("context", p, UNION {FarmThreads(q) : q \in Delegated(p)})
    <3>1. CASE s.sequential
      <4>1. r \in {Role(p.path, "context", p.stage, p.in, p.out, {})}
        BY <1>1, <1>2, <3>1 DEF ContextThreads, p
      <4> QED  BY <4>1 DEF Role
    <3>2. CASE ~s.sequential
      BY <1>1, <1>2, <3>2 DEF ContextThreads, p
    <3> QED  BY <3>1, <3>2
  <2>3. r \in UNION {FarmThreads(q) : q \in Delegated(p)}  BY <2>2, HostIterates
  <2>4. PICK q \in Delegated(p) : r \in FarmThreads(q)  BY <2>3
  <2>5. PICK k \in DOMAIN s.inner : q = Inner(s, P, ordered, I, O, k)
    BY <2>1, <2>4, DelegatedIs DEF p
  <2>6. s.inner[k] \in ToSet(Held(s))  BY <2>1 DEF ToSet
  <2>7. /\ IsFarm(s.inner[k]) \/ s.inner[k].kind # "farm"
        /\ s.inner[k].kind # "context"
    BY <2>6, StageHolds
  <2>8. \E x \in ToSet(Held(s.inner[k])) : x.kind = "iterate"
    BY <2>4, <2>5, <2>7, FarmIterates DEF Inner
  <2> QED  BY <2>6, <2>8
<1>3. CASE s.kind # "context"
  <2> HIDE DEF p
  <2>1. r \in FarmThreads(p)  BY <1>1, <1>3 DEF ContextThreads, p
  <2>2. IsFarm(s) \/ s.kind # "farm"
    BY <1>3 DEF IsStage, IsSink, IsSimple, SimpleKinds, IsContext
  <2>3. PICK x \in ToSet(Held(s)) : x.kind = "iterate"
    BY <1>3, <2>1, <2>2, FarmIterates DEF p
  <2>4. ToSet(Held(x)) = {x}  BY <2>3, HeldAlone
  <2> QED  BY <2>3, <2>4
<1> QED  BY <1>2, <1>3

LEMMA PipelineIterates ==
  ASSUME NEW p, IsPipeline(p), NEW r \in Roles(p), r.kind = "iterate"
  PROVE  "iterate" \in {s.kind : s \in ToSet(Unfolded(Unfolded(p.stages)))}
<1> DEFINE n == Len(p.stages)
           V == Unfolded(p.stages)
           U == Unfolded(V)
<1>1. /\ n \in Nat /\ DOMAIN p.stages = 1 .. n
      /\ \A k \in 1 .. n : IsStage(p.stages[k]) \/ IsSink(p.stages[k])
  <2>1. IsSeq(p.stages)  BY DEF IsPipeline
  <2>2. n \in Nat /\ DOMAIN p.stages = 1 .. n  BY <2>1, PlacesAre
  <2> QED  BY <2>2 DEF IsPipeline
<1>2. PICK k \in 1 .. n : \E y \in ToSet(Held(p.stages[k])) :
                            \E x \in ToSet(Held(y)) : x.kind = "iterate"
  <2>1. r \notin {Role(Generator, "generate", [kind |-> "generate"], User, <<1>>, {})}
    BY DEF Role
  <2>2. r \in UNION {ContextThreads(q) : q \in ToSet(Places(p.stages, <<>>, <<1>>, User, p.ordered))}
    BY <2>1 DEF Roles
  <2>3. PICK Rs, m, outs :
          /\ Serial(Rs, m, <<>>, <<1>>, outs, p.ordered)
          /\ UNION {ContextThreads(q) : q \in ToSet(Places(p.stages, <<>>, <<1>>, User, p.ordered))}
               = All(Rs, m)
          /\ m = Len(p.stages) /\ m # 0 /\ DOMAIN p.stages = 1 .. m /\ outs[m] = User
          /\ \A k \in 1 .. m :
               /\ Rs[k] = ContextThreads(At(p.stages[k], Append(<<>>, k), p.ordered,
                                            Append(<<>>, k), outs[k]))
               /\ Append(<<>>, k) \in Paths /\ Append(<<>>, k) # User
               /\ k < m => Site(Append(<<>>, k), Append(<<>>, k), outs[k])
    BY PipelineStages
  <2>4. PICK k \in 1 .. n : r \in Rs[k]
    <3>1. r \in All(Rs, m) /\ m = n  BY <2>2, <2>3
    <3> QED  BY <3>1 DEF All
  <2>5. r \in ContextThreads(At(p.stages[k], Append(<<>>, k), p.ordered, Append(<<>>, k), outs[k]))
    BY <2>3, <2>4
  <2> QED  BY <1>1, <2>4, <2>5, StageIterates
<1>3. PICK y \in ToSet(Held(p.stages[k])) : \E x \in ToSet(Held(y)) : x.kind = "iterate"
  BY <1>2
<1>4. PICK x \in ToSet(Held(y)) : x.kind = "iterate"  BY <1>3
<1>5. \A l \in 1 .. n : IsSeq(Held(p.stages[l]))  BY <1>1, StageHolds
<1>6. /\ \E S : V \in Seq(S)
      /\ \A z : z \in ToSet(V) <=> \E l \in 1 .. n : z \in ToSet(Held(p.stages[l]))
  BY <1>1, <1>5, UnfoldedElements
<1> HIDE DEF V
<1>7. Len(V) \in Nat /\ DOMAIN V = 1 .. Len(V)  BY <1>6
<1>8. \A z \in ToSet(V) : IsSeq(Held(z))  BY <1>1, <1>6, StageHolds
<1>9. \A l \in 1 .. Len(V) : IsSeq(Held(V[l]))  BY <1>7, <1>8 DEF ToSet
<1>10. \A z : z \in ToSet(U) <=> \E l \in 1 .. Len(V) : z \in ToSet(Held(V[l]))
  BY <1>7, <1>9, UnfoldedElements
<1>11. y \in ToSet(V)  BY <1>6
<1>12. PICK l \in 1 .. Len(V) : y = V[l]  BY <1>7, <1>11 DEF ToSet
<1>13. x \in ToSet(U)  BY <1>4, <1>10, <1>12
<1> QED  BY <1>4, <1>13 DEF U, V

-----------------------------------------------------------------------------
(* A pipeline has finitely many threads, and one consumer at most. *)

\* What is numbered, or comes from finitely many, is finite.
LEMMA ImageFinite ==
  ASSUME NEW S, IsFiniteSet(S), NEW f
  PROVE  IsFiniteSet({f[x] : x \in S})
<1> DEFINE T == {f[x] : x \in S}
           g == [x \in S |-> f[x]]
<1>1. g \in Surjection(S, T)  BY DEF Surjection
<1> QED  BY <1>1, FS_Surjection

LEMMA RangeFinite ==
  ASSUME NEW n \in Nat
  PROVE  IsFiniteSet(1 .. n)
BY FS_Interval

LEMMA UnionFinite ==
  ASSUME NEW S, IsFiniteSet(S), NEW f, \A x \in S : IsFiniteSet(f[x])
  PROVE  IsFiniteSet(UNION {f[x] : x \in S})
<1>1. IsFiniteSet({f[x] : x \in S})  BY ImageFinite
<1> QED  BY <1>1, FS_UNION

LEMMA SimpleFinite ==
  ASSUME NEW p, p.stage.kind = "farm_sink" => p.stage.n \in Nat
  PROVE  IsFiniteSet(SimpleThreads(p))
<1>1. CASE p.stage.kind = "farm_sink"
  <2> DEFINE f == [w \in 1 .. p.stage.n |-> Role(Append(p.path, w), "farm_sink", p.stage, p.in, User, {})]
  <2>1. SimpleThreads(p) = {f[w] : w \in 1 .. p.stage.n}  BY <1>1 DEF SimpleThreads
  <2> HIDE DEF f
  <2> QED  BY <1>1, <2>1, RangeFinite, ImageFinite
<1>2. CASE p.stage.kind # "farm_sink"
  <2>1. \E a, b : SimpleThreads(p) = {a, b}
    <3>1. CASE p.stage.kind = "filter" /\ p.ordered
      BY <3>1 DEF SimpleThreads
    <3>2. CASE ~(p.stage.kind = "filter" /\ p.ordered)
      <4> DEFINE a == Role(p.path, p.stage.kind, p.stage, p.in, p.out, {})
      <4>1. SimpleThreads(p) = {a}  BY <1>2, <3>2 DEF SimpleThreads
      <4> HIDE DEF a
      <4>2. SimpleThreads(p) = {a, a}  BY <4>1
      <4> QED  BY <4>2
    <3> QED  BY <3>1, <3>2
  <2>2. PICK a, b : SimpleThreads(p) = {a, b}  BY <2>1
  <2>3. IsFiniteSet({a}) /\ {a, b} = {a} \cup {b}  BY FS_Singleton
  <2> QED  BY <2>2, <2>3, FS_AddElement
<1> QED  BY <1>1, <1>2

LEMMA DelegatedFinite ==
  ASSUME NEW s, IsSeq(s.inner), NEW P, NEW ordered, NEW I, NEW O
  PROVE  IsFiniteSet(Delegated(At(s, P, ordered, I, O)))
<1> DEFINE p == At(s, P, ordered, I, O)
           n == Len(s.inner)
           ps == Places(s.inner, P, I, O, ordered)
           f == [k \in 1 .. n |-> Inner(s, P, ordered, I, O, k)]
<1>1. InnerPlaces(p) = ps  BY DEF InnerPlaces, At
<1>2. /\ n \in Nat /\ n # 0
      /\ ToSet(ps) = {Inner(s, P, ordered, I, O, k) : k \in 1 .. n}
      /\ ToSet(Front(ps)) = {Inner(s, P, ordered, I, O, k) : k \in 1 .. n - 1}
  BY PlacesAre DEF Inner
<1> DEFINE m == n - 1
<1> HIDE DEF ps, n
<1>3. m \in Nat /\ \A k \in 1 .. m : k \in 1 .. n  BY <1>2
<1>4. ToSet(Front(ps)) = {Inner(s, P, ordered, I, O, k) : k \in 1 .. m}  BY <1>2
<1>5. \A k \in 1 .. n : f[k] = Inner(s, P, ordered, I, O, k)  OBVIOUS
<1> HIDE DEF f, m
<1>6. ToSet(ps) = {f[k] : k \in 1 .. n} /\ ToSet(Front(ps)) = {f[k] : k \in 1 .. m}
  BY <1>2, <1>3, <1>4, <1>5
<1>7. IsFiniteSet(1 .. n) /\ IsFiniteSet(1 .. m)  BY <1>2, <1>3, RangeFinite
<1>8. IsFiniteSet({f[k] : k \in 1 .. n}) /\ IsFiniteSet({f[k] : k \in 1 .. m})
  BY <1>7, ImageFinite
<1>9. IsFiniteSet(ToSet(ps)) /\ IsFiniteSet(ToSet(Front(ps)))  BY <1>6, <1>8
<1> QED  BY <1>1, <1>9 DEF Delegated

LEMMA HostFinite ==
  ASSUME NEW what, NEW p, NEW created, IsFiniteSet(created)
  PROVE  IsFiniteSet(Host(what, p, created))
BY FS_AddElement DEF Host

LEMMA FarmFinite ==
  ASSUME NEW s, IsFarm(s) \/ IsSimple(s) \/ IsSink(s), NEW P, NEW ordered, NEW I, NEW O
  PROVE  IsFiniteSet(FarmThreads(At(s, P, ordered, I, O)))
<1> DEFINE p == At(s, P, ordered, I, O)
<1>1. p.stage = s  BY DEF At
<1>2. CASE s.kind = "farm"
  <2> DEFINE replica(w) == [p EXCEPT !.path = Append(@, w)]
             crew(w) == Host("replica", replica(w), UNION {SimpleThreads(q) : q \in Delegated(replica(w))})
             f == [w \in 1 .. s.n |-> crew(w)]
  <2>1. IsFarm(s) /\ IsSeq(s.inner) /\ s.n \in Nat
    BY <1>2 DEF IsFarm, IsSimple, SimpleKinds, IsSink
  <2>2. FarmThreads(p) = UNION {crew(w) : w \in 1 .. s.n}
    BY <1>1, <1>2 DEF FarmThreads
  <2>3. \A v : replica(v) = At(s, Append(P, v), ordered, I, O)  BY ReplicaAt
  <2> HIDE DEF replica
  <2>4. ASSUME NEW w \in 1 .. s.n PROVE IsFiniteSet(crew(w))
    <3> DEFINE D == Delegated(replica(w))
               g == [q \in D |-> SimpleThreads(q)]
    <3>1. IsFiniteSet(D)  BY <2>1, <2>3, DelegatedFinite
    <3>2. ASSUME NEW q \in D PROVE IsFiniteSet(SimpleThreads(q))
      <4>1. PICK k \in DOMAIN s.inner : q = Inner(s, Append(P, w), ordered, I, O, k)
        BY <2>1, <2>3, DelegatedIs
      <4>2. q.stage = s.inner[k]  BY <4>1 DEF Inner, At
      <4>3. q.stage.kind # "farm_sink"  BY <2>1, <4>2 DEF IsFarm, IsSimple, SimpleKinds
      <4> QED  BY <4>3, SimpleFinite
    <3>3. UNION {SimpleThreads(q) : q \in D} = UNION {g[q] : q \in D} /\ \A q \in D : g[q] = SimpleThreads(q)
      OBVIOUS
    <3> HIDE DEF g, D
    <3>4. IsFiniteSet(UNION {g[q] : q \in D})  BY <3>1, <3>2, <3>3, UnionFinite
    <3>5. IsFiniteSet(UNION {SimpleThreads(q) : q \in D})  BY <3>3, <3>4
    <3> QED  BY <3>5, HostFinite DEF D
  <2> HIDE DEF crew
  <2>5. \A w \in 1 .. s.n : f[w] = crew(w)  OBVIOUS
  <2>6. FarmThreads(p) = UNION {f[w] : w \in 1 .. s.n}  BY <2>2
  <2> HIDE DEF f
  <2> QED  BY <2>1, <2>4, <2>5, <2>6, RangeFinite, UnionFinite
<1>3. CASE s.kind # "farm"
  <2> HIDE DEF p
  <2>1. FarmThreads(p) = SimpleThreads(p)  BY <1>1, <1>3 DEF FarmThreads
  <2>2. s.kind = "farm_sink" => s.n \in Nat  BY DEF IsFarm, IsSimple, SimpleKinds, IsSink
  <2> QED  BY <1>1, <2>1, <2>2, SimpleFinite DEF p
<1> QED  BY <1>2, <1>3

LEMMA ContextFinite ==
  ASSUME NEW s, IsStage(s) \/ IsSink(s), NEW P, NEW ordered, NEW I, NEW O
  PROVE  IsFiniteSet(ContextThreads(At(s, P, ordered, I, O)))
<1> DEFINE p == At(s, P, ordered, I, O)
<1>1. p.stage = s  BY DEF At
<1>2. CASE s.kind = "context"
  <2>0. IsContext(s)  BY <1>2 DEF IsStage, IsSink, IsSimple, SimpleKinds, IsFarm
  <2>1. IsSeq(s.inner) /\ s.sequential \in BOOLEAN  BY <2>0 DEF IsContext
  <2> HIDE DEF p
  <2>2. CASE s.sequential
    <3> DEFINE a == Role(p.path, "context", p.stage, p.in, p.out, {})
    <3>1. ContextThreads(p) = {a}  BY <1>1, <1>2, <2>2 DEF ContextThreads
    <3> HIDE DEF a
    <3> QED  BY <3>1, FS_Singleton DEF p
  <2>3. CASE ~s.sequential
    <3> DEFINE D == Delegated(p)
               g == [q \in D |-> FarmThreads(q)]
    <3>1. ContextThreads(p) = Host("context", p, UNION {FarmThreads(q) : q \in D})
      BY <1>1, <1>2, <2>3 DEF ContextThreads
    <3>2. IsFiniteSet(D)  BY <2>1, DelegatedFinite DEF p
    <3>3. ASSUME NEW q \in D PROVE IsFiniteSet(FarmThreads(q))
      <4>1. PICK k \in DOMAIN s.inner : q = Inner(s, P, ordered, I, O, k)
        BY <2>1, DelegatedIs DEF p
      <4>2. IsSimple(s.inner[k]) \/ IsFarm(s.inner[k])  BY <2>0, <2>3, <4>1 DEF IsContext
      <4> QED  BY <4>1, <4>2, FarmFinite DEF Inner
    <3>4. UNION {FarmThreads(q) : q \in D} = UNION {g[q] : q \in D} /\ \A q \in D : g[q] = FarmThreads(q)
      OBVIOUS
    <3> HIDE DEF g, D
    <3>5. IsFiniteSet(UNION {g[q] : q \in D})  BY <3>2, <3>3, <3>4, UnionFinite
    <3>6. IsFiniteSet(UNION {FarmThreads(q) : q \in D})  BY <3>4, <3>5
    <3> QED  BY <3>1, <3>6, HostFinite DEF p
  <2> QED  BY <2>1, <2>2, <2>3
<1>3. CASE s.kind # "context"
  <2> HIDE DEF p
  <2>1. ContextThreads(p) = FarmThreads(p)  BY <1>1, <1>3 DEF ContextThreads
  <2>2. IsFarm(s) \/ IsSimple(s) \/ IsSink(s)  BY <1>3 DEF IsStage, IsContext
  <2> QED  BY <2>1, <2>2, FarmFinite DEF p
<1> QED  BY <1>2, <1>3

LEMMA RolesFinite ==
  ASSUME NEW p, IsPipeline(p)
  PROVE  IsFiniteSet(Roles(p))
<1> DEFINE n == Len(p.stages)
           P == <<>>
           I == <<1>>
           at(k) == At(p.stages[k], Append(P, k), p.ordered, Entry(P, I, k),
                       Exit(p.stages, P, User, p.ordered, k))
           D == ToSet(Places(p.stages, P, I, User, p.ordered))
           f == [k \in 1 .. n |-> ContextThreads(at(k))]
           g == Role(Generator, "generate", [kind |-> "generate"], User, <<1>>, {})
<1>1. IsSeq(p.stages)  BY DEF IsPipeline
<1>2. n \in Nat /\ DOMAIN p.stages = 1 .. n /\ D = {at(k) : k \in 1 .. n}
  <2> HIDE DEF P, I
  <2> QED  BY <1>1, PlacesAre
<1>3. Roles(p) = {g} \cup UNION {ContextThreads(q) : q \in D}  BY DEF Roles
<1>4. \A k \in 1 .. n : IsStage(p.stages[k]) \/ IsSink(p.stages[k])  BY <1>2 DEF IsPipeline
<1>5. \A k \in 1 .. n : IsFiniteSet(ContextThreads(at(k)))  BY <1>4, ContextFinite
<1> HIDE DEF at, D, g
<1>6. UNION {ContextThreads(q) : q \in D} = UNION {f[k] : k \in 1 .. n}  BY <1>2
<1>7. \A k \in 1 .. n : IsFiniteSet(f[k])  BY <1>5
<1> HIDE DEF f, n
<1>8. IsFiniteSet(UNION {f[k] : k \in 1 .. n})  BY <1>2, <1>7, RangeFinite, UnionFinite
<1>9. PICK U : U = UNION {f[k] : k \in 1 .. n}  OBVIOUS
<1>10. Roles(p) = U \cup {g}
  <2>1. Roles(p) = {g} \cup UNION {f[k] : k \in 1 .. n}  BY <1>3, <1>6
  <2> QED  BY <1>9, <2>1
<1> QED  BY <1>8, <1>9, <1>10, FS_AddElement

\* Only the last stage can be the consumer, and it is one thread then.
LEMMA OneConsumeRole ==
  ASSUME NEW p, IsPipeline(p), NEW r \in Roles(p), NEW s \in Roles(p),
         r.kind = "consume", s.kind = "consume"
  PROVE  r = s
<1>1. PICK Rs, n, outs :
        /\ Serial(Rs, n, <<>>, <<1>>, outs, p.ordered)
        /\ UNION {ContextThreads(q) : q \in ToSet(Places(p.stages, <<>>, <<1>>, User, p.ordered))}
             = All(Rs, n)
        /\ n = Len(p.stages) /\ n # 0 /\ DOMAIN p.stages = 1 .. n /\ outs[n] = User
        /\ \A k \in 1 .. n :
             /\ Rs[k] = ContextThreads(At(p.stages[k], Append(<<>>, k), p.ordered,
                                          Append(<<>>, k), outs[k]))
             /\ Append(<<>>, k) \in Paths /\ Append(<<>>, k) # User
             /\ k < n => Site(Append(<<>>, k), Append(<<>>, k), outs[k])
  BY PipelineStages
<1>2. n \in Nat  BY <1>1 DEF Serial
<1>3. ASSUME NEW k \in 1 .. n, k < n, NEW c \in Rs[k] PROVE c.kind # "consume"
  <2> DEFINE P == Append(<<>>, k)
  <2>1. P \in Paths /\ Apart(P, outs[k]) /\ outs[k] \in Paths  BY <1>1, <1>3 DEF Site
  <2>2. Region(Rs[k], P, Entry(<<>>, <<1>>, k), outs[k], p.ordered)  BY <1>1 DEF Serial
  <2> HIDE DEF P
  <2>3. c.out = outs[k] \/ Below(P, c.out)  BY <1>3, <2>2 DEF Region, Located
  <2>4. c.out = User <=> c.kind \in {"consume", "farm_sink"}
    BY <1>3, <2>2 DEF Region, LinkedThreads, LinkedRole
  <2>5. Len(<<>>) = 0 /\ Len(P) \in Nat  BY <2>1 DEF Paths
  <2>6. outs[k] # User  BY <2>1, <2>5 DEF Apart, User
  <2>7. Below(P, c.out) => c.out # User  BY <2>5 DEF Below, User
  <2> QED  BY <2>3, <2>4, <2>6, <2>7
<1>4. ASSUME NEW c \in Roles(p), c.kind = "consume" PROVE c \in Rs[n]
  <2>1. c \notin {Role(Generator, "generate", [kind |-> "generate"], User, <<1>>, {})}
    BY <1>4 DEF Role
  <2>2. c \in All(Rs, n)  BY <1>1, <2>1 DEF Roles
  <2>3. PICK k \in 1 .. n : c \in Rs[k]  BY <2>2 DEF All
  <2>4. k < n \/ k = n  BY <1>2
  <2> QED  BY <1>3, <1>4, <2>3, <2>4
<1>5. n \in 1 .. n /\ ~(n < n)  BY <1>1, <1>2
<1> DEFINE q == At(p.stages[n], Append(<<>>, n), p.ordered, Append(<<>>, n), outs[n])
<1>6. IsSink(p.stages[n]) /\ Rs[n] = ContextThreads(q) /\ q.stage = p.stages[n]
  BY <1>1, <1>5 DEF IsPipeline, At
<1> HIDE DEF q
<1>7. p.stages[n].kind \in {"consume", "farm_sink"}  BY <1>6 DEF IsSink
<1>8. Rs[n] = SimpleThreads(q)  BY <1>6, <1>7 DEF ContextThreads, FarmThreads
<1>9. CASE p.stages[n].kind = "consume"
  <2> DEFINE a == Role(q.path, q.stage.kind, q.stage, q.in, q.out, {})
  <2>1. SimpleThreads(q) = {a}  BY <1>6, <1>9 DEF SimpleThreads
  <2> HIDE DEF a
  <2> QED  BY <1>4, <1>8, <2>1
<1>10. CASE p.stages[n].kind = "farm_sink"
  <2>1. \A c \in SimpleThreads(q) : c.kind = "farm_sink"  BY <1>6, <1>10 DEF SimpleThreads, Role
  <2>2. r \in SimpleThreads(q)  BY <1>4, <1>8
  <2> QED  BY <2>1, <2>2
<1> QED  BY <1>7, <1>9, <1>10

=============================================================================
