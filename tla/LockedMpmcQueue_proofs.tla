------------------------ MODULE LockedMpmcQueue_proofs ------------------------
(***************************************************************************)
(* Proofs about LockedMpmcQueue for every finite set of threads, every     *)
(* capacity and every bound on the calls.                                  *)
(***************************************************************************)
EXTENDS LockedMpmcQueue, SequenceLemmas, FiniteSetTheorems, SequenceTheorems, TLAPS

\* The slot of an index is one of buffer_.
LEMMA SlotType == \A k \in Nat : Slot(k) \in 0 .. Size - 1
BY SizeAssumption DEF Slot

\* Two indices between which the ring has not turned have different slots.
LEMMA SlotsDiffer ==
  ASSUME NEW p \in Nat, NEW a \in Nat, NEW b \in Nat, a # b,
         p <= a, a < p + Size, p <= b, b < p + Size
  PROVE  Slot(a) # Slot(b)
BY RingWindow, SizeAssumption, Zenon DEF Slot

\* A step of the scheduling: it leaves the queue itself alone.
QuietStep(t) == \/ PushCall(t) \/ PopCall(t) \/ Lock(t) \/ PushSleep(t)
                \/ PopSleep(t) \/ Notify(t) \/ SpuriousWake(t)

\* A step changes the queue by a put or a take, or it is quiet.
LEMMA StepCases ==
  ASSUME [Next]_vars
  PROVE  \/ UNCHANGED vars
         \/ \E t \in Threads : QuietStep(t) \/ PushPut(t) \/ PopTake(t)
BY DEF Next, QuietStep, Critical

\* Quiet steps leave the indices, the slots and the results alone.
LEMMA QuietUnchanged ==
  ASSUME NEW t \in Threads, QuietStep(t)
  PROVE  UNCHANGED <<buffer, pread, pwrite, pushed, got>>
BY DEF QuietStep, PushCall, PopCall, Lock, PushSleep, PopSleep, Notify, PushNotify,
       PopNotify, SpuriousWake

-----------------------------------------------------------------------------
(* Type correctness and the mutex. *)

\* A queue just constructed has the declared types and satisfies the invariant.
LEMMA InitIInv == Init => IInv
<1> SUFFICES ASSUME Init PROVE IInv  OBVIOUS
<1> USE DEF Init
<1>1. TypeOK  BY SizeAssumption DEF TypeOK, Pc, Nothing
<1>2. MutexHeld /\ SlotContents  BY DEF MutexHeld, SlotContents
<1>3. CounterOrder  BY SizeAssumption DEF CounterOrder
<1>4. At("pop_sleep") = {} /\ At("push_sleep") = {}  BY DEF At
<1>5. NoLostWakeup  BY <1>4 DEF NoLostWakeup, PopsWoken, PushesWoken
<1>6. QED  BY <1>1, <1>2, <1>3, <1>5 DEF IInv

\* Every step keeps the types: what a pop takes out of a slot is an item.
LEMMA NextType ==
  ASSUME IInv, [Next]_vars
  PROVE  TypeOK'
<1> USE DEF IInv, TypeOK
<1>1. CASE UNCHANGED vars  BY <1>1 DEF vars
<1>2. ASSUME NEW t \in Threads, QuietStep(t) PROVE TypeOK'
  <2>1. UNCHANGED <<buffer, pread, pwrite, pushed, got>>
    BY <1>2, QuietUnchanged
  <2>2. pc' \in [Threads -> Pc] /\ mut' \in Threads \cup {Free}
    BY <1>2 DEF QuietStep, PushCall, PopCall, Lock, PushSleep, PopSleep, Notify,
                PushNotify, PopNotify, SpuriousWake, Pc
  <2>3. QED  BY <2>1, <2>2
<1>3. ASSUME NEW t \in Threads, PushPut(t) PROVE TypeOK'
  <2>1. <<t, pushed[t] + 1>> \in Items  BY DEF Items
  <2>2. Slot(pwrite) \in 0 .. Size - 1  BY SlotType
  <2>3. QED  BY <1>3, <2>1, <2>2 DEF PushPut, Pc
<1>4. ASSUME NEW t \in Threads, PopTake(t) PROVE TypeOK'
  <2>1. buffer[Slot(pread)] \in Items  BY <1>4 DEF PopTake, SlotContents
  <2>2. Slot(pread) \in 0 .. Size - 1  BY SlotType
  <2>3. got' \in [Threads -> Seq(Items)]
    <3>1. got[t] \in Seq(Items)  OBVIOUS
    <3>2. Append(got[t], buffer[Slot(pread)]) \in Seq(Items)  BY <2>1, <3>1
    <3>3. QED  BY <1>4, <3>2 DEF PopTake
  <2>4. buffer' \in [0 .. Size - 1 -> Items \cup {Nothing}]
    BY <1>4, <2>2 DEF PopTake
  <2>5. QED  BY <1>4, <2>3, <2>4 DEF PopTake, Pc
<1>5. QED  BY StepCases, <1>1, <1>2, <1>3, <1>4

\* A thread gets into its critical section only with the mutex.
LEMMA NextMutexHeld ==
  ASSUME IInv, [Next]_vars
  PROVE  MutexHeld'
<1> USE FreeAssumption DEF IInv, TypeOK, MutexHeld
<1>1. CASE UNCHANGED vars  BY <1>1 DEF vars
<1>2. ASSUME NEW t \in Threads, QuietStep(t) PROVE MutexHeld'
  <2>1. CASE PushCall(t) \/ PopCall(t)  BY <2>1 DEF PushCall, PopCall
  <2>2. CASE Lock(t)  BY <2>2 DEF Lock
  <2>3. CASE PushSleep(t) \/ PopSleep(t)  BY <2>3 DEF PushSleep, PopSleep
  <2>4. CASE Notify(t)  BY <2>4 DEF Notify, PushNotify, PopNotify, At
  <2>5. CASE SpuriousWake(t)  BY <2>5 DEF SpuriousWake
  <2>6. QED  BY <1>2, <2>1, <2>2, <2>3, <2>4, <2>5 DEF QuietStep
<1>3. ASSUME NEW t \in Threads, PushPut(t) PROVE MutexHeld'  BY <1>3 DEF PushPut
<1>4. ASSUME NEW t \in Threads, PopTake(t) PROVE MutexHeld'  BY <1>4 DEF PopTake
<1>5. QED  BY StepCases, <1>1, <1>2, <1>3, <1>4

-----------------------------------------------------------------------------
(* The ring. *)

\* No step lets pread_ pass pwrite_ nor pwrite_ come a full turn ahead.
LEMMA NextCounterOrder ==
  ASSUME IInv, [Next]_vars
  PROVE  CounterOrder'
<1> USE SizeAssumption DEF IInv, TypeOK, CounterOrder
<1>1. CASE UNCHANGED vars  BY <1>1 DEF vars
<1>2. ASSUME NEW t \in Threads, QuietStep(t) PROVE CounterOrder'
  BY <1>2, QuietUnchanged
<1>3. ASSUME NEW t \in Threads, PushPut(t) PROVE CounterOrder'  BY <1>3 DEF PushPut
<1>4. ASSUME NEW t \in Threads, PopTake(t) PROVE CounterOrder'  BY <1>4 DEF PopTake
<1>5. QED  BY StepCases, <1>1, <1>2, <1>3, <1>4

\* A put writes to a slot outside the stretch between the indices, a take leaves
\* the other slots alone.
LEMMA NextSlotContents ==
  ASSUME IInv, [Next]_vars
  PROVE  SlotContents'
<1> USE DEF IInv, TypeOK
<1>1. CASE UNCHANGED vars  BY <1>1 DEF vars, SlotContents, Slot
<1>2. ASSUME NEW t \in Threads, QuietStep(t) PROVE SlotContents'
  BY <1>2, QuietUnchanged DEF SlotContents
<1>3. ASSUME NEW t \in Threads, PushPut(t) PROVE SlotContents'
  <2> SUFFICES ASSUME NEW k \in pread' .. pwrite' - 1
               PROVE  buffer'[Slot(k)] \in Items
    BY DEF SlotContents, Slot
  <2>k. k \in Nat /\ pread <= k /\ k <= pwrite  BY <1>3 DEF PushPut
  <2>1. /\ buffer' = [buffer EXCEPT ![Slot(pwrite)] = <<t, pushed[t] + 1>>]
        /\ pwrite < pread + Size
    BY <1>3 DEF PushPut
  <2>2. Slot(pwrite) \in 0 .. Size - 1 /\ Slot(k) \in 0 .. Size - 1
    BY <2>k, SlotType
  <2>3. CASE k = pwrite  BY <2>1, <2>2, <2>3 DEF Items
  <2>4. CASE k < pwrite
    <3>1. buffer[Slot(k)] \in Items  BY <2>k, <2>4 DEF SlotContents
    <3>2. k < pread + Size /\ pread <= pwrite /\ k # pwrite
      BY <2>k, <2>1, <2>4, SizeAssumption DEF CounterOrder
    <3>3. Slot(k) # Slot(pwrite)  BY <2>k, <2>1, <3>2, SlotsDiffer
    <3>4. QED  BY <2>1, <2>2, <3>1, <3>3
  <2>5. QED  BY <2>k, <2>3, <2>4
<1>4. ASSUME NEW t \in Threads, PopTake(t) PROVE SlotContents'
  <2> SUFFICES ASSUME NEW k \in Nat, pread + 1 <= k, k < pwrite
               PROVE  buffer'[Slot(k)] \in Items
    BY <1>4 DEF SlotContents, PopTake
  <2>1. buffer' = [buffer EXCEPT ![Slot(pread)] = Nothing]  BY <1>4 DEF PopTake
  <2>2. Slot(pread) \in 0 .. Size - 1 /\ Slot(k) \in 0 .. Size - 1  BY SlotType
  <2>3. buffer[Slot(k)] \in Items  BY DEF SlotContents
  <2>4. k < pread + Size /\ pread < pread + Size /\ k # pread
    BY SizeAssumption DEF CounterOrder
  <2>5. Slot(k) # Slot(pread)  BY <2>4, SlotsDiffer
  <2>6. QED  BY <2>1, <2>2, <2>3, <2>5
<1>5. QED  BY StepCases, <1>1, <1>2, <1>3, <1>4

-----------------------------------------------------------------------------
(* No lost wake-up. *)

\* The threads at a place are finitely many.
LEMMA AtFinite ==
  \A l : At(l) \subseteq Threads /\ IsFiniteSet(At(l)) /\ Cardinality(At(l)) \in Nat
BY ThreadsAssumption, FS_Subset, FS_CardinalityType DEF At

\* What a set of threads counts when one joins it, leaves it, or more join it.
LEMMA Counting ==
  ASSUME NEW S, NEW U, S \subseteq Threads, U \subseteq Threads
  PROVE  /\ IsFiniteSet(S) /\ Cardinality(S) \in Nat
         /\ S \subseteq U => Cardinality(S) <= Cardinality(U)
         /\ \A t \in Threads \ S : Cardinality(S \cup {t}) = Cardinality(S) + 1
         /\ \A t \in S : Cardinality(S \ {t}) = Cardinality(S) - 1
<1>1. IsFiniteSet(S) /\ IsFiniteSet(U)  BY ThreadsAssumption, FS_Subset
<1>2. Cardinality(S) \in Nat  BY <1>1, FS_CardinalityType
<1>3. S \subseteq U => Cardinality(S) <= Cardinality(U)  BY <1>1, FS_Subset
<1>4. ASSUME NEW t \in Threads \ S PROVE Cardinality(S \cup {t}) = Cardinality(S) + 1
  BY <1>1, FS_AddElement
<1>5. ASSUME NEW t \in S PROVE Cardinality(S \ {t}) = Cardinality(S) - 1
  BY <1>1, FS_RemoveElement
<1>6. QED  BY <1>1, <1>2, <1>3, <1>4, <1>5

\* While a pop sleeps, an item that comes comes with a push about to notify, and a
\* notification that is used up puts a pop on its way.
LEMMA NextPopsWoken ==
  ASSUME IInv, [Next]_vars
  PROVE  PopsWoken'
<1> USE DEF IInv, TypeOK, NoLostWakeup
<1>t. \A l : At(l) \subseteq Threads  BY DEF At
<1>n. At("push_notify")' \subseteq Threads /\ OnWayToPop' \subseteq Threads
  BY DEF At, OnWayToPop
<1>c. /\ OnWayToPop \subseteq Threads
      /\ Cardinality(At("push_notify")) \in Nat /\ Cardinality(OnWayToPop) \in Nat
      /\ Cardinality(At("push_notify")') \in Nat /\ Cardinality(OnWayToPop') \in Nat
  BY <1>t, <1>n, Counting DEF OnWayToPop
<1>1. ASSUME At("push_notify") \subseteq At("push_notify")',
             OnWayToPop \subseteq OnWayToPop',
             At("pop_sleep")' \subseteq At("pop_sleep"),
             UNCHANGED <<pread, pwrite>>
      PROVE  PopsWoken'
  <2>1. /\ Cardinality(At("push_notify")) <= Cardinality(At("push_notify")')
        /\ Cardinality(OnWayToPop) <= Cardinality(OnWayToPop')
    BY <1>1, <1>t, <1>n, <1>c, Counting
  <2>2. QED  BY <1>1, <1>c, <2>1 DEF PopsWoken
<1>2. CASE UNCHANGED vars
  BY <1>1, <1>2 DEF vars, At, OnWayToPop
<1>3. ASSUME NEW t \in Threads,
             \/ PushCall(t) \/ PopCall(t) \/ Lock(t) \/ PushSleep(t)
             \/ PopNotify(t) \/ SpuriousWake(t)
      PROVE  PopsWoken'
  <2>1. UNCHANGED <<pread, pwrite>>
    BY <1>3 DEF PushCall, PopCall, Lock, PushSleep, PopNotify, SpuriousWake
  <2>2. /\ At("push_notify") \subseteq At("push_notify")'
        /\ OnWayToPop \subseteq OnWayToPop'
        /\ At("pop_sleep")' \subseteq At("pop_sleep")
    BY <1>3 DEF PushCall, PopCall, Lock, PushSleep, PopNotify, SpuriousWake, At,
                OnWayToPop
  <2>3. QED  BY <1>1, <2>1, <2>2
<1>4. ASSUME NEW t \in Threads, PopSleep(t) PROVE PopsWoken'
  <2>1. pwrite' - pread' <= 0  BY <1>4 DEF PopSleep
  <2>2. QED  BY <1>4, <1>c, <2>1 DEF PopsWoken, PopSleep
<1>5. ASSUME NEW t \in Threads, PushPut(t) PROVE PopsWoken'
  <2>1. /\ t \notin At("push_notify")
        /\ At("push_notify")' = At("push_notify") \cup {t}
        /\ OnWayToPop' = OnWayToPop
        /\ At("pop_sleep")' = At("pop_sleep")
    BY <1>5 DEF PushPut, At, OnWayToPop
  <2>2. Cardinality(At("push_notify")') = Cardinality(At("push_notify")) + 1
    BY <1>t, <2>1, Counting
  <2>3. pread' = pread /\ pwrite' = pwrite + 1  BY <1>5 DEF PushPut
  <2>4. QED  BY <1>c, <2>1, <2>2, <2>3 DEF PopsWoken
<1>6. ASSUME NEW t \in Threads, PopTake(t) PROVE PopsWoken'
  <2>1. /\ At("push_notify")' = At("push_notify")
        /\ t \in OnWayToPop
        /\ OnWayToPop' = OnWayToPop \ {t}
        /\ At("pop_sleep")' = At("pop_sleep")
    BY <1>6 DEF PopTake, At, OnWayToPop
  <2>2. Cardinality(OnWayToPop') = Cardinality(OnWayToPop) - 1
    BY <1>c, <2>1, Counting
  <2>3. pread' = pread + 1 /\ pwrite' = pwrite  BY <1>6 DEF PopTake
  <2>4. QED  BY <1>c, <2>1, <2>2, <2>3 DEF PopsWoken
<1>7. ASSUME NEW t \in Threads, PushNotify(t) PROVE PopsWoken'
  <2>1. CASE At("pop_sleep") = {}
    <3>1. At("pop_sleep")' = {}  BY <1>7, <2>1 DEF PushNotify, At
    <3>2. QED  BY <3>1 DEF PopsWoken
  <2>2. CASE At("pop_sleep") # {}
    <3>1. PICK u \in At("pop_sleep") : pc' = [pc EXCEPT ![t] = "idle", ![u] = "pop_lock"]
      BY <1>7, <2>2 DEF PushNotify
    <3>2. pc[t] = "push_notify" /\ u \in Threads /\ pc[u] = "pop_sleep" /\ t # u
      BY <1>7, <3>1 DEF PushNotify, At
    <3>3. /\ t \in At("push_notify")
          /\ At("push_notify")' = At("push_notify") \ {t}
          /\ u \notin OnWayToPop
          /\ OnWayToPop' = OnWayToPop \cup {u}
      BY <3>1, <3>2 DEF At, OnWayToPop
    <3>4. /\ Cardinality(At("push_notify")') = Cardinality(At("push_notify")) - 1
          /\ Cardinality(OnWayToPop') = Cardinality(OnWayToPop) + 1
      BY <1>t, <1>c, <3>2, <3>3, Counting
    <3>5. pread' = pread /\ pwrite' = pwrite  BY <1>7 DEF PushNotify
    <3>6. QED  BY <1>c, <2>2, <3>4, <3>5 DEF PopsWoken
  <2>3. QED  BY <2>1, <2>2
<1>8. QED  BY StepCases, <1>2, <1>3, <1>4, <1>5, <1>6, <1>7 DEF QuietStep, Notify

\* The same for the pushes: while one sleeps, a slot that becomes free comes with a
\* pop about to notify, and a notification that is used up puts a push on its way.
LEMMA NextPushesWoken ==
  ASSUME IInv, [Next]_vars
  PROVE  PushesWoken'
<1> USE SizeAssumption DEF IInv, TypeOK, NoLostWakeup
<1>t. \A l : At(l) \subseteq Threads  BY DEF At
<1>n. At("pop_notify")' \subseteq Threads /\ OnWayToPush' \subseteq Threads
  BY DEF At, OnWayToPush
<1>c. /\ OnWayToPush \subseteq Threads
      /\ Cardinality(At("pop_notify")) \in Nat /\ Cardinality(OnWayToPush) \in Nat
      /\ Cardinality(At("pop_notify")') \in Nat /\ Cardinality(OnWayToPush') \in Nat
  BY <1>t, <1>n, Counting DEF OnWayToPush
<1>1. ASSUME At("pop_notify") \subseteq At("pop_notify")',
             OnWayToPush \subseteq OnWayToPush',
             At("push_sleep")' \subseteq At("push_sleep"),
             UNCHANGED <<pread, pwrite>>
      PROVE  PushesWoken'
  <2>1. /\ Cardinality(At("pop_notify")) <= Cardinality(At("pop_notify")')
        /\ Cardinality(OnWayToPush) <= Cardinality(OnWayToPush')
    BY <1>1, <1>t, <1>n, <1>c, Counting
  <2>2. QED  BY <1>1, <1>c, <2>1 DEF PushesWoken
<1>2. CASE UNCHANGED vars
  BY <1>1, <1>2 DEF vars, At, OnWayToPush
<1>3. ASSUME NEW t \in Threads,
             \/ PushCall(t) \/ PopCall(t) \/ Lock(t) \/ PopSleep(t)
             \/ PushNotify(t) \/ SpuriousWake(t)
      PROVE  PushesWoken'
  <2>1. UNCHANGED <<pread, pwrite>>
    BY <1>3 DEF PushCall, PopCall, Lock, PopSleep, PushNotify, SpuriousWake
  <2>2. /\ At("pop_notify") \subseteq At("pop_notify")'
        /\ OnWayToPush \subseteq OnWayToPush'
        /\ At("push_sleep")' \subseteq At("push_sleep")
    BY <1>3 DEF PushCall, PopCall, Lock, PopSleep, PushNotify, SpuriousWake, At,
                OnWayToPush
  <2>3. QED  BY <1>1, <2>1, <2>2
<1>4. ASSUME NEW t \in Threads, PushSleep(t) PROVE PushesWoken'
  <2>1. Size - (pwrite' - pread') <= 0  BY <1>4 DEF PushSleep
  <2>2. QED  BY <1>4, <1>c, <2>1 DEF PushesWoken, PushSleep
<1>5. ASSUME NEW t \in Threads, PopTake(t) PROVE PushesWoken'
  <2>1. /\ t \notin At("pop_notify")
        /\ At("pop_notify")' = At("pop_notify") \cup {t}
        /\ OnWayToPush' = OnWayToPush
        /\ At("push_sleep")' = At("push_sleep")
    BY <1>5 DEF PopTake, At, OnWayToPush
  <2>2. Cardinality(At("pop_notify")') = Cardinality(At("pop_notify")) + 1
    BY <1>t, <2>1, Counting
  <2>3. pread' = pread + 1 /\ pwrite' = pwrite  BY <1>5 DEF PopTake
  <2>4. QED  BY <1>c, <2>1, <2>2, <2>3 DEF PushesWoken
<1>6. ASSUME NEW t \in Threads, PushPut(t) PROVE PushesWoken'
  <2>1. /\ At("pop_notify")' = At("pop_notify")
        /\ t \in OnWayToPush
        /\ OnWayToPush' = OnWayToPush \ {t}
        /\ At("push_sleep")' = At("push_sleep")
    BY <1>6 DEF PushPut, At, OnWayToPush
  <2>2. Cardinality(OnWayToPush') = Cardinality(OnWayToPush) - 1
    BY <1>c, <2>1, Counting
  <2>3. pread' = pread /\ pwrite' = pwrite + 1  BY <1>6 DEF PushPut
  <2>4. QED  BY <1>c, <2>1, <2>2, <2>3 DEF PushesWoken
<1>7. ASSUME NEW t \in Threads, PopNotify(t) PROVE PushesWoken'
  <2>1. CASE At("push_sleep") = {}
    <3>1. At("push_sleep")' = {}  BY <1>7, <2>1 DEF PopNotify, At
    <3>2. QED  BY <3>1 DEF PushesWoken
  <2>2. CASE At("push_sleep") # {}
    <3>1. PICK u \in At("push_sleep") : pc' = [pc EXCEPT ![t] = "idle", ![u] = "push_lock"]
      BY <1>7, <2>2 DEF PopNotify
    <3>2. pc[t] = "pop_notify" /\ u \in Threads /\ pc[u] = "push_sleep" /\ t # u
      BY <1>7, <3>1 DEF PopNotify, At
    <3>3. /\ t \in At("pop_notify")
          /\ At("pop_notify")' = At("pop_notify") \ {t}
          /\ u \notin OnWayToPush
          /\ OnWayToPush' = OnWayToPush \cup {u}
      BY <3>1, <3>2 DEF At, OnWayToPush
    <3>4. /\ Cardinality(At("pop_notify")') = Cardinality(At("pop_notify")) - 1
          /\ Cardinality(OnWayToPush') = Cardinality(OnWayToPush) + 1
      BY <1>t, <1>c, <3>2, <3>3, Counting
    <3>5. pread' = pread /\ pwrite' = pwrite  BY <1>7 DEF PopNotify
    <3>6. QED  BY <1>c, <2>2, <3>4, <3>5 DEF PushesWoken
  <2>3. QED  BY <2>1, <2>2
<1>8. QED  BY StepCases, <1>2, <1>3, <1>4, <1>5, <1>6, <1>7 DEF QuietStep, Notify

-----------------------------------------------------------------------------
(* The invariant. *)

\* The invariant is inductive.
LEMMA NextIInv == IInv /\ [Next]_vars => IInv'
<1> SUFFICES ASSUME IInv, [Next]_vars PROVE IInv'  OBVIOUS
<1>1. TypeOK' /\ MutexHeld'  BY NextType, NextMutexHeld
<1>2. CounterOrder' /\ SlotContents'  BY NextCounterOrder, NextSlotContents
<1>3. NoLostWakeup'  BY NextPopsWoken, NextPushesWoken DEF NoLostWakeup
<1>4. QED  BY <1>1, <1>2, <1>3 DEF IInv

\* In every execution the variables have their types, one thread at most is in its
\* critical section, the indices are at most a ring apart, the slots between them
\* hold items and no wake-up is lost.
THEOREM Invariance == Spec => []IInv
BY InitIInv, NextIInv, PTL DEF Spec

\* notify_one after the mutex is released loses no wake-up: while a pop sleeps each
\* item, and while a push sleeps each free slot, has a thread that sees to it.
THEOREM WakeupsKept == Spec => []NoLostWakeup
<1>1. IInv => NoLostWakeup  BY DEF IInv
<1>2. QED  BY <1>1, Invariance, PTL

-----------------------------------------------------------------------------
(* The queue implements BoundedQueue. *)

\* The contents are a sequence of items, one for each index between the two.
LEMMA ContentsType ==
  ASSUME TypeOK, CounterOrder, SlotContents
  PROVE  /\ Contents \in Seq(Items)
         /\ Len(Contents) = pwrite - pread
         /\ \A i \in 1 .. pwrite - pread : Contents[i] = buffer[Slot(pread + i - 1)]
<1> DEFINE n == pwrite - pread
<1>1. pread \in Nat /\ pwrite \in Nat /\ n \in Nat  BY DEF TypeOK, CounterOrder
<1>2. ASSUME NEW i \in 1 .. n PROVE buffer[Slot(pread + i - 1)] \in Items
  <2>1. pread + i - 1 \in pread .. pwrite - 1  BY <1>1
  <2>2. QED  BY <2>1 DEF SlotContents
<1>3. Contents = [i \in 1 .. n |-> buffer[Slot(pread + i - 1)]]  BY DEF Contents
<1> HIDE DEF n
<1>4. Contents \in [1 .. n -> Items]  BY <1>2, <1>3
<1>5. Contents \in Seq(Items) /\ Len(Contents) = n  BY <1>1, <1>4
<1>6. \A i \in 1 .. n : Contents[i] = buffer[Slot(pread + i - 1)]  BY <1>3
<1>7. QED  BY <1>5, <1>6 DEF n

\* So they are after a step.
LEMMA ContentsTypeNext ==
  ASSUME TypeOK', CounterOrder', SlotContents'
  PROVE  /\ Contents' \in Seq(Items)
         /\ Len(Contents') = pwrite' - pread'
         /\ \A i \in 1 .. pwrite' - pread' : Contents'[i] = buffer'[Slot(pread' + i - 1)]
<1> DEFINE n == pwrite' - pread'
<1>a. pread' \in Nat /\ pwrite' \in Nat /\ pread' <= pwrite'  BY DEF TypeOK, CounterOrder
<1> DEFINE p == pread'  w == pwrite'
<1>b. p \in Nat /\ w \in Nat /\ p <= w  BY <1>a
<1> HIDE DEF p, w
<1>c. w - p \in Nat /\ \A i \in 1 .. w - p : p + i - 1 \in p .. w - 1  BY <1>b
<1>1. /\ pread' \in Nat /\ pwrite' \in Nat /\ n \in Nat
      /\ \A i \in 1 .. n : pread' + i - 1 \in pread' .. pwrite' - 1
  BY <1>a, <1>c, Zenon DEF p, w
<1>2. ASSUME NEW i \in 1 .. n PROVE buffer'[Slot(pread' + i - 1)] \in Items
  <2>1. pread' + i - 1 \in pread' .. pwrite' - 1  BY <1>1
  <2>2. QED  BY <2>1 DEF SlotContents, Slot
<1>3. Contents' = [i \in 1 .. n |-> buffer'[Slot(pread' + i - 1)]]
  BY DEF Contents, Slot
<1> HIDE DEF n
<1>4. Contents' \in [1 .. n -> Items]  BY <1>2, <1>3
<1>5. Contents' \in Seq(Items) /\ Len(Contents') = n  BY <1>1, <1>4
<1>6. \A i \in 1 .. n : Contents'[i] = buffer'[Slot(pread' + i - 1)]  BY <1>3
<1>7. QED  BY <1>5, <1>6 DEF n

\* What a push stores is an item.
LEMMA NextItem == ASSUME TypeOK, NEW t \in Threads PROVE <<t, pushed[t] + 1>> \in Items
<1>1. pushed[t] \in Nat  BY DEF TypeOK
<1>2. pushed[t] + 1 \in Nat \ {0}  BY <1>1
<1>3. QED  BY <1>2 DEF Items

\* Storing an item and advancing pwrite_ appends it to the contents.
LEMMA PutAppends ==
  ASSUME IInv, IInv', NEW t \in Threads, PushPut(t)
  PROVE  Contents' = Append(Contents, <<t, pushed[t] + 1>>)
<1> USE DEF IInv, TypeOK, CounterOrder
<1> DEFINE x == <<t, pushed[t] + 1>>
           n == pwrite - pread
<1>1. /\ buffer' = [buffer EXCEPT ![Slot(pwrite)] = x]
      /\ pwrite' = pwrite + 1 /\ pread' = pread /\ pwrite < pread + Size
  BY DEF PushPut
<1>2. x \in Items  BY NextItem
<1>3. /\ Contents \in Seq(Items) /\ Len(Contents) = n /\ n \in Nat
      /\ \A i \in 1 .. n : Contents[i] = buffer[Slot(pread + i - 1)]
  BY ContentsType
<1>4. /\ Contents' \in Seq(Items)
      /\ Len(Contents') = n + 1
      /\ \A i \in 1 .. n + 1 : Contents'[i] = buffer'[Slot(pread + i - 1)]
  <2>1. /\ Contents' \in Seq(Items) /\ Len(Contents') = pwrite' - pread'
        /\ \A i \in 1 .. pwrite' - pread' : Contents'[i] = buffer'[Slot(pread' + i - 1)]
    BY ContentsTypeNext
  <2>2. pwrite' - pread' = n + 1  BY <1>1
  <2>3. QED  BY <1>1, <2>1, <2>2
<1> HIDE DEF x, n
<1>a. \A s \in Seq(Items), e \in Items :
        /\ Append(s, e) \in Seq(Items)
        /\ Len(Append(s, e)) = Len(s) + 1
        /\ \A i \in 1 .. Len(s) : Append(s, e)[i] = s[i]
        /\ Append(s, e)[Len(s) + 1] = e
  OBVIOUS
<1>5. /\ Append(Contents, x) \in Seq(Items)
      /\ Len(Append(Contents, x)) = n + 1
      /\ \A i \in 1 .. n : Append(Contents, x)[i] = Contents[i]
      /\ Append(Contents, x)[n + 1] = x
  BY <1>2, <1>3, <1>a, Zenon
<1>6. ASSUME NEW i \in 1 .. n + 1 PROVE Contents'[i] = Append(Contents, x)[i]
  <2>a. i \in Nat /\ pread + i - 1 \in Nat  BY <1>3
  <2>1. pread + i - 1 \in Nat /\ Slot(pwrite) \in 0 .. Size - 1
        /\ Slot(pread + i - 1) \in 0 .. Size - 1
    BY <2>a, SlotType
  <2>2. CASE i = n + 1
    <3>1. pread + i - 1 = pwrite  BY <2>2 DEF n
    <3>2. QED  BY <1>1, <1>4, <1>5, <2>1, <2>2, <3>1
  <2>3. CASE i \in 1 .. n
    <3>1. /\ pread <= pread + i - 1 /\ pread + i - 1 < pread + Size
          /\ pread <= pwrite /\ pread + i - 1 # pwrite
      BY <1>1, <1>3, <2>3, SizeAssumption DEF n
    <3>2. Slot(pread + i - 1) # Slot(pwrite)
      BY <1>1, <2>1, <3>1, SlotsDiffer
    <3>3. buffer'[Slot(pread + i - 1)] = buffer[Slot(pread + i - 1)]
      BY <1>1, <2>1, <3>2
    <3>4. QED  BY <1>3, <1>4, <1>5, <2>3, <3>3
  <2>4. QED  BY <1>3, <2>2, <2>3
<1>7. Contents' = Append(Contents, x)  BY <1>4, <1>5, <1>6, SeqEqual
<1>8. QED  BY <1>7 DEF x

\* Taking an item and advancing pread_ removes the first of the contents.
LEMMA TakeRemoves ==
  ASSUME IInv, IInv', NEW t \in Threads, PopTake(t)
  PROVE  /\ Contents # <<>>
         /\ Head(Contents) = buffer[Slot(pread)]
         /\ Contents' = Tail(Contents)
<1> USE DEF IInv, TypeOK, CounterOrder
<1> DEFINE n == pwrite - pread
<1>1. /\ buffer' = [buffer EXCEPT ![Slot(pread)] = Nothing]
      /\ pread' = pread + 1 /\ pwrite' = pwrite /\ pread < pwrite
  BY DEF PopTake
<1>a. n \in Nat \ {0}  BY <1>1
<1>b. /\ Contents \in Seq(Items) /\ Len(Contents) = n
      /\ \A i \in 1 .. n : Contents[i] = buffer[Slot(pread + i - 1)]
  BY ContentsType
<1>2. /\ Contents \in Seq(Items) /\ Len(Contents) = n /\ n \in Nat \ {0}
      /\ \A i \in 1 .. n : Contents[i] = buffer[Slot(pread + i - 1)]
  BY <1>a, <1>b
<1>3. /\ Contents' \in Seq(Items)
      /\ Len(Contents') = n - 1
      /\ \A i \in 1 .. n - 1 : Contents'[i] = buffer'[Slot(pread + i)]
  <2>1. /\ Contents' \in Seq(Items) /\ Len(Contents') = pwrite' - pread'
        /\ \A i \in 1 .. pwrite' - pread' : Contents'[i] = buffer'[Slot(pread' + i - 1)]
    BY ContentsTypeNext
  <2>2. pwrite' - pread' = n - 1  BY <1>1
  <2>3. \A i \in 1 .. n - 1 : pread' + i - 1 = pread + i  BY <1>1
  <2>4. QED  BY <1>1, <2>1, <2>2, <2>3
<1>4. pread + 1 - 1 = pread /\ n < Size + 1  BY SizeAssumption
<1> HIDE DEF n
<1>5. Contents # <<>> /\ Head(Contents) = buffer[Slot(pread)]
  BY <1>2, <1>4
<1>6. /\ Tail(Contents) \in Seq(Items)
      /\ Len(Tail(Contents)) = n - 1
      /\ \A i \in 1 .. n - 1 : Tail(Contents)[i] = Contents[i + 1]
  BY <1>2, <1>5, HeadTailProperties
<1>7. ASSUME NEW i \in 1 .. n - 1 PROVE Contents'[i] = Tail(Contents)[i]
  <2>a. i \in Nat /\ pread + i \in Nat  BY <1>2
  <2>1. /\ pread + i \in Nat /\ Slot(pread) \in 0 .. Size - 1
        /\ Slot(pread + i) \in 0 .. Size - 1
    BY <2>a, SlotType
  <2>2. /\ pread <= pread + i /\ pread + i < pread + Size
        /\ pread < pread + Size /\ pread + i # pread
    BY <1>2, <1>4, <2>a, SizeAssumption
  <2>3. Slot(pread + i) # Slot(pread)  BY <2>1, <2>2, SlotsDiffer
  <2>4. buffer'[Slot(pread + i)] = buffer[Slot(pread + i)]  BY <1>1, <2>1, <2>3
  <2>5. i + 1 \in 1 .. n /\ pread + (i + 1) - 1 = pread + i  BY <1>2
  <2>6. QED  BY <1>2, <1>3, <1>6, <2>4, <2>5
<1>8. Contents' = Tail(Contents)  BY <1>3, <1>6, <1>7, SeqEqual
<1>9. QED  BY <1>5, <1>8

\* A step that leaves the indices and the slots alone leaves the contents alone.
LEMMA ContentsKept ==
  ASSUME UNCHANGED <<buffer, pread, pwrite>>
  PROVE  Contents' = Contents
BY DEF Contents, Slot

\* A put is a push of the bounded queue, a take is a pop, the other steps do
\* nothing to it.
LEMMA StepRefines ==
  ASSUME IInv, [Next]_vars
  PROVE  [BQ!Next]_BQ!vars
<1>i. IInv'  BY NextIInv
<1> USE DEF IInv, TypeOK, CounterOrder
<1>1. CASE UNCHANGED vars  BY <1>1, ContentsKept DEF vars, BQ!vars
<1>2. ASSUME NEW t \in Threads, QuietStep(t) PROVE UNCHANGED BQ!vars
  BY <1>2, QuietUnchanged, ContentsKept DEF BQ!vars
<1>3. ASSUME NEW t \in Threads, PushPut(t) PROVE BQ!Push(t)
  <2>1. Contents' = Append(Contents, BQ!Item(t, pushed[t] + 1))
    BY <1>i, <1>3, PutAppends DEF BQ!Item
  <2>2. Len(Contents) < Size
    <3>1. Len(Contents) = pwrite - pread  BY ContentsType
    <3>2. QED  BY <1>3, <3>1, SizeAssumption DEF PushPut
  <2>3. QED  BY <1>3, <2>1, <2>2 DEF PushPut, BQ!Push
<1>4. ASSUME NEW t \in Threads, PopTake(t) PROVE BQ!Pop(t)
  <2>1. Contents # <<>> /\ Head(Contents) = buffer[Slot(pread)]
        /\ Contents' = Tail(Contents)
    BY <1>i, <1>4, TakeRemoves
  <2>2. QED  BY <1>4, <2>1 DEF PopTake, BQ!Pop
<1>5. QED  BY StepCases, <1>1, <1>2, <1>3, <1>4 DEF BQ!Next

\* A queue just constructed is the empty bounded queue.
LEMMA InitRefines == Init => BQ!Init
<1> SUFFICES ASSUME Init PROVE BQ!Init  OBVIOUS
<1>1. Contents = <<>>  BY DEF Init, Contents
<1>2. QED  BY <1>1 DEF Init, BQ!Init

\* The mutex queue is a linearizable bounded FIFO queue: every execution is one of
\* BoundedQueue.
THEOREM Refinement == Spec => ImplementsBoundedQueue
<1>1. IInv /\ [Next]_vars => [BQ!Next]_BQ!vars  BY StepRefines
<1>2. QED
  BY InitRefines, <1>1, Invariance, PTL DEF Spec, BQ!Spec, ImplementsBoundedQueue

=============================================================================
