----------------------- MODULE AtomicMpmcQueue_proofs -----------------------
(***************************************************************************)
(* Proofs about AtomicMpmcQueue for every set of threads, every capacity   *)
(* and every bound on the calls.                                           *)
(***************************************************************************)
EXTENDS AtomicMpmcQueue, SequenceLemmas, SequenceTheorems, TLAPS

(* Arithmetic of the ring. *)

\* The slot of a ticket is an index of buffer_.
LEMMA SlotType == \A k \in Nat : Slot(k) \in 0 .. Size - 1
BY SizeAssumption DEF Slot

-----------------------------------------------------------------------------
(* Type correctness. *)

\* A queue just constructed has the declared types: empty slots, counters at 0.
LEMMA InitType == Init => TypeOK
BY SizeAssumption DEF Init, TypeOK, Pc, PushPc, PopPc, Nothing

\* Every atomic step of push and pop keeps the types; a ticket's slot is always
\* an index of buffer_.
LEMMA NextType == TypeOK /\ [Next]_vars => TypeOK'
<1> SUFFICES ASSUME TypeOK, [Next]_vars PROVE TypeOK'  OBVIOUS
<1> USE DEF TypeOK
<1>1. CASE UNCHANGED vars  BY <1>1 DEF vars, counters
<1>2. ASSUME NEW t \in Threads, PushStart(t) PROVE TypeOK'
  BY <1>2 DEF PushStart, counters, Pc, PushPc, PopPc
<1>3. ASSUME NEW t \in Threads, PushTicket(t) PROVE TypeOK'
  BY <1>3 DEF PushTicket, Pc, PushPc, PopPc
<1>4. ASSUME NEW t \in Threads, PushRetry(t) PROVE TypeOK'
  BY <1>4 DEF PushRetry, counters
<1>5. ASSUME NEW t \in Threads, PushWait(t) PROVE TypeOK'
  BY <1>5 DEF PushWait, counters, Pc, PushPc, PopPc
<1>6. ASSUME NEW t \in Threads, PushWrite(t) PROVE TypeOK'
  <2>1. Arg(t) \in Items  BY DEF Arg, Items
  <2>2. buffer' \in [0 .. Size - 1 -> Items \cup {Nothing}]
    BY <1>6, <2>1 DEF PushWrite
  <2>3. QED  BY <1>6, <2>2 DEF PushWrite, counters, Pc, PushPc, PopPc
<1>7. ASSUME NEW t \in Threads, PushPublish(t) PROVE TypeOK'
  <2>1. Arg(t) \in Items  BY DEF Arg, Items
  <2>2. log' \in Seq(Items)  BY <1>7, <2>1 DEF PushPublish
  <2>3. QED  BY <1>7, <2>2 DEF PushPublish, Pc, PushPc, PopPc
<1>8. ASSUME NEW t \in Threads, PopStart(t) PROVE TypeOK'
  BY <1>8 DEF PopStart, counters, Pc, PushPc, PopPc
<1>9. ASSUME NEW t \in Threads, PopTicket(t) PROVE TypeOK'
  BY <1>9 DEF PopTicket, Pc, PushPc, PopPc
<1>10. ASSUME NEW t \in Threads, PopRetry(t) PROVE TypeOK'
  BY <1>10 DEF PopRetry, counters
<1>11. ASSUME NEW t \in Threads, PopWait(t) PROVE TypeOK'
  BY <1>11 DEF PopWait, counters, Pc, PushPc, PopPc
<1>12. ASSUME NEW t \in Threads, PopMove(t) PROVE TypeOK'
  <2>1. buffer[Slot(current[t])] \in Items \cup {Nothing}  BY SlotType
  <2>2. item' \in [Threads -> Items \cup {Nothing}]
    BY <1>12, <2>1 DEF PopMove
  <2>3. buffer' \in [0 .. Size - 1 -> Items \cup {Nothing}]
    BY <1>12 DEF PopMove
  <2>4. QED  BY <1>12, <2>2, <2>3 DEF PopMove, counters, Pc, PushPc, PopPc
<1>13. ASSUME NEW t \in Threads, PopPublish(t) PROVE TypeOK'
  <2>1. Append(got[t], item[t]) \in Seq(Items \cup {Nothing})  OBVIOUS
  <2>2. got' \in [Threads -> Seq(Items \cup {Nothing})]
    BY <1>13, <2>1 DEF PopPublish
  <2>3. item' \in [Threads -> Items \cup {Nothing}]
    BY <1>13 DEF PopPublish
  <2>4. QED  BY <1>13, <2>2, <2>3 DEF PopPublish, Pc, PushPc, PopPc
<1>14. QED
  BY <1>1, <1>2, <1>3, <1>4, <1>5, <1>6, <1>7, <1>8, <1>9, <1>10, <1>11,
     <1>12, <1>13
  DEF Next, PushStep, PopStep

\* Type correctness of every reachable state.
THEOREM TypeCorrect == Spec => []TypeOK
BY InitType, NextType, PTL DEF Spec

-----------------------------------------------------------------------------
(* The inductive invariant. *)

\* A queue just constructed satisfies the inductive invariant.
LEMMA InitIInv == Init => IInv
<1> SUFFICES ASSUME Init PROVE IInv  OBVIOUS
<1>1. TypeOK  BY InitType
<1>2. CounterOrder  BY SizeAssumption DEF Init, CounterOrder
<1>3. TicketRange /\ TicketUnique
  BY DEF Init, TicketRange, TicketUnique, PushPc, PopPc
<1>4. SlotContents  BY DEF Init, SlotContents
<1>5. QED  BY <1>1, <1>2, <1>3, <1>4 DEF IInv

\* A step that advances no counter: of a call's tickets and slots it changes at
\* most how far the call has got.
QuietStep(t) == \/ PushStart(t) \/ PushRetry(t) \/ PushWait(t) \/ PushWrite(t)
                \/ PopStart(t) \/ PopRetry(t) \/ PopWait(t) \/ PopMove(t)

\* A step of the queue takes a push or pop ticket, writes a slot, publishes a
\* push or a pop, or (QuietStep) changes only the local state of one call.
LEMMA StepCases ==
  ASSUME [Next]_vars
  PROVE  \/ UNCHANGED vars
         \/ \E t \in Threads : \/ QuietStep(t) \/ PushTicket(t) \/ PushPublish(t)
                               \/ PopTicket(t) \/ PopPublish(t)
BY DEF Next, PushStep, PopStep, QuietStep

\* No step lets the public counters overtake the ticket counters, the pops the
\* pushes, or the pushes the pops by more than the size of the ring.
LEMMA NextCounterOrder ==
  ASSUME IInv, [Next]_vars
  PROVE  CounterOrder'
<1> USE SizeAssumption DEF IInv, TypeOK, CounterOrder
<1>1. CASE UNCHANGED vars  BY <1>1 DEF vars, counters
<1>2. ASSUME NEW t \in Threads, QuietStep(t) PROVE CounterOrder'
  BY <1>2 DEF QuietStep, PushStart, PushRetry, PushWait, PushWrite, PopStart,
              PopRetry, PopWait, PopMove, counters
<1>3. ASSUME NEW t \in Threads, PushTicket(t) PROVE CounterOrder'
  BY <1>3 DEF PushTicket
<1>4. ASSUME NEW t \in Threads, PushPublish(t) PROVE CounterOrder'
  <2>1. current[t] < pread + Size /\ current[t] < internal_pwrite
    BY <1>4 DEF PushPublish, TicketRange, PushPc
  <2>2. Len(log') = Len(log) + 1
    <3>1. Arg(t) \in Items  BY DEF Arg, Items
    <3>2. QED  BY <1>4, <3>1 DEF PushPublish
  <2>3. QED  BY <1>4, <2>1, <2>2 DEF PushPublish
<1>5. ASSUME NEW t \in Threads, PopTicket(t) PROVE CounterOrder'
  BY <1>5 DEF PopTicket
<1>6. ASSUME NEW t \in Threads, PopPublish(t) PROVE CounterOrder'
  <2>1. current[t] < pwrite /\ current[t] < internal_pread
    BY <1>6 DEF PopPublish, TicketRange, PopPc
  <2>2. QED  BY <1>6, <2>1 DEF PopPublish
<1>7. QED  BY StepCases, <1>1, <1>2, <1>3, <1>4, <1>5, <1>6

\* The compare-and-swap on a public counter succeeds only from its own ticket, so
\* publishing never leaves a waiting ticket behind the counter.
LEMMA NextTicketRange ==
  ASSUME IInv, [Next]_vars
  PROVE  TicketRange'
<1> USE SizeAssumption DEF IInv, TypeOK, CounterOrder, TicketRange, PushPc, PopPc
<1>1. CASE UNCHANGED vars  BY <1>1 DEF vars, counters
<1>2. ASSUME NEW t \in Threads, QuietStep(t) PROVE TicketRange'
  <2>1. UNCHANGED <<pread, pwrite, internal_pread, internal_pwrite>>
    BY <1>2 DEF QuietStep, PushStart, PushRetry, PushWait, PushWrite, PopStart,
                PopRetry, PopWait, PopMove, counters
  <2>2. CASE PushStart(t)  BY <2>1, <2>2 DEF PushStart
  <2>3. CASE PushRetry(t)  BY <2>1, <2>3 DEF PushRetry
  <2>4. CASE PushWait(t)  BY <2>1, <2>4 DEF PushWait
  <2>5. CASE PushWrite(t)  BY <2>1, <2>5 DEF PushWrite
  <2>6. CASE PopStart(t)  BY <2>1, <2>6 DEF PopStart
  <2>7. CASE PopRetry(t)  BY <2>1, <2>7 DEF PopRetry
  <2>8. CASE PopWait(t)  BY <2>1, <2>8 DEF PopWait
  <2>9. CASE PopMove(t)  BY <2>1, <2>9 DEF PopMove
  <2>10. QED  BY <1>2, <2>2, <2>3, <2>4, <2>5, <2>6, <2>7, <2>8, <2>9 DEF QuietStep
<1>3. ASSUME NEW t \in Threads, PushTicket(t) PROVE TicketRange'
  BY <1>3 DEF PushTicket
<1>4. ASSUME NEW t \in Threads, PushPublish(t) PROVE TicketRange'
  <2>1. ASSUME NEW u \in Threads, u # t, pc[u] \in PushPc
        PROVE  pwrite + 1 <= current[u]
    BY <1>4, <2>1 DEF PushPublish, TicketUnique
  <2>2. QED  BY <1>4, <2>1 DEF PushPublish
<1>5. ASSUME NEW t \in Threads, PopTicket(t) PROVE TicketRange'
  BY <1>5 DEF PopTicket
<1>6. ASSUME NEW t \in Threads, PopPublish(t) PROVE TicketRange'
  <2>1. ASSUME NEW u \in Threads, u # t, pc[u] \in PopPc
        PROVE  pread + 1 <= current[u]
    BY <1>6, <2>1 DEF PopPublish, TicketUnique
  <2>2. QED  BY <1>6, <2>1 DEF PopPublish
<1>7. QED  BY StepCases, <1>1, <1>2, <1>3, <1>4, <1>5, <1>6

\* Each compare-and-swap on a ticket counter hands a ticket to one thread only.
LEMMA NextTicketUnique ==
  ASSUME IInv, [Next]_vars
  PROVE  TicketUnique'
<1> USE DEF IInv, TypeOK, TicketUnique, PushPc, PopPc
<1>1. CASE UNCHANGED vars  BY <1>1 DEF vars
<1>2. ASSUME NEW t \in Threads, QuietStep(t) PROVE TicketUnique'
  <2>1. CASE PushStart(t)  BY <2>1 DEF PushStart
  <2>2. CASE PushRetry(t)  BY <2>2 DEF PushRetry
  <2>3. CASE PushWait(t)  BY <2>3 DEF PushWait
  <2>4. CASE PushWrite(t)  BY <2>4 DEF PushWrite
  <2>5. CASE PopStart(t)  BY <2>5 DEF PopStart
  <2>6. CASE PopRetry(t)  BY <2>6 DEF PopRetry
  <2>7. CASE PopWait(t)  BY <2>7 DEF PopWait
  <2>8. CASE PopMove(t)  BY <2>8 DEF PopMove
  <2>9. QED  BY <1>2, <2>1, <2>2, <2>3, <2>4, <2>5, <2>6, <2>7, <2>8 DEF QuietStep
<1>3. ASSUME NEW t \in Threads, PushTicket(t) PROVE TicketUnique'
  BY <1>3 DEF PushTicket, TicketRange
<1>4. ASSUME NEW t \in Threads, PushPublish(t) PROVE TicketUnique'
  BY <1>4 DEF PushPublish
<1>5. ASSUME NEW t \in Threads, PopTicket(t) PROVE TicketUnique'
  BY <1>5 DEF PopTicket, TicketRange
<1>6. ASSUME NEW t \in Threads, PopPublish(t) PROVE TicketUnique'
  BY <1>6 DEF PopPublish
<1>7. QED  BY StepCases, <1>1, <1>2, <1>3, <1>4, <1>5, <1>6

\* Two published, unread tickets, or two tickets that may be written, or one of
\* each, are less than a turn apart.
LEMMA WindowSlots ==
  ASSUME IInv,
         NEW a \in Nat, NEW b \in Nat, a # b,
         pread <= a, a < pread + Size, pread <= b, b < pread + Size
  PROVE  Slot(a) # Slot(b)
<1>1. pread \in Nat  BY DEF IInv, TypeOK
<1>2. QED  BY <1>1, RingWindow, SizeAssumption, Zenon DEF Slot

\* A push writes the slot of an unpublished ticket and a pop moves out its own:
\* neither disturbs an item that is published and not yet moved out.
LEMMA NextSlotContents ==
  ASSUME IInv, [Next]_vars
  PROVE  SlotContents'
<1> USE SizeAssumption DEF IInv, TypeOK, CounterOrder, SlotContents
<1>1. CASE UNCHANGED vars
  BY <1>1 DEF vars, counters, MovedOut, Arg
<1>2. ASSUME NEW t \in Threads,
             \/ PushStart(t) \/ PushRetry(t) \/ PushWait(t)
             \/ PopStart(t) \/ PopRetry(t) \/ PopWait(t)
      PROVE  SlotContents'
  <2>1. \A k : MovedOut(k) => MovedOut(k)'
    BY <1>2 DEF MovedOut, PushStart, PushRetry, PushWait, PopStart, PopRetry,
                PopWait
  <2>2. UNCHANGED <<buffer, log, pread, pwrite, item, pushed>>
    BY <1>2 DEF PushStart, PushRetry, PushWait, PopStart, PopRetry, PopWait,
                counters
  <2>3. \A u \in Threads : pc'[u] \in {"push_publish", "pop_publish"}
                             => pc'[u] = pc[u] /\ current'[u] = current[u]
    BY <1>2 DEF PushStart, PushRetry, PushWait, PopStart, PopRetry, PopWait
  <2>4. \A u \in Threads : Arg(u)' = Arg(u)  BY <2>2 DEF Arg
  <2>5. QED  BY <2>1, <2>2, <2>3, <2>4
<1>3. ASSUME NEW t \in Threads, PushWrite(t) PROVE SlotContents'
  <2> DEFINE c == current[t]
  <2>1. pwrite <= c /\ c < pread + Size
    BY <1>3 DEF PushWrite, TicketRange, PushPc
  <2>2. UNCHANGED <<counters, current, item, pushed, log>>
    BY <1>3 DEF PushWrite
  <2>3. \A k \in Nat : Slot(k) # Slot(c) => buffer'[Slot(k)] = buffer[Slot(k)]
    BY <1>3, SlotType DEF PushWrite
  <2>4. \A k : MovedOut(k) => MovedOut(k)'  BY <1>3 DEF PushWrite, MovedOut
  <2>5. ASSUME NEW k \in pread .. pwrite - 1
        PROVE  MovedOut(k)' \/ buffer'[Slot(k)] = log'[k + 1]
    <3>1. k \in Nat /\ c \in Nat  OBVIOUS
    <3>2. Slot(k) # Slot(c)  BY <2>1, <3>1, WindowSlots
    <3>3. QED  BY <2>2, <2>3, <2>4, <3>1, <3>2
  <2>6. ASSUME NEW u \in Threads, pc'[u] = "push_publish"
        PROVE  buffer'[Slot(current'[u])] = Arg(u)'
    <3>1. Arg(u)' = Arg(u)  BY <2>2 DEF Arg
    <3>2. CASE u = t
      BY <1>3, <2>2, <3>1, <3>2, SlotType DEF PushWrite
    <3>3. CASE u # t
      <4>1. pc[u] = "push_publish"  BY <1>3, <2>6, <3>3 DEF PushWrite
      <4>2. /\ pwrite <= current[u] /\ current[u] < pread + Size
            /\ current[u] # c
        BY <1>3, <3>3, <4>1 DEF PushWrite, TicketRange, TicketUnique, PushPc
      <4>3. Slot(current[u]) # Slot(c)  BY <2>1, <4>2, WindowSlots
      <4>4. QED  BY <2>2, <2>3, <3>1, <4>1, <4>3
    <3>4. QED  BY <3>2, <3>3
  <2>7. ASSUME NEW u \in Threads, pc'[u] = "pop_publish"
        PROVE  item'[u] = log'[current'[u] + 1]
    BY <1>3, <2>2, <2>7 DEF PushWrite
  <2>8. QED  BY <2>2, <2>5, <2>6, <2>7 DEF counters
<1>4. ASSUME NEW t \in Threads, PopMove(t) PROVE SlotContents'
  <2> DEFINE c == current[t]
  <2>1. pread <= c /\ c < pwrite  BY <1>4 DEF PopMove, TicketRange, PopPc
  <2>2. UNCHANGED <<counters, current, pushed, log>>  BY <1>4 DEF PopMove
  <2>3. \A k \in Nat : Slot(k) # Slot(c) => buffer'[Slot(k)] = buffer[Slot(k)]
    BY <1>4, SlotType DEF PopMove
  <2>4. \A k : MovedOut(k) => MovedOut(k)'  BY <1>4 DEF PopMove, MovedOut
  <2>5. \A k : k = c => MovedOut(k)'  BY <1>4 DEF PopMove, MovedOut
  <2>6. ASSUME NEW k \in pread .. pwrite - 1
        PROVE  MovedOut(k)' \/ buffer'[Slot(k)] = log'[k + 1]
    <3>1. k \in Nat /\ c \in Nat  OBVIOUS
    <3>2. CASE k = c  BY <2>5, <3>2
    <3>3. CASE k # c
      <4>1. Slot(k) # Slot(c)  BY <2>1, <3>1, <3>3, WindowSlots
      <4>2. QED  BY <2>2, <2>3, <2>4, <3>1, <4>1
    <3>4. QED  BY <3>2, <3>3
  <2>7. ASSUME NEW u \in Threads, pc'[u] = "push_publish"
        PROVE  buffer'[Slot(current'[u])] = Arg(u)'
    <3>1. Arg(u)' = Arg(u)  BY <2>2 DEF Arg
    <3>2. pc[u] = "push_publish"  BY <1>4, <2>7 DEF PopMove
    <3>3. pwrite <= current[u] /\ current[u] < pread + Size
      BY <3>2 DEF TicketRange, PushPc
    <3>4. Slot(current[u]) # Slot(c)  BY <2>1, <3>3, WindowSlots
    <3>5. QED  BY <2>2, <2>3, <3>1, <3>2, <3>4
  <2>8. ASSUME NEW u \in Threads, pc'[u] = "pop_publish"
        PROVE  item'[u] = log'[current'[u] + 1]
    <3>1. CASE u = t
      <4>1. ~MovedOut(c)
        BY <1>4 DEF PopMove, MovedOut, TicketUnique, PopPc
      <4>2. c \in pread .. pwrite - 1  BY <2>1
      <4>3. buffer[Slot(c)] = log[c + 1]  BY <4>1, <4>2
      <4>4. item'[t] = buffer[Slot(c)]  BY <1>4 DEF PopMove
      <4>5. QED  BY <2>2, <3>1, <4>3, <4>4
    <3>2. CASE u # t  BY <1>4, <2>2, <2>8, <3>2 DEF PopMove
    <3>3. QED  BY <3>1, <3>2
  <2>9. QED  BY <2>2, <2>6, <2>7, <2>8 DEF counters
<1>5. ASSUME NEW t \in Threads, PushTicket(t) \/ PopTicket(t)
      PROVE  SlotContents'
  <2>1. UNCHANGED <<buffer, log, pread, pwrite, item, pushed, current>>
    BY <1>5 DEF PushTicket, PopTicket
  <2>2. \A u \in Threads : \A l \in {"push_publish", "pop_publish"} :
           pc'[u] = l <=> pc[u] = l
    BY <1>5 DEF PushTicket, PopTicket
  <2>3. \A k : MovedOut(k) => MovedOut(k)'  BY <2>1, <2>2 DEF MovedOut
  <2>4. \A u \in Threads : Arg(u)' = Arg(u)  BY <2>1 DEF Arg
  <2>5. QED  BY <2>1, <2>2, <2>3, <2>4
<1>6. ASSUME NEW t \in Threads, PushPublish(t) PROVE SlotContents'
  <2>1. Arg(t) \in Items  BY DEF Arg, Items
  <2>2. UNCHANGED <<buffer, pread, current, item>>  BY <1>6 DEF PushPublish
  <2>3. /\ \A k \in 1 .. pwrite : log'[k] = log[k]
        /\ log'[pwrite + 1] = Arg(t)
    BY <1>6, <2>1 DEF PushPublish
  <2>4. \A k : MovedOut(k) => MovedOut(k)'  BY <1>6 DEF PushPublish, MovedOut
  <2>5. ASSUME NEW k \in pread .. pwrite' - 1
        PROVE  MovedOut(k)' \/ buffer'[Slot(k)] = log'[k + 1]
    <3>1. pwrite' = pwrite + 1 /\ current[t] = pwrite  BY <1>6 DEF PushPublish
    <3>2. CASE k = pwrite  BY <1>6, <2>2, <2>3, <3>1, <3>2 DEF PushPublish
    <3>3. CASE k # pwrite
      <4>1. k \in pread .. pwrite - 1 /\ k + 1 \in 1 .. pwrite
        BY <3>1, <3>3
      <4>2. QED  BY <2>2, <2>3, <2>4, <4>1
    <3>4. QED  BY <3>2, <3>3
  <2>6. ASSUME NEW u \in Threads, pc'[u] = "push_publish"
        PROVE  buffer'[Slot(current'[u])] = Arg(u)'
    <3>1. u # t /\ pc[u] = "push_publish"  BY <1>6, <2>6 DEF PushPublish
    <3>2. Arg(u)' = Arg(u)  BY <1>6, <3>1 DEF PushPublish, Arg
    <3>3. QED  BY <2>2, <3>1, <3>2
  <2>7. ASSUME NEW u \in Threads, pc'[u] = "pop_publish"
        PROVE  item'[u] = log'[current'[u] + 1]
    <3>1. pc[u] = "pop_publish"  BY <1>6, <2>7 DEF PushPublish
    <3>2. current[u] + 1 \in 1 .. pwrite  BY <3>1 DEF TicketRange, PopPc
    <3>3. QED  BY <2>2, <2>3, <3>1, <3>2
  <2>8. QED  BY <2>2, <2>5, <2>6, <2>7
<1>7. ASSUME NEW t \in Threads, PopPublish(t) PROVE SlotContents'
  <2>1. UNCHANGED <<buffer, pwrite, current, pushed, log>>
    BY <1>7 DEF PopPublish
  <2>2. \A u \in Threads \ {t} : pc'[u] = pc[u] /\ item'[u] = item[u]
    BY <1>7 DEF PopPublish
  <2>3. pc'[t] = "idle" /\ pread' = pread + 1 /\ current[t] = pread
    BY <1>7 DEF PopPublish
  <2>4. ASSUME NEW k \in pread' .. pwrite - 1
        PROVE  MovedOut(k)' \/ buffer'[Slot(k)] = log'[k + 1]
    <3>1. k \in pread .. pwrite - 1 /\ k # current[t]  BY <2>3
    <3>2. MovedOut(k) => MovedOut(k)'
      BY <2>1, <2>2, <3>1 DEF MovedOut
    <3>3. QED  BY <2>1, <3>1, <3>2
  <2>5. \A u \in Threads : Arg(u)' = Arg(u)  BY <2>1 DEF Arg
  <2>6. ASSUME NEW u \in Threads
        PROVE  /\ pc'[u] = "push_publish" => buffer'[Slot(current'[u])] = Arg(u)'
               /\ pc'[u] = "pop_publish" => item'[u] = log'[current'[u] + 1]
    <3>1. CASE u = t  BY <2>3, <3>1
    <3>2. CASE u # t  BY <2>1, <2>2, <2>5, <3>2
    <3>3. QED  BY <3>1, <3>2
  <2>7. QED  BY <2>1, <2>3, <2>4, <2>6
<1>8. QED
  BY StepCases, <1>1, <1>2, <1>3, <1>4, <1>5, <1>6, <1>7 DEF QuietStep

\* The conjunction of the parts is an invariant: counters in order, tickets
\* unique and in range, every published item in its slot or with its pop.
THEOREM Invariance == Spec => []IInv
<1>1. IInv /\ [Next]_vars => IInv'
  <2> SUFFICES ASSUME IInv, [Next]_vars PROVE IInv'  OBVIOUS
  <2>1. TypeOK'  BY NextType DEF IInv
  <2>2. QED
    BY <2>1, NextCounterOrder, NextTicketRange, NextTicketUnique,
       NextSlotContents DEF IInv
<1>2. QED  BY InitIInv, <1>1, PTL DEF Spec

-----------------------------------------------------------------------------
(* Safety. *)

\* No two threads meet at a slot, whatever the number of threads, the capacity
\* and the length of the run.
THEOREM SlotsNeverShared == Spec => []SlotExclusive
<1>1. IInv => SlotExclusive
  <2> SUFFICES ASSUME IInv, NEW t \in Threads, NEW u \in Threads,
                      pc[t] \in {"push_write", "push_publish", "pop_move"},
                      pc[u] \in {"push_write", "pop_move"},
                      t # u
               PROVE  Slot(current[t]) # Slot(current[u])
    BY DEF SlotExclusive
  <2> USE DEF IInv, TypeOK
  <2>1. ASSUME NEW v \in Threads,
               pc[v] \in {"push_write", "push_publish", "pop_move"}
        PROVE  pread <= current[v] /\ current[v] < pread + Size
    BY <2>1, SizeAssumption DEF TicketRange, CounterOrder, PushPc, PopPc
  <2>2. current[t] # current[u]
    BY DEF TicketRange, TicketUnique, PushPc, PopPc
  <2>3. QED  BY <2>1, <2>2, WindowSlots
<1>2. QED  BY <1>1, Invariance, PTL

-----------------------------------------------------------------------------
(* Refinement. *)

\* The part of the log between the two public counters, element by element.
LEMMA WindowProperties ==
  ASSUME NEW S, NEW s \in Seq(S), NEW m \in Nat, NEW n \in 0 .. Len(s), m <= n
  PROVE  /\ SubSeq(s, m + 1, n) \in Seq(S)
         /\ Len(SubSeq(s, m + 1, n)) = n - m
         /\ \A i \in 1 .. n - m : SubSeq(s, m + 1, n)[i] = s[m + i]
<1>1. \A i \in m + 1 .. n : s[i] \in S  OBVIOUS
<1>2. QED  BY <1>1, SubSeqProperties

\* Publishing a push appends the item to that part of the log.
LEMMA WindowAppend ==
  ASSUME NEW S, NEW s \in Seq(S), NEW e \in S, NEW m \in Nat, m <= Len(s)
  PROVE  SubSeq(Append(s, e), m + 1, Len(s) + 1)
           = Append(SubSeq(s, m + 1, Len(s)), e)
<1> DEFINE a == SubSeq(Append(s, e), m + 1, Len(s) + 1)
           b == SubSeq(s, m + 1, Len(s))
<1>1. Append(s, e) \in Seq(S) /\ Len(Append(s, e)) = Len(s) + 1  OBVIOUS
<1>2. /\ a \in Seq(S) /\ Len(a) = Len(s) + 1 - m
      /\ \A i \in 1 .. Len(s) + 1 - m : a[i] = Append(s, e)[m + i]
  BY <1>1, WindowProperties
<1>3. /\ b \in Seq(S) /\ Len(b) = Len(s) - m
      /\ \A i \in 1 .. Len(s) - m : b[i] = s[m + i]
  BY WindowProperties
<1> HIDE DEF a, b
<1>4. Append(b, e) \in Seq(S) /\ Len(Append(b, e)) = Len(a)
  <2>1. Append(b, e) \in Seq(S) /\ Len(Append(b, e)) = Len(b) + 1
    BY <1>3, AppendProperties
  <2>2. Len(s) \in Nat  OBVIOUS
  <2>3. QED  BY <1>2, <1>3, <2>1, <2>2
<1>5. \A i \in 1 .. Len(a) : a[i] = Append(b, e)[i]  BY <1>2, <1>3
<1>6. a = Append(b, e)  BY <1>2, <1>4, <1>5
<1>7. QED  BY <1>6 DEF a, b

\* Every step is a push or a pop of the abstract queue, at the step that
\* publishes it, or leaves the abstract queue alone.
LEMMA StepRefines ==
  ASSUME IInv, [Next]_vars
  PROVE  [BQ!Next]_BQ!vars
<1> USE DEF IInv, TypeOK, CounterOrder
<1>1. CASE UNCHANGED vars  BY <1>1 DEF vars, counters, BQ!vars
<1>2. ASSUME NEW t \in Threads,
             QuietStep(t) \/ PushTicket(t) \/ PopTicket(t)
      PROVE  UNCHANGED BQ!vars
  <2>1. UNCHANGED <<log, pread, pwrite, pushed, got>>
    BY <1>2 DEF QuietStep, PushStart, PushRetry, PushWait, PushWrite, PopStart,
                PopRetry, PopWait, PopMove, PushTicket, PopTicket, counters
  <2>2. QED  BY <2>1 DEF BQ!vars
<1>3. ASSUME NEW t \in Threads, PushPublish(t) PROVE BQ!Push(t)
  <2>1. Arg(t) \in Items /\ Arg(t) = BQ!Item(t, pushed[t] + 1)
    BY DEF Arg, Items, BQ!Item
  <2>2. Len(SubSeq(log, pread + 1, pwrite)) < Size
    <3>1. pwrite < pread + Size
      BY <1>3 DEF PushPublish, TicketRange
    <3>2. QED  BY <3>1, WindowProperties, SizeAssumption
  <2>3. SubSeq(log', pread' + 1, pwrite')
          = Append(SubSeq(log, pread + 1, pwrite), Arg(t))
    <3>1. log \in Seq(Items) /\ pread \in Nat /\ pread <= Len(log)  OBVIOUS
    <3>2. SubSeq(Append(log, Arg(t)), pread + 1, Len(log) + 1)
            = Append(SubSeq(log, pread + 1, Len(log)), Arg(t))
      BY <2>1, <3>1, WindowAppend
    <3>3. QED  BY <1>3, <3>2 DEF PushPublish
  <2>4. QED  BY <1>3, <2>1, <2>2, <2>3 DEF PushPublish, BQ!Push
<1>4. ASSUME NEW t \in Threads, PopPublish(t) PROVE BQ!Pop(t)
  <2>1. pread < pwrite /\ current[t] = pread
    BY <1>4 DEF PopPublish, TicketRange
  <2>2. item[t] = log[pread + 1]
    BY <1>4, <2>1 DEF PopPublish, SlotContents
  <2>3. /\ SubSeq(log, pread + 1, pwrite) # <<>>
        /\ Head(SubSeq(log, pread + 1, pwrite)) = log[pread + 1]
        /\ SubSeq(log, pread + 2, pwrite) = Tail(SubSeq(log, pread + 1, pwrite))
    <3>1. pread + 1 \in 1 .. Len(log) /\ pwrite \in pread + 1 .. Len(log)
      BY <2>1
    <3>2. SubSeq(log, pread + 1, pwrite) # <<>>
      <4>1. Len(SubSeq(log, pread + 1, pwrite)) = pwrite - pread
        BY <2>1, WindowProperties
      <4>2. pwrite - pread # 0  BY <2>1
      <4>3. Len(<<>>) = 0  OBVIOUS
      <4>4. QED  BY <4>1, <4>2, <4>3
    <3>3. pread + 1 + 1 = pread + 2  OBVIOUS
    <3>4. /\ Head(SubSeq(log, pread + 1, pwrite)) = log[pread + 1]
          /\ Tail(SubSeq(log, pread + 1, pwrite))
               = SubSeq(log, pread + 1 + 1, pwrite)
      BY <3>1, HeadTailOfSubSeq
    <3>5. QED  BY <3>2, <3>3, <3>4
  <2>4. pread' + 1 = pread + 2  BY <1>4 DEF PopPublish
  <2>5. QED  BY <1>4, <2>2, <2>3, <2>4 DEF PopPublish, BQ!Pop
<1>5. QED  BY StepCases, <1>1, <1>2, <1>3, <1>4 DEF BQ!Next

\* A queue just constructed is the empty bounded queue.
LEMMA InitRefines == Init => BQ!Init
<1> SUFFICES ASSUME Init PROVE BQ!Init  OBVIOUS
<1>1. SubSeq(log, pread + 1, pwrite) = <<>>  BY DEF Init
<1>2. QED  BY <1>1 DEF Init, BQ!Init

\* The lock-free queue is a linearizable bounded FIFO queue: every execution is
\* one of BoundedQueue.
THEOREM Refinement == Spec => ImplementsBoundedQueue
<1>1. IInv /\ [Next]_vars => [BQ!Next]_BQ!vars  BY StepRefines
<1>2. QED
  BY InitRefines, <1>1, Invariance, PTL DEF Spec, BQ!Spec, ImplementsBoundedQueue

=============================================================================
