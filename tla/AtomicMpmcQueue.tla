--------------------------- MODULE AtomicMpmcQueue ---------------------------
(***************************************************************************)
(* atomic_mpmc_queue of common/mpmc_queue.h: a ring buffer shared by any   *)
(* number of pushing and popping threads, synchronised by four atomic      *)
(* counters.                                                               *)
(*                                                                         *)
(* A call takes a ticket (a load of the internal counter and a             *)
(* compare-and-swap that advances it), spins until its ticket's slot is    *)
(* its to use, writes or moves out the slot, and publishes by advancing    *)
(* the public counter from its own ticket.  Every atomic access is a step  *)
(* of its own; the access to the slot, which is not atomic, is one step    *)
(* and SlotExclusive says nobody else can be at that slot.                 *)
(*                                                                         *)
(* compare_exchange_weak may fail although the values agree.  A failed     *)
(* attempt changes nothing that is shared and is followed by the same load *)
(* again, so a spurious failure is a stuttering step of this model.  The   *)
(* counters are 64 bits wide and count calls: they do not wrap.            *)
(***************************************************************************)
EXTENDS Integers, Sequences, FiniteSets

CONSTANTS Threads,    \* the threads that share the queue
          Size,       \* size_: the number of slots
          MaxPushes,  \* bound on the pushes each thread starts
          MaxPops     \* bound on the pops each thread starts

ASSUME SizeAssumption == Size \in Nat \ {0}
ASSUME BoundsAssumption == MaxPushes \in Nat /\ MaxPops \in Nat

VARIABLES
  buffer,          \* buffer_: the slots
  pread,           \* pread_: pops published so far
  pwrite,          \* pwrite_: pushes published so far
  internal_pread,  \* internal_pread_: pop tickets handed out
  internal_pwrite, \* internal_pwrite_: push tickets handed out
  pc,              \* pc[t]: what thread t does next
  current,         \* current[t]: the local variable current of its call
  item,            \* item[t]: the local variable item of a pop
  pushed,          \* pushed[t]: pushes that have returned
  got,             \* got[t]: what thread t's pops have returned, in order
  log              \* history: the items in the order of their publication

counters == <<pread, pwrite, internal_pread, internal_pwrite>>
vars == <<buffer, counters, pc, current, item, pushed, got, log>>

Slot(k) == k % Size

\* What a default-constructed element holds, or one moved from, whose value is
\* unspecified: no call reads it.
Nothing == <<>>

\* The argument of thread t's push in progress: its next item.
Arg(t) == <<t, pushed[t] + 1>>

Items == Threads \X (Nat \ {0})

\* Where a call stands.  A thread whose pc is in PushPc (PopPc) holds a push
\* (pop) ticket, in current.
PushPc == {"push_wait", "push_write", "push_publish"}
PopPc == {"pop_wait", "pop_move", "pop_publish"}
Pc == {"idle", "push_ticket", "pop_ticket"} \cup PushPc \cup PopPc

-----------------------------------------------------------------------------

Init == /\ buffer = [s \in 0 .. Size - 1 |-> Nothing]
        /\ pread = 0 /\ pwrite = 0
        /\ internal_pread = 0 /\ internal_pwrite = 0
        /\ pc = [t \in Threads |-> "idle"]
        /\ current = [t \in Threads |-> 0]
        /\ item = [t \in Threads |-> Nothing]
        /\ pushed = [t \in Threads |-> 0]
        /\ got = [t \in Threads |-> <<>>]
        /\ log = <<>>

\* push: the first load of internal_pwrite_.
PushStart(t) ==
  /\ pc[t] = "idle"
  /\ pushed[t] < MaxPushes
  /\ current' = [current EXCEPT ![t] = internal_pwrite]
  /\ pc' = [pc EXCEPT ![t] = "push_ticket"]
  /\ UNCHANGED <<buffer, counters, item, pushed, got, log>>

\* push: the compare-and-swap on internal_pwrite_ succeeds.
PushTicket(t) ==
  /\ pc[t] = "push_ticket"
  /\ current[t] = internal_pwrite
  /\ internal_pwrite' = internal_pwrite + 1
  /\ pc' = [pc EXCEPT ![t] = "push_wait"]
  /\ UNCHANGED <<buffer, pread, pwrite, internal_pread, current, item, pushed,
                 got, log>>

\* push: another thread took the ticket first; load again.
PushRetry(t) ==
  /\ pc[t] = "push_ticket"
  /\ current[t] # internal_pwrite
  /\ current' = [current EXCEPT ![t] = internal_pwrite]
  /\ UNCHANGED <<buffer, counters, pc, item, pushed, got, log>>

\* Faulty variant: the wait lets a push in one ticket too early.
PushWaitEarly(t) ==
  /\ pc[t] = "push_wait"
  /\ current[t] <= pread + Size
  /\ pc' = [pc EXCEPT ![t] = "push_write"]
  /\ UNCHANGED <<buffer, counters, current, item, pushed, got, log>>

\* Faulty variant: the wait keeps one slot free, as ring buffers often do.
PushWaitLate(t) ==
  /\ pc[t] = "push_wait"
  /\ current[t] + 1 < pread + Size
  /\ pc' = [pc EXCEPT ![t] = "push_write"]
  /\ UNCHANGED <<buffer, counters, current, item, pushed, got, log>>

\* push: the busy wait for the slot to be free ends.
PushWait(t) ==
  /\ pc[t] = "push_wait"
  /\ current[t] < pread + Size
  /\ pc' = [pc EXCEPT ![t] = "push_write"]
  /\ UNCHANGED <<buffer, counters, current, item, pushed, got, log>>

\* push: the item is moved or copied into the slot.
PushWrite(t) ==
  /\ pc[t] = "push_write"
  /\ buffer' = [buffer EXCEPT ![Slot(current[t])] = Arg(t)]
  /\ pc' = [pc EXCEPT ![t] = "push_publish"]
  /\ UNCHANGED <<counters, current, item, pushed, got, log>>

\* Faulty variant: the publication does not wait for earlier tickets, as when
\* the loop kept the value a failed compare-and-swap stored in current.
PushPublishAnyOrder(t) ==
  /\ pc[t] = "push_publish"
  /\ pwrite' = pwrite + 1
  /\ pushed' = [pushed EXCEPT ![t] = @ + 1]
  /\ log' = Append(log, Arg(t))
  /\ pc' = [pc EXCEPT ![t] = "idle"]
  /\ UNCHANGED <<buffer, pread, internal_pread, internal_pwrite, current, item,
                 got>>

\* push: the compare-and-swap on pwrite_ succeeds and the call returns.  The
\* loop retries from the ticket until every earlier push has published.
PushPublish(t) ==
  /\ pc[t] = "push_publish"
  /\ pwrite = current[t]
  /\ pwrite' = pwrite + 1
  /\ pushed' = [pushed EXCEPT ![t] = @ + 1]
  /\ log' = Append(log, Arg(t))
  /\ pc' = [pc EXCEPT ![t] = "idle"]
  /\ UNCHANGED <<buffer, pread, internal_pread, internal_pwrite, current, item,
                 got>>

\* pop: the first load of internal_pread_.
PopStart(t) ==
  /\ pc[t] = "idle"
  /\ Len(got[t]) < MaxPops
  /\ current' = [current EXCEPT ![t] = internal_pread]
  /\ pc' = [pc EXCEPT ![t] = "pop_ticket"]
  /\ UNCHANGED <<buffer, counters, item, pushed, got, log>>

\* pop: the compare-and-swap on internal_pread_ succeeds.
PopTicket(t) ==
  /\ pc[t] = "pop_ticket"
  /\ current[t] = internal_pread
  /\ internal_pread' = internal_pread + 1
  /\ pc' = [pc EXCEPT ![t] = "pop_wait"]
  /\ UNCHANGED <<buffer, pread, pwrite, internal_pwrite, current, item, pushed,
                 got, log>>

\* pop: another thread took the ticket first; load again.
PopRetry(t) ==
  /\ pc[t] = "pop_ticket"
  /\ current[t] # internal_pread
  /\ current' = [current EXCEPT ![t] = internal_pread]
  /\ UNCHANGED <<buffer, counters, pc, item, pushed, got, log>>

\* Faulty variant: the wait looks at the tickets handed out to pushes, not at
\* the pushes published.
PopWaitInternal(t) ==
  /\ pc[t] = "pop_wait"
  /\ current[t] < internal_pwrite
  /\ pc' = [pc EXCEPT ![t] = "pop_move"]
  /\ UNCHANGED <<buffer, counters, current, item, pushed, got, log>>

\* pop: the busy wait for the slot to be published ends.
PopWait(t) ==
  /\ pc[t] = "pop_wait"
  /\ current[t] < pwrite
  /\ pc' = [pc EXCEPT ![t] = "pop_move"]
  /\ UNCHANGED <<buffer, counters, current, item, pushed, got, log>>

\* pop: the item is moved out of the slot.
PopMove(t) ==
  /\ pc[t] = "pop_move"
  /\ item' = [item EXCEPT ![t] = buffer[Slot(current[t])]]
  /\ buffer' = [buffer EXCEPT ![Slot(current[t])] = Nothing]
  /\ pc' = [pc EXCEPT ![t] = "pop_publish"]
  /\ UNCHANGED <<counters, current, pushed, got, log>>

\* Faulty variant: the publication does not wait for earlier pops.
PopPublishAnyOrder(t) ==
  /\ pc[t] = "pop_publish"
  /\ pread' = pread + 1
  /\ got' = [got EXCEPT ![t] = Append(@, item[t])]
  /\ item' = [item EXCEPT ![t] = Nothing]
  /\ pc' = [pc EXCEPT ![t] = "idle"]
  /\ UNCHANGED <<buffer, pwrite, internal_pread, internal_pwrite, current,
                 pushed, log>>

\* pop: the compare-and-swap on pread_ succeeds and the call returns its item.
PopPublish(t) ==
  /\ pc[t] = "pop_publish"
  /\ pread = current[t]
  /\ pread' = pread + 1
  /\ got' = [got EXCEPT ![t] = Append(@, item[t])]
  /\ item' = [item EXCEPT ![t] = Nothing]
  /\ pc' = [pc EXCEPT ![t] = "idle"]
  /\ UNCHANGED <<buffer, pwrite, internal_pread, internal_pwrite, current,
                 pushed, log>>

PushStep(t) == \/ PushTicket(t) \/ PushRetry(t) \/ PushWait(t)
               \/ PushWrite(t) \/ PushPublish(t)

PopStep(t) == \/ PopTicket(t) \/ PopRetry(t) \/ PopWait(t)
              \/ PopMove(t) \/ PopPublish(t)

Next == \E t \in Threads : \/ PushStart(t) \/ PushStep(t)
                           \/ PopStart(t) \/ PopStep(t)

Spec == Init /\ [][Next]_vars

\* A call that has begun keeps running; no thread is obliged to begin one.
Fairness == \A t \in Threads : WF_vars(PushStep(t)) /\ WF_vars(PopStep(t))

FairSpec == Spec /\ Fairness

-----------------------------------------------------------------------------
(* Type invariant.                                                         *)

TypeOK == /\ buffer \in [0 .. Size - 1 -> Items \cup {Nothing}]
          /\ pread \in Nat /\ pwrite \in Nat
          /\ internal_pread \in Nat /\ internal_pwrite \in Nat
          /\ pc \in [Threads -> Pc]
          /\ current \in [Threads -> Nat]
          /\ item \in [Threads -> Items \cup {Nothing}]
          /\ pushed \in [Threads -> Nat]
          /\ got \in [Threads -> Seq(Items \cup {Nothing})]
          /\ log \in Seq(Items)

(* The parts of the inductive invariant. *)

\* The counters never overtake one another.
CounterOrder == /\ pread <= pwrite /\ pwrite <= pread + Size
                /\ pwrite <= internal_pwrite /\ pread <= internal_pread
                /\ Len(log) = pwrite

\* A thread that holds a ticket holds one that is not published yet, and has
\* passed its wait only if the slot is its to use.
TicketRange ==
  \A t \in Threads :
    /\ pc[t] \in PushPc => pwrite <= current[t] /\ current[t] < internal_pwrite
    /\ pc[t] \in PopPc => pread <= current[t] /\ current[t] < internal_pread
    /\ pc[t] \in {"push_write", "push_publish"} => current[t] < pread + Size
    /\ pc[t] \in {"pop_move", "pop_publish"} => current[t] < pwrite

\* No ticket is held by two threads: the compare-and-swap hands each out once.
TicketUnique ==
  \A t, u \in Threads :
    /\ (pc[t] \in PushPc /\ pc[u] \in PushPc /\ current[t] = current[u]) => t = u
    /\ (pc[t] \in PopPc /\ pc[u] \in PopPc /\ current[t] = current[u]) => t = u

MovedOut(k) == \E t \in Threads : pc[t] = "pop_publish" /\ current[t] = k

\* A published item stays in its slot until its own pop moves it out, and a
\* call about to publish has its item where it should be.
SlotContents ==
  /\ \A k \in pread .. pwrite - 1 : MovedOut(k) \/ buffer[Slot(k)] = log[k + 1]
  /\ \A t \in Threads :
       /\ pc[t] = "push_publish" => buffer[Slot(current[t])] = Arg(t)
       /\ pc[t] = "pop_publish" => item[t] = log[current[t] + 1]

IInv == TypeOK /\ CounterOrder /\ TicketRange /\ TicketUnique /\ SlotContents

-----------------------------------------------------------------------------
(* Properties.                                                             *)

\* While a thread is about to touch its slot, or has written one it has not
\* yet published, no other thread is about to touch the same slot: the plain,
\* unsynchronised accesses to buffer_ in push and pop never race, however many
\* threads push and pop and however the ring wraps.
SlotExclusive ==
  \A t, u \in Threads :
    ( /\ pc[t] \in {"push_write", "push_publish", "pop_move"}
      /\ pc[u] \in {"push_write", "pop_move"}
      /\ t # u ) => Slot(current[t]) # Slot(current[u])

\* The queue implements the bounded first-in first-out queue: a push takes
\* effect when pwrite_ advances and a pop when pread_ does.
BQ == INSTANCE BoundedQueue WITH queue <- SubSeq(log, pread + 1, pwrite)
ImplementsBoundedQueue == BQ!Spec

\* A pop whose ticket is matched by a push that has a ticket too returns, and so
\* does a push whose slot's previous pop has a ticket: no call is left spinning
\* although its partner has arrived, and no two calls wait for one another.
MatchedCallsReturn ==
  \A t \in Threads :
    /\ (pc[t] \in PopPc /\ current[t] < internal_pwrite) ~> (pc[t] = "idle")
    /\ (pc[t] \in PushPc /\ current[t] < internal_pread + Size) ~> (pc[t] = "idle")

=============================================================================
