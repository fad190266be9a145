--------------------------- MODULE LockedMpmcQueue ---------------------------
(***************************************************************************)
(* locked_mpmc_queue of common/mpmc_queue.h: a ring buffer guarded by one  *)
(* mutex, with one condition variable for pops that find the queue empty   *)
(* and one for pushes that find it full.                                   *)
(*                                                                         *)
(* wait(lk, pred) is the loop of the standard library: evaluate pred with  *)
(* the mutex held; if it is false release the mutex and sleep, in one      *)
(* step, and after a notification or a spurious wake-up take the mutex     *)
(* again and evaluate pred again.  Both push and pop notify after they     *)
(* have released the mutex, so other threads run between the two.          *)
(***************************************************************************)
EXTENDS Integers, Sequences, FiniteSets

CONSTANTS Threads,    \* the threads that share the queue
          Size,       \* size_: the number of slots
          MaxPushes,  \* bound on the pushes each thread starts
          MaxPops,    \* bound on the pops each thread starts
          Free        \* the mutex has no owner

ASSUME SizeAssumption == Size \in Nat \ {0}
ASSUME BoundsAssumption == MaxPushes \in Nat /\ MaxPops \in Nat
ASSUME FreeAssumption == Free \notin Threads
ASSUME ThreadsAssumption == IsFiniteSet(Threads)

VARIABLES
  buffer,  \* buffer_: the slots
  pread,   \* pread_: index of the next item to read
  pwrite,  \* pwrite_: index of the next slot to write
  mut,     \* mut_: the thread that holds the mutex, or Free
  pc,      \* pc[t]: what thread t does next
  pushed,  \* pushed[t]: how many items thread t has put in the queue
  got      \* got[t]: the items thread t has taken, in order

vars == <<buffer, pread, pwrite, mut, pc, pushed, got>>

Slot(k) == k % Size
Nothing == <<>>
Items == Threads \X (Nat \ {0})

\* A thread that sleeps on empty_ is at pop_sleep, one that sleeps on full_ at
\* push_sleep.
Pc == {"idle", "push_lock", "push_check", "push_sleep", "push_notify",
       "pop_lock", "pop_check", "pop_sleep", "pop_notify"}

At(l) == {t \in Threads : pc[t] = l}

-----------------------------------------------------------------------------

Init == /\ buffer = [s \in 0 .. Size - 1 |-> Nothing]
        /\ pread = 0 /\ pwrite = 0
        /\ mut = Free
        /\ pc = [t \in Threads |-> "idle"]
        /\ pushed = [t \in Threads |-> 0]
        /\ got = [t \in Threads |-> <<>>]

PushCall(t) == /\ pc[t] = "idle"
               /\ pushed[t] < MaxPushes
               /\ pc' = [pc EXCEPT ![t] = "push_lock"]
               /\ UNCHANGED <<buffer, pread, pwrite, mut, pushed, got>>

PopCall(t) == /\ pc[t] = "idle"
              /\ Len(got[t]) < MaxPops
              /\ pc' = [pc EXCEPT ![t] = "pop_lock"]
              /\ UNCHANGED <<buffer, pread, pwrite, mut, pushed, got>>

\* The mutex is taken, on entry or on the way out of a wait.
Lock(t) ==
  /\ mut = Free
  /\ mut' = t
  /\ \/ pc[t] = "push_lock" /\ pc' = [pc EXCEPT ![t] = "push_check"]
     \/ pc[t] = "pop_lock" /\ pc' = [pc EXCEPT ![t] = "pop_check"]
  /\ UNCHANGED <<buffer, pread, pwrite, pushed, got>>

\* push: the queue is full; release the mutex and sleep on full_.
PushSleep(t) ==
  /\ pc[t] = "push_check"
  /\ ~(pwrite < pread + Size)
  /\ mut' = Free
  /\ pc' = [pc EXCEPT ![t] = "push_sleep"]
  /\ UNCHANGED <<buffer, pread, pwrite, pushed, got>>

\* Faulty variant: the room is not checked again after the wait.
PushPutUnchecked(t) ==
  /\ pc[t] = "push_check"
  /\ buffer' = [buffer EXCEPT ![Slot(pwrite)] = <<t, pushed[t] + 1>>]
  /\ pwrite' = pwrite + 1
  /\ pushed' = [pushed EXCEPT ![t] = @ + 1]
  /\ mut' = Free
  /\ pc' = [pc EXCEPT ![t] = "push_notify"]
  /\ UNCHANGED <<pread, got>>

\* push: there is room; store the item, advance pwrite_, release the mutex.
PushPut(t) ==
  /\ pc[t] = "push_check"
  /\ pwrite < pread + Size
  /\ buffer' = [buffer EXCEPT ![Slot(pwrite)] = <<t, pushed[t] + 1>>]
  /\ pwrite' = pwrite + 1
  /\ pushed' = [pushed EXCEPT ![t] = @ + 1]
  /\ mut' = Free
  /\ pc' = [pc EXCEPT ![t] = "push_notify"]
  /\ UNCHANGED <<pread, got>>

\* Faulty variant: only a push into an empty queue notifies.
PushNotifyIfWasEmpty(t) ==
  /\ pc[t] = "push_notify"
  /\ IF At("pop_sleep") = {} \/ pwrite - pread > 1
     THEN pc' = [pc EXCEPT ![t] = "idle"]
     ELSE \E u \in At("pop_sleep") :
            pc' = [pc EXCEPT ![t] = "idle", ![u] = "pop_lock"]
  /\ UNCHANGED <<buffer, pread, pwrite, mut, pushed, got>>

\* push: empty_.notify_one() wakes one sleeping pop, if there is one.
PushNotify(t) ==
  /\ pc[t] = "push_notify"
  /\ IF At("pop_sleep") = {}
     THEN pc' = [pc EXCEPT ![t] = "idle"]
     ELSE \E u \in At("pop_sleep") :
            pc' = [pc EXCEPT ![t] = "idle", ![u] = "pop_lock"]
  /\ UNCHANGED <<buffer, pread, pwrite, mut, pushed, got>>

\* pop: the queue is empty; release the mutex and sleep on empty_.
PopSleep(t) ==
  /\ pc[t] = "pop_check"
  /\ ~(pread < pwrite)
  /\ mut' = Free
  /\ pc' = [pc EXCEPT ![t] = "pop_sleep"]
  /\ UNCHANGED <<buffer, pread, pwrite, pushed, got>>

\* Faulty variant: the item is not checked for again after the wait.
PopTakeUnchecked(t) ==
  /\ pc[t] = "pop_check"
  /\ got' = [got EXCEPT ![t] = Append(@, buffer[Slot(pread)])]
  /\ buffer' = [buffer EXCEPT ![Slot(pread)] = Nothing]
  /\ pread' = pread + 1
  /\ mut' = Free
  /\ pc' = [pc EXCEPT ![t] = "pop_notify"]
  /\ UNCHANGED <<pwrite, pushed>>

\* pop: there is an item; move it out, advance pread_, release the mutex.  It is
\* returned after the notification.
PopTake(t) ==
  /\ pc[t] = "pop_check"
  /\ pread < pwrite
  /\ got' = [got EXCEPT ![t] = Append(@, buffer[Slot(pread)])]
  /\ buffer' = [buffer EXCEPT ![Slot(pread)] = Nothing]
  /\ pread' = pread + 1
  /\ mut' = Free
  /\ pc' = [pc EXCEPT ![t] = "pop_notify"]
  /\ UNCHANGED <<pwrite, pushed>>

\* Faulty variant: the pop returns without waking a sleeping push.
PopNoNotify(t) ==
  /\ pc[t] = "pop_notify"
  /\ pc' = [pc EXCEPT ![t] = "idle"]
  /\ UNCHANGED <<buffer, pread, pwrite, mut, pushed, got>>

\* pop: full_.notify_one() wakes one sleeping push, if there is one.
PopNotify(t) ==
  /\ pc[t] = "pop_notify"
  /\ IF At("push_sleep") = {}
     THEN pc' = [pc EXCEPT ![t] = "idle"]
     ELSE \E u \in At("push_sleep") :
            pc' = [pc EXCEPT ![t] = "idle", ![u] = "push_lock"]
  /\ UNCHANGED <<buffer, pread, pwrite, mut, pushed, got>>

\* A condition variable may wake a thread nobody has notified.
SpuriousWake(t) ==
  /\ \/ pc[t] = "push_sleep" /\ pc' = [pc EXCEPT ![t] = "push_lock"]
     \/ pc[t] = "pop_sleep" /\ pc' = [pc EXCEPT ![t] = "pop_lock"]
  /\ UNCHANGED <<buffer, pread, pwrite, mut, pushed, got>>

Critical(t) == PushSleep(t) \/ PushPut(t) \/ PopSleep(t) \/ PopTake(t)

Notify(t) == PushNotify(t) \/ PopNotify(t)

Next == \E t \in Threads : \/ PushCall(t) \/ PopCall(t) \/ Lock(t)
                           \/ Critical(t) \/ Notify(t) \/ SpuriousWake(t)

Spec == Init /\ [][Next]_vars

\* A thread that holds the mutex or is about to notify keeps running.  A thread
\* that wants the mutex gets it if it is free again and again: with weak fairness
\* a sleeper woken spuriously for ever could keep it from the others.  Nobody
\* need start a call or wake spuriously.
Fairness == \A t \in Threads : /\ SF_vars(Lock(t))
                               /\ WF_vars(Critical(t))
                               /\ WF_vars(Notify(t))

FairSpec == Spec /\ Fairness

-----------------------------------------------------------------------------
(* Type invariant.                                                         *)

TypeOK == /\ buffer \in [0 .. Size - 1 -> Items \cup {Nothing}]
          /\ pread \in Nat /\ pwrite \in Nat
          /\ mut \in Threads \cup {Free}
          /\ pc \in [Threads -> Pc]
          /\ pushed \in [Threads -> Nat]
          /\ got \in [Threads -> Seq(Items)]

-----------------------------------------------------------------------------
(* The parts of the inductive invariant.                                   *)

\* Between lock and unlock a thread holds the mutex: it is the only one there.
MutexHeld ==
  \A t \in Threads : pc[t] \in {"push_check", "pop_check"} => mut = t

\* The indices are in order and at most the size of the ring apart.
CounterOrder == pread <= pwrite /\ pwrite <= pread + Size

\* A slot between the indices holds an item.
SlotContents == \A k \in pread .. pwrite - 1 : buffer[Slot(k)] \in Items

\* The calls that will look at the queue without being notified again.
OnWayToPop == At("pop_lock") \cup At("pop_check")
OnWayToPush == At("push_lock") \cup At("push_check")

PopsWoken ==
  At("pop_sleep") # {} =>
    pwrite - pread <= Cardinality(At("push_notify")) + Cardinality(OnWayToPop)

PushesWoken ==
  At("push_sleep") # {} =>
    Size - (pwrite - pread) <= Cardinality(At("pop_notify")) + Cardinality(OnWayToPush)

\* notify_one is called after the mutex is released and wakes one thread only,
\* yet no wake-up is lost: while a pop sleeps, every item in the queue has a push
\* about to notify or another pop on its way to it; and while a push sleeps,
\* every free slot has a pop about to notify or another push on its way.
NoLostWakeup == PopsWoken /\ PushesWoken

IInv == TypeOK /\ MutexHeld /\ CounterOrder /\ SlotContents /\ NoLostWakeup

-----------------------------------------------------------------------------
(* Properties.  NoLostWakeup, above, is one of them.                        *)

\* The items between the two indices, oldest first.
Contents == [i \in 1 .. pwrite - pread |-> buffer[Slot(pread + i - 1)]]

\* The queue implements the bounded first-in first-out queue; push and pop take
\* effect inside the critical section.
BQ == INSTANCE BoundedQueue WITH queue <- Contents
ImplementsBoundedQueue == BQ!Spec

\* A pop does not stay blocked while there are items, nor a push while there is
\* room: it returns, or others use the items or the room up.
BlockedCallsResume ==
  \A t \in Threads :
    /\ (pc[t] = "pop_sleep" /\ pread < pwrite)
         ~> (pc[t] \in {"pop_notify", "idle"} \/ pread = pwrite)
    /\ (pc[t] = "push_sleep" /\ pwrite < pread + Size)
         ~> (pc[t] \in {"push_notify", "idle"} \/ pwrite = pread + Size)

=============================================================================
