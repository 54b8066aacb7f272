----------------------------- MODULE SafeQueue -----------------------------
(***************************************************************************)
(* handy/threads.h: SafeQueue<T>, a mutex-protected list with a condition  *)
(* variable, used by the thread pool and by the event loop.                *)
(*                                                                         *)
(* A critical section that does not wait is one action, guarded by the     *)
(* mutex being free.  pop_wait may wait, so it is several actions: between *)
(* the test of its predicate and the moment the thread is asleep on the    *)
(* condition variable the thread still holds the mutex ("block"), and      *)
(* exit_, an atomic that is stored without the mutex, may change there.    *)
(***************************************************************************)
EXTENDS Naturals, Sequences, FiniteSets

CONSTANTS Threads,    \* the threads that call the queue
          Values,     \* what is stored in it
          Capacity,   \* capacity_: 0 means no limit
          MaxPush,    \* bound: accepted pushes
          NoItem,     \* pop_wait returned false (or T())
          Free        \* the mutex is not held

ASSUME SafeQueueAssumption ==
    /\ IsFiniteSet(Threads) /\ Free \notin Threads
    /\ NoItem \notin Values
    /\ Capacity \in Nat /\ MaxPush \in Nat

VARIABLES items,    \* items_
          exit,     \* exit_
          owner,    \* the thread holding the mutex across a step, or Free
          pc,       \* where each thread is inside the queue's code
          wait,     \* the waitMs class of the thread's last pop_wait
          ret,      \* the result of the thread's last pop_wait
          pushed,   \* history: every accepted item, in order
          popped    \* history: every item handed out, in order

vars == <<items, exit, owner, pc, wait, ret, pushed, popped>>

\* "infinite" is wait_infinite, "timed" any waitMs > 0, "none" waitMs <= 0.
Waits == {"infinite", "timed", "none"}

\* block:   in wait(), still holding the mutex
\* asleep:  waiting on ready_
\* awake:   notified (or woken spuriously), about to take the mutex again
\* expired: wait_until has timed out, about to take the mutex again
\* exiting: exit() has stored exit_ and not yet notified
Places == {"idle", "block", "asleep", "awake", "expired", "exiting"}

In(place) == {t \in Threads : pc[t] = place}

Init == /\ items = <<>> /\ exit = FALSE /\ owner = Free
        /\ pc = [t \in Threads |-> "idle"]
        /\ wait = [t \in Threads |-> "none"]
        /\ ret = [t \in Threads |-> NoItem]
        /\ pushed = <<>> /\ popped = <<>>

-----------------------------------------------------------------------------

Full == Capacity # 0 /\ Len(items) >= Capacity

\* The predicate of the waits: exit_ || !items_.empty().
Ready == exit \/ items # <<>>

\* Mutant: push does not notify.
NotifyOne_Missing == pc' = pc

\* ready_.notify_one(): some sleeping thread, if there is one, wakes up.
NotifyOne == IF In("asleep") = {}
             THEN pc' = pc
             ELSE \E w \in In("asleep") : pc' = [pc EXCEPT ![w] = "awake"]

\* push(v) that is accepted, by a thread that may be inside no other call.
Push(t, v) ==
    /\ pc[t] = "idle" /\ owner = Free /\ Len(pushed) < MaxPush
    /\ ~exit /\ ~Full
    /\ items' = Append(items, v)
    /\ pushed' = Append(pushed, v)
    /\ NotifyOne
    /\ UNCHANGED <<exit, owner, wait, ret, popped>>

\* push that returns false: nothing changes.
PushRefused(t) == /\ pc[t] = "idle" /\ owner = Free
                  /\ exit \/ Full
                  /\ UNCHANGED vars

\* Mutant: pop_wait takes the newest item.
Take_Newest(t) ==
    /\ pc' = [pc EXCEPT ![t] = "idle"]
    /\ ret' = [ret EXCEPT ![t] = IF items = <<>> THEN NoItem ELSE items[Len(items)]]
    /\ IF items = <<>>
       THEN UNCHANGED <<items, popped>>
       ELSE /\ items' = SubSeq(items, 1, Len(items) - 1)
            /\ popped' = Append(popped, items[Len(items)])
    /\ UNCHANGED <<exit, owner, pushed>>

\* The end of pop_wait: take the front item, or report that there is none.
Take(t) ==
    /\ pc' = [pc EXCEPT ![t] = "idle"]
    /\ ret' = [ret EXCEPT ![t] = IF items = <<>> THEN NoItem ELSE Head(items)]
    /\ IF items = <<>>
       THEN UNCHANGED <<items, popped>>
       ELSE items' = Tail(items) /\ popped' = Append(popped, Head(items))
    /\ UNCHANGED <<exit, owner, pushed>>

\* wait() has found its predicate false: the thread is about to sleep.
Block(t) == /\ pc' = [pc EXCEPT ![t] = "block"] /\ owner' = t
            /\ UNCHANGED <<items, exit, ret, pushed, popped>>

PopBegin(t, w) ==
    /\ pc[t] = "idle" /\ owner = Free
    /\ wait' = [wait EXCEPT ![t] = w]
    /\ IF Ready \/ w = "none" THEN Take(t) ELSE Block(t)

\* Releasing the mutex and going to sleep are one step of the condition variable.
Sleep(t) == /\ pc[t] = "block"
            /\ pc' = [pc EXCEPT ![t] = "asleep"] /\ owner' = Free
            /\ UNCHANGED <<items, exit, wait, ret, pushed, popped>>

Spurious(t) == /\ pc[t] = "asleep"
               /\ pc' = [pc EXCEPT ![t] = "awake"]
               /\ UNCHANGED <<items, exit, owner, wait, ret, pushed, popped>>

Timeout(t) == /\ pc[t] = "asleep" /\ wait[t] = "timed"
              /\ pc' = [pc EXCEPT ![t] = "expired"]
              /\ UNCHANGED <<items, exit, owner, wait, ret, pushed, popped>>

\* A woken thread waits again unless its predicate holds; one whose wait has
\* timed out never does.
WaitAgain(t) == pc[t] = "awake" /\ ~Ready

Relock(t) == /\ pc[t] \in {"awake", "expired"} /\ owner = Free
             /\ IF WaitAgain(t) THEN Block(t) ELSE Take(t)
             /\ wait' = wait

\* exit(): the store to exit_ precedes the lock.
SetExit(t) == /\ pc[t] = "idle"
              /\ exit' = TRUE
              /\ pc' = [pc EXCEPT ![t] = "exiting"]
              /\ UNCHANGED <<items, owner, wait, ret, pushed, popped>>

\* Mutant: exit() notifies without the mutex.
ExitNotify_Unlocked(t) ==
    /\ pc[t] = "exiting"
    /\ pc' = [u \in Threads |-> IF u = t THEN "idle"
                                ELSE IF pc[u] = "asleep" THEN "awake" ELSE pc[u]]
    /\ UNCHANGED <<items, exit, owner, wait, ret, pushed, popped>>

ExitNotify(t) ==
    /\ pc[t] = "exiting" /\ owner = Free
    /\ pc' = [u \in Threads |-> IF u = t THEN "idle"
                                ELSE IF pc[u] = "asleep" THEN "awake" ELSE pc[u]]
    /\ UNCHANGED <<items, exit, owner, wait, ret, pushed, popped>>

\* What a thread does once it has entered a call.
Inside(t) == Sleep(t) \/ Relock(t) \/ ExitNotify(t)

Next == \E t \in Threads :
           \/ \E v \in Values : Push(t, v)
           \/ PushRefused(t)
           \/ \E w \in Waits : PopBegin(t, w)
           \/ Spurious(t) \/ Timeout(t) \/ SetExit(t)
           \/ Inside(t)

Spec == Init /\ [][Next]_vars


-----------------------------------------------------------------------------

\* Every variable has the type of the field it stands for.
TypeOK == /\ items \in Seq(Values) /\ pushed \in Seq(Values) /\ popped \in Seq(Values)
          /\ exit \in BOOLEAN
          /\ owner \in Threads \cup {Free}
          /\ pc \in [Threads -> Places]
          /\ wait \in [Threads -> Waits]
          /\ ret \in [Threads -> Values \cup {NoItem}]

\* push and pop_wait: what was accepted is what was handed out followed by what
\* is still queued, so no item is lost, duplicated or reordered.
Fifo == pushed = popped \o items

\* push refuses an item when capacity_ items are queued ("队列满则返回false").
WithinCapacity == Capacity # 0 => Len(items) <= Capacity

\* push's notify_one and the predicate of wait: while a thread sleeps, every
\* queued item has a woken thread on its way to it, so no wake-up is lost.
NoLostWakeup == In("asleep") # {} => Len(items) <= Cardinality(In("awake"))

\* exit() takes the mutex before it notifies: once exit_ is set and every exit()
\* has returned, no thread is asleep or about to fall asleep.
ExitWakesAll == exit /\ In("exiting") = {} => In("asleep") = {} /\ In("block") = {}

\* pop_wait without a time limit comes back empty-handed only after exit().
EmptyHandedMeansExit ==
    \A t \in Threads : pc[t] = "idle" /\ wait[t] = "infinite" /\ ret[t] = NoItem => exit

\* The queue is a FIFO channel from push to pop_wait.
Channel == INSTANCE FifoChannel WITH in <- pushed, out <- popped
ImplementsChannel == Channel!Spec

-----------------------------------------------------------------------------
(* The strengthening of the invariants that is preserved by every step.     *)

\* The mutex is held across a step exactly by the thread about to sleep.
OwnerBlocks == \A t \in Threads : pc[t] = "block" <=> owner = t

\* A thread about to sleep has seen an empty queue and nobody has pushed since.
BlockSeesEmpty == owner # Free => items = <<>>

\* Only a wait with a time limit expires.
ExpiredIsTimed == \A t \in Threads : pc[t] = "expired" => wait[t] = "timed"

\* exit() in progress implies exit_.
ExitingMeansExit == In("exiting") # {} => exit

IInv == /\ TypeOK /\ OwnerBlocks /\ BlockSeesEmpty /\ ExpiredIsTimed /\ ExitingMeansExit
        /\ Fifo /\ WithinCapacity /\ NoLostWakeup /\ ExitWakesAll /\ EmptyHandedMeansExit
=============================================================================
