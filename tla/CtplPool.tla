------------------------------ MODULE CtplPool ------------------------------
(***************************************************************************)
(* scheduler/ctpl_stl.h: thread_pool, as the scheduler uses it: threads    *)
(* that pop functions from a queue, push, and the stop(true) of the        *)
(* destructor.  The queue has a mutex of its own; the pool's mutex only    *)
(* protects the wait, whose predicate pops from the queue.  So a push and  *)
(* the store to isDone may fall between the predicate and the sleep of a   *)
(* worker ("block"), while the notification that follows waits for it.     *)
(***************************************************************************)
EXTENDS Naturals, Sequences

CONSTANTS Workers,  \* threads
          Free,     \* the mutex is not held
          NoJob     \* a worker has no function in hand

ASSUME PoolAssumption == Free \notin Workers /\ Workers # {}

VARIABLES q,        \* q: the functions waiting
          mutex,    \* who holds the pool's mutex across a step
          isDone,   \* isDone
          wk,       \* where each worker is
          cur       \* the function it has popped

poolVars == <<q, mutex, isDone, wk, cur>>

\* pop: about to pop; run: in the function; after: the function has to put itself
\* back; lock: about to wait; block: in wait(), with the mutex; asleep; awake:
\* notified, or woken spuriously; gone: the thread has ended.
Places == {"pop", "run", "after", "lock", "block", "asleep", "awake", "gone"}

PoolInit == /\ q = <<>> /\ mutex = Free /\ isDone = FALSE
            /\ wk = [w \in Workers |-> "pop"] /\ cur = [w \in Workers |-> NoJob]

Asleep == {w \in Workers : wk[w] = "asleep"}

\* push: the function is queued first ...
PushJob(j) == /\ q' = Append(q, j)
              /\ UNCHANGED <<mutex, isDone, wk, cur>>

\* Mutant: push does not wait for the mutex.
PushNotify_Unlocked == /\ IF Asleep = {} THEN wk' = wk
                          ELSE \E w \in Asleep : wk' = [wk EXCEPT ![w] = "awake"]
                       /\ UNCHANGED <<q, mutex, isDone, cur>>

\* ... then one waiting thread is notified, under the mutex.
PushNotify == /\ mutex = Free
              /\ IF Asleep = {} THEN wk' = wk
                 ELSE \E w \in Asleep : wk' = [wk EXCEPT ![w] = "awake"]
              /\ UNCHANGED <<q, mutex, isDone, cur>>

Take(w) == /\ cur' = [cur EXCEPT ![w] = Head(q)] /\ q' = Tail(q)
           /\ wk' = [wk EXCEPT ![w] = "run"]
           /\ UNCHANGED <<mutex, isDone>>

\* isPop = this->q.pop(_f), outside the wait.
Pop(w) == /\ wk[w] = "pop"
          /\ IF q # <<>> THEN Take(w)
             ELSE wk' = [wk EXCEPT ![w] = "lock"] /\ UNCHANGED <<q, mutex, isDone, cur>>

\* Mutant: a worker leaves when the pool is done, whatever is in the queue.
Wait_LeavesFirst(w) ==
    /\ wk[w] \in {"lock", "awake"} /\ mutex = Free
    /\ \/ ~isDone /\ q # <<>> /\ Take(w)
       \/ /\ isDone
          /\ wk' = [wk EXCEPT ![w] = "gone"] /\ UNCHANGED <<q, mutex, isDone, cur>>
       \/ /\ q = <<>> /\ ~isDone
          /\ wk' = [wk EXCEPT ![w] = "block"] /\ mutex' = w
          /\ UNCHANGED <<q, isDone, cur>>

\* The predicate of the wait: it pops a function, or sees isDone, or is false.
Wait(w) ==
    /\ wk[w] \in {"lock", "awake"} /\ mutex = Free
    /\ \/ q # <<>> /\ Take(w)
       \/ /\ q = <<>> /\ isDone
          /\ wk' = [wk EXCEPT ![w] = "gone"] /\ UNCHANGED <<q, mutex, isDone, cur>>
       \/ /\ q = <<>> /\ ~isDone
          /\ wk' = [wk EXCEPT ![w] = "block"] /\ mutex' = w
          /\ UNCHANGED <<q, isDone, cur>>

Sleep(w) == /\ wk[w] = "block"
            /\ wk' = [wk EXCEPT ![w] = "asleep"] /\ mutex' = Free
            /\ UNCHANGED <<q, isDone, cur>>

Spurious(w) == /\ wk[w] = "asleep"
               /\ wk' = [wk EXCEPT ![w] = "awake"]
               /\ UNCHANGED <<q, mutex, isDone, cur>>

\* The function of w returns.
Return(w) == /\ wk' = [wk EXCEPT ![w] = "pop"] /\ cur' = [cur EXCEPT ![w] = NoJob]
             /\ UNCHANGED <<q, mutex, isDone>>

\* stop(true): isDone is stored ...
SetDone == isDone' = TRUE /\ UNCHANGED <<q, mutex, wk, cur>>

\* ... and every waiting thread is notified, under the mutex.
StopNotify == /\ mutex = Free
              /\ wk' = [w \in Workers |-> IF wk[w] = "asleep" THEN "awake" ELSE wk[w]]
              /\ UNCHANGED <<q, mutex, isDone, cur>>

AllGone == \A w \in Workers : wk[w] = "gone"
=============================================================================
