-------------------------- MODULE SafeQueueProofs --------------------------
(***************************************************************************)
(* Proofs about SafeQueue for any set of threads, any capacity and any     *)
(* number of pushes: the inductive invariant IInv, the properties it       *)
(* implies, and that the queue implements FifoChannel; then, from the same *)
(* invariant, that HSHA servers lose no answer.                            *)
(***************************************************************************)
EXTENDS Hsha, SequenceTheorems, FiniteSetTheorems, TLAPS

-----------------------------------------------------------------------------
(* Two facts about the history p \o q of a queue q.                         *)

\* Accepting an item at the back of the queue appends it to the history.
LEMMA AppendToHistory ==
    \A p, q \in Seq(Values) : \A v \in Values : Append(p \o q, v) = p \o Append(q, v)
<1> SUFFICES ASSUME NEW p \in Seq(Values), NEW q \in Seq(Values), NEW v \in Values
             PROVE  Append(p \o q, v) = p \o Append(q, v)
  OBVIOUS
<1>1. p \o q \in Seq(Values) /\ <<v>> \in Seq(Values)
  BY ConcatProperties
<1>2. Append(p \o q, v) = (p \o q) \o <<v>>
  BY <1>1, AppendIsConcat
<1>3. Append(q, v) = q \o <<v>>
  BY AppendIsConcat
<1>4. (p \o q) \o <<v>> = p \o (q \o <<v>>)
  BY <1>1, ConcatAssociative
<1> QED BY <1>2, <1>3, <1>4

\* Moving the front item from the queue to the history of the items handed out
\* leaves the whole history as it was, and the front item is the next one of it.
LEMMA MoveFront ==
    ASSUME NEW S, NEW p \in Seq(S), NEW q \in Seq(S), q # <<>>
    PROVE  /\ Append(p, Head(q)) \o Tail(q) = p \o q
           /\ Len(p) < Len(p \o q)
           /\ (p \o q)[Len(p) + 1] = Head(q)
<1>1. Head(q) \in S /\ Tail(q) \in Seq(S) /\ <<Head(q)>> \in Seq(S)
  BY HeadTailProperties
<1>2. Append(p, Head(q)) = p \o <<Head(q)>>
  BY <1>1, AppendIsConcat
<1>3. <<Head(q)>> \o Tail(q) = q
  BY <1>1
<1>4. (p \o <<Head(q)>>) \o Tail(q) = p \o (<<Head(q)>> \o Tail(q))
  BY <1>1, ConcatAssociative
<1>5. Len(p) < Len(p \o q) /\ (p \o q)[Len(p) + 1] = Head(q)
  BY ConcatProperties
<1> QED BY <1>2, <1>3, <1>4, <1>5

-----------------------------------------------------------------------------

\* Type correctness is preserved by every step.
LEMMA TypeStep == TypeOK /\ [Next]_vars => TypeOK'
<1> SUFFICES ASSUME TypeOK, [Next]_vars PROVE TypeOK'
  OBVIOUS
<1> USE DEF TypeOK, Places, Waits
<1>1. ASSUME NEW t \in Threads, Take(t), wait' \in [Threads -> Waits]  PROVE TypeOK'
  <2>1. CASE items = <<>>
    BY <1>1, <2>1 DEF Take
  <2>2. CASE items # <<>>
    <3>1. Head(items) \in Values /\ items' \in Seq(Values)
      BY <1>1, <2>2, HeadTailProperties DEF Take
    <3>2. popped' = Append(popped, Head(items))
      BY <1>1, <2>2 DEF Take
    <3>3. popped' \in Seq(Values)
      BY <3>1, <3>2
    <3> QED BY <1>1, <2>2, <3>1, <3>3 DEF Take
  <2> QED BY <2>1, <2>2
<1>2. ASSUME NEW t \in Threads, Block(t), wait' \in [Threads -> Waits]  PROVE TypeOK'
  BY <1>2 DEF Block
<1>3. ASSUME NEW t \in Threads, NEW v \in Values, Push(t, v)  PROVE TypeOK'
  <2>1. items' \in Seq(Values) /\ pushed' \in Seq(Values)
    BY <1>3, AppendProperties DEF Push
  <2>2. pc' \in [Threads -> Places]
    BY <1>3 DEF Push, NotifyOne, In
  <2> QED BY <1>3, <2>1, <2>2 DEF Push
<1>4. ASSUME NEW t \in Threads, NEW w \in Waits, PopBegin(t, w)  PROVE TypeOK'
  BY <1>1, <1>2, <1>4 DEF PopBegin
<1>5. ASSUME NEW t \in Threads, Relock(t)  PROVE TypeOK'
  BY <1>1, <1>2, <1>5 DEF Relock
<1>6. ASSUME NEW t \in Threads, Sleep(t) \/ Spurious(t) \/ Timeout(t) \/ SetExit(t)
      PROVE  TypeOK'
  BY <1>6 DEF Sleep, Spurious, Timeout, SetExit
<1>7. ASSUME NEW t \in Threads, ExitNotify(t)  PROVE TypeOK'
  BY <1>7 DEF ExitNotify
<1>8. CASE UNCHANGED vars
  BY <1>8 DEF vars
<1> QED BY <1>3, <1>4, <1>5, <1>6, <1>7, <1>8 DEF Next, Inside, PushRefused

\* How the mutex is held, and what its holder and the callers of exit() know.
LEMMA MutexStep ==
    TypeOK /\ OwnerBlocks /\ BlockSeesEmpty /\ ExpiredIsTimed /\ ExitingMeansExit
        /\ [Next]_vars
    => (OwnerBlocks /\ BlockSeesEmpty /\ ExpiredIsTimed /\ ExitingMeansExit)'
<1> DEFINE M == OwnerBlocks /\ BlockSeesEmpty /\ ExpiredIsTimed /\ ExitingMeansExit
<1> SUFFICES ASSUME TypeOK, M, [Next]_vars PROVE M'
  OBVIOUS
<1> USE SafeQueueAssumption DEF TypeOK, Places, Waits, OwnerBlocks, BlockSeesEmpty,
                                ExpiredIsTimed, ExitingMeansExit, In
<1>1. ASSUME NEW t \in Threads, owner = Free, Take(t),
             \A u \in Threads : u # t => wait'[u] = wait[u]
      PROVE  M'
  BY <1>1 DEF Take
<1>2. ASSUME NEW t \in Threads, owner = Free, ~Ready, Block(t),
             \A u \in Threads : u # t => wait'[u] = wait[u]
      PROVE  M'
  BY <1>2 DEF Block, Ready
<1>3. ASSUME NEW t \in Threads, NEW v \in Values, Push(t, v)  PROVE M'
  BY <1>3 DEF Push, NotifyOne
<1>4. ASSUME NEW t \in Threads, NEW w \in Waits, PopBegin(t, w)  PROVE M'
  BY <1>1, <1>2, <1>4 DEF PopBegin
<1>5. ASSUME NEW t \in Threads, Relock(t)  PROVE M'
  BY <1>1, <1>2, <1>5 DEF Relock, WaitAgain
<1>6. ASSUME NEW t \in Threads, Sleep(t) \/ Spurious(t) \/ Timeout(t)
      PROVE  M'
  BY <1>6 DEF Sleep, Spurious, Timeout
<1>7. ASSUME NEW t \in Threads, SetExit(t) \/ ExitNotify(t)  PROVE M'
  BY <1>7 DEF SetExit, ExitNotify
<1>8. CASE UNCHANGED vars
  BY <1>8 DEF vars
<1> QED BY <1>3, <1>4, <1>5, <1>6, <1>7, <1>8 DEF Next, Inside, PushRefused

\* The history of accepted items stays the items handed out and the items queued,
\* and the queue stays within its capacity.
LEMMA ContentsStep ==
    TypeOK /\ Fifo /\ WithinCapacity /\ [Next]_vars => (Fifo /\ WithinCapacity)'
<1> DEFINE C == Fifo /\ WithinCapacity
<1> SUFFICES ASSUME TypeOK, C, [Next]_vars PROVE C'
  OBVIOUS
<1>0. /\ items \in Seq(Values) /\ popped \in Seq(Values) /\ pushed = popped \o items
      /\ Len(items) \in Nat /\ Capacity \in Nat
  BY SafeQueueAssumption DEF TypeOK, Fifo
<1>1. ASSUME NEW t \in Threads, Take(t)  PROVE C'
  <2>1. CASE items = <<>>
    BY <1>1, <2>1 DEF Take, Fifo, WithinCapacity
  <2>2. CASE items # <<>>
    <3>1. items' = Tail(items) /\ popped' = Append(popped, Head(items)) /\ pushed' = pushed
      BY <1>1, <2>2 DEF Take
    <3>2. Len(items') = Len(items) - 1
      BY <1>0, <2>2, <3>1, HeadTailProperties
    <3> QED BY <1>0, <2>2, <3>1, <3>2, MoveFront DEF Fifo, WithinCapacity
  <2> QED BY <2>1, <2>2
<1>2. ASSUME NEW t \in Threads, NEW v \in Values, Push(t, v)  PROVE C'
  <2>1. items' = Append(items, v) /\ pushed' = Append(pushed, v) /\ popped' = popped /\ ~Full
    BY <1>2 DEF Push
  <2>2. Len(items') = Len(items) + 1
    BY <1>0, <2>1, AppendProperties
  <2>3. Append(popped \o items, v) = popped \o Append(items, v)
    <3>1. items \in Seq(Values) /\ popped \in Seq(Values) /\ v \in Values
      BY <1>0
    <3> QED BY <3>1, AppendToHistory, Zenon
  <2>4. Fifo'
    BY <1>0, <2>1, <2>3 DEF Fifo
  <2>5. WithinCapacity'
    BY <1>0, <2>1, <2>2 DEF WithinCapacity, Full
  <2> QED BY <2>4, <2>5
<1>3. CASE UNCHANGED <<items, popped, pushed>>
  BY <1>3 DEF Fifo, WithinCapacity
<1> QED BY <1>1, <1>2, <1>3 DEF Next, Inside, PopBegin, Relock, Block, Sleep, Spurious,
                               Timeout, SetExit, ExitNotify, PushRefused, vars

\* The counting argument: a push that finds a sleeping thread wakes one, and a
\* thread falls asleep only on an empty queue.
LEMMA WakeupStep ==
    TypeOK /\ OwnerBlocks /\ BlockSeesEmpty /\ NoLostWakeup /\ [Next]_vars => NoLostWakeup'
<1> SUFFICES ASSUME TypeOK, OwnerBlocks, BlockSeesEmpty, NoLostWakeup, [Next]_vars
             PROVE  NoLostWakeup'
  OBVIOUS
<1> DEFINE A == In("awake")
<1>0. /\ items \in Seq(Values) /\ Len(items) \in Nat /\ pc \in [Threads -> Places]
      /\ IsFiniteSet(A) /\ Cardinality(A) \in Nat
      /\ IsFiniteSet(A') /\ Cardinality(A') \in Nat
  BY SafeQueueAssumption, FS_Subset, FS_CardinalityType DEF TypeOK, In
<1>1. ASSUME NEW t \in Threads, Take(t)  PROVE NoLostWakeup'
  <2>1. A' = A \ {t} /\ In("asleep")' = In("asleep") \ {t}
    BY <1>0, <1>1 DEF Take, In, Places
  <2>2. Cardinality(A') >= Cardinality(A) - 1
    <3>1. Cardinality(A \ {t}) = IF t \in A THEN Cardinality(A) - 1 ELSE Cardinality(A)
      BY <1>0, FS_RemoveElement
    <3>2. Cardinality(A') = Cardinality(A \ {t})
      BY <2>1
    <3> QED BY <1>0, <3>1, <3>2
  <2>3. items' = <<>> \/ Len(items') = Len(items) - 1
    BY <1>0, <1>1, HeadTailProperties DEF Take
  <2>4. Len(<<>>) = 0
    OBVIOUS
  <2> QED BY <1>0, <2>1, <2>2, <2>3, <2>4 DEF NoLostWakeup
<1>2. ASSUME NEW t \in Threads, Block(t), ~Ready  PROVE NoLostWakeup'
  <2>1. Len(items') = 0
    BY <1>2 DEF Block, Ready
  <2> QED BY <1>0, <2>1 DEF NoLostWakeup
<1>3. ASSUME NEW t \in Threads, NEW v \in Values, Push(t, v)  PROVE NoLostWakeup'
  <2>1. Len(items') = Len(items) + 1
    BY <1>0, <1>3, AppendProperties DEF Push
  <2>2. CASE In("asleep") = {}
    BY <1>3, <2>2 DEF Push, NotifyOne, NoLostWakeup, In
  <2>3. CASE In("asleep") # {}
    <3>1. PICK w \in In("asleep") : pc' = [pc EXCEPT ![w] = "awake"]
      BY <1>3, <2>3 DEF Push, NotifyOne
    <3>2. w \notin A /\ A' = A \cup {w}
      BY <1>0, <3>1 DEF In, Places
    <3>3. Cardinality(A') = Cardinality(A) + 1
      BY <1>0, <3>2, FS_AddElement
    <3> QED BY <1>0, <2>1, <2>3, <3>3 DEF NoLostWakeup
  <2> QED BY <2>2, <2>3
<1>4. ASSUME NEW t \in Threads, NEW w \in Waits, PopBegin(t, w)  PROVE NoLostWakeup'
  BY <1>1, <1>2, <1>4 DEF PopBegin
<1>5. ASSUME NEW t \in Threads, Relock(t)  PROVE NoLostWakeup'
  BY <1>1, <1>2, <1>5 DEF Relock, WaitAgain
<1>6. ASSUME NEW t \in Threads, Sleep(t)  PROVE NoLostWakeup'
  <2>1. Len(items') = 0
    BY <1>6, SafeQueueAssumption DEF Sleep, OwnerBlocks, BlockSeesEmpty
  <2> QED BY <1>0, <2>1 DEF NoLostWakeup
<1>7. ASSUME NEW t \in Threads, Spurious(t)  PROVE NoLostWakeup'
  <2>1. A \subseteq A' /\ In("asleep")' \subseteq In("asleep") /\ items' = items
    BY <1>0, <1>7 DEF Spurious, In, Places
  <2>2. Cardinality(A) <= Cardinality(A')
    BY <1>0, <2>1, FS_Subset
  <2> QED BY <1>0, <2>1, <2>2 DEF NoLostWakeup
<1>8. ASSUME NEW t \in Threads, Timeout(t) \/ SetExit(t)  PROVE NoLostWakeup'
  <2>1. A' = A /\ In("asleep")' \subseteq In("asleep") /\ items' = items
    BY <1>0, <1>8 DEF Timeout, SetExit, In, Places
  <2> QED BY <2>1 DEF NoLostWakeup
<1>9. ASSUME NEW t \in Threads, ExitNotify(t)  PROVE NoLostWakeup'
  BY <1>0, <1>9 DEF ExitNotify, In, Places, NoLostWakeup
<1>10. CASE UNCHANGED vars
  BY <1>10 DEF vars, NoLostWakeup, In
<1> QED BY <1>3, <1>4, <1>5, <1>6, <1>7, <1>8, <1>9, <1>10 DEF Next, Inside, PushRefused

\* exit_ is stored before the mutex is taken, the notification is sent under it:
\* the thread that was about to sleep when exit_ was stored is asleep by then.
LEMMA ExitStep ==
    TypeOK /\ OwnerBlocks /\ ExitWakesAll /\ [Next]_vars => ExitWakesAll'
<1> SUFFICES ASSUME TypeOK, OwnerBlocks, ExitWakesAll, [Next]_vars PROVE ExitWakesAll'
  OBVIOUS
<1> USE SafeQueueAssumption DEF TypeOK, Places, OwnerBlocks, ExitWakesAll, In
<1>1. ASSUME NEW t \in Threads, pc[t] # "exiting", Take(t)  PROVE ExitWakesAll'
  BY <1>1 DEF Take
<1>2. ASSUME NEW t \in Threads, Block(t), ~Ready  PROVE ExitWakesAll'
  BY <1>2 DEF Block, Ready
<1>3. ASSUME NEW t \in Threads, NEW v \in Values, Push(t, v)  PROVE ExitWakesAll'
  BY <1>3 DEF Push, NotifyOne
<1>4. ASSUME NEW t \in Threads, NEW w \in Waits, PopBegin(t, w)  PROVE ExitWakesAll'
  BY <1>1, <1>2, <1>4 DEF PopBegin
<1>5. ASSUME NEW t \in Threads, Relock(t)  PROVE ExitWakesAll'
  BY <1>1, <1>2, <1>5 DEF Relock, WaitAgain
<1>6. ASSUME NEW t \in Threads, Sleep(t) \/ Spurious(t) \/ Timeout(t) \/ SetExit(t)
      PROVE  ExitWakesAll'
  BY <1>6 DEF Sleep, Spurious, Timeout, SetExit
<1>7. ASSUME NEW t \in Threads, ExitNotify(t)  PROVE ExitWakesAll'
  BY <1>7 DEF ExitNotify
<1>8. CASE UNCHANGED vars
  BY <1>8 DEF vars
<1> QED BY <1>3, <1>4, <1>5, <1>6, <1>7, <1>8 DEF Next, Inside, PushRefused

\* A pop_wait without a time limit returns only when its predicate holds.
LEMMA EmptyHandedStep ==
    TypeOK /\ ExpiredIsTimed /\ ExitingMeansExit /\ EmptyHandedMeansExit /\ [Next]_vars
    => EmptyHandedMeansExit'
<1> SUFFICES ASSUME TypeOK, ExpiredIsTimed, ExitingMeansExit, EmptyHandedMeansExit,
                    [Next]_vars
             PROVE  EmptyHandedMeansExit'
  OBVIOUS
<1> USE SafeQueueAssumption DEF TypeOK, Places, Waits, ExpiredIsTimed, EmptyHandedMeansExit
<1>1. ASSUME NEW t \in Threads, Take(t), wait'[t] = "infinite" => Ready,
             \A u \in Threads : u # t => wait'[u] = wait[u]
      PROVE  EmptyHandedMeansExit'
  <2>1. items # <<>> => Head(items) # NoItem
    BY HeadTailProperties
  <2> QED BY <1>1, <2>1 DEF Take, Ready
<1>2. ASSUME NEW t \in Threads, Block(t),
             \A u \in Threads : u # t => wait'[u] = wait[u]
      PROVE  EmptyHandedMeansExit'
  BY <1>2 DEF Block
<1>3. ASSUME NEW t \in Threads, NEW v \in Values, Push(t, v)  PROVE EmptyHandedMeansExit'
  BY <1>3 DEF Push, NotifyOne, In
<1>4. ASSUME NEW t \in Threads, NEW w \in Waits, PopBegin(t, w)  PROVE EmptyHandedMeansExit'
  BY <1>1, <1>2, <1>4 DEF PopBegin
<1>5. ASSUME NEW t \in Threads, Relock(t)  PROVE EmptyHandedMeansExit'
  BY <1>1, <1>2, <1>5 DEF Relock, WaitAgain
<1>6. ASSUME NEW t \in Threads, Sleep(t) \/ Spurious(t) \/ Timeout(t) \/ SetExit(t)
      PROVE  EmptyHandedMeansExit'
  BY <1>6 DEF Sleep, Spurious, Timeout, SetExit
<1>7. ASSUME NEW t \in Threads, ExitNotify(t)  PROVE EmptyHandedMeansExit'
  BY <1>7 DEF ExitNotify, ExitingMeansExit, In
<1>8. CASE UNCHANGED vars
  BY <1>8 DEF vars
<1> QED BY <1>3, <1>4, <1>5, <1>6, <1>7, <1>8 DEF Next, Inside, PushRefused

-----------------------------------------------------------------------------

\* IInv holds in the initial state.
LEMMA InitIInv == Init => IInv
<1> SUFFICES ASSUME Init PROVE IInv
  OBVIOUS
<1>1. TypeOK
  <2>1. <<>> \in Seq(Values)
    OBVIOUS
  <2> QED BY <2>1 DEF Init, TypeOK, Places, Waits
<1>2. pushed = popped \o items
  BY DEF Init
<1>3. Len(items) = 0 /\ Capacity \in Nat
  BY SafeQueueAssumption DEF Init
<1>4. In("asleep") = {} /\ In("block") = {} /\ In("exiting") = {}
  BY DEF Init, In
<1> QED BY <1>1, <1>2, <1>3, <1>4, SafeQueueAssumption
        DEF Init, IInv, OwnerBlocks, BlockSeesEmpty, ExpiredIsTimed, ExitingMeansExit, Fifo,
            WithinCapacity, NoLostWakeup, ExitWakesAll, EmptyHandedMeansExit

\* IInv is preserved by every step of every thread.
LEMMA StepIInv == IInv /\ [Next]_vars => IInv'
BY TypeStep, MutexStep, ContentsStep, WakeupStep, ExitStep, EmptyHandedStep DEF IInv

\* The invariant of push, pop_wait and exit, for any threads, capacity and values.
THEOREM QueueInvariant == Spec => []IInv
BY InitIInv, StepIInv, PTL DEF Spec

\* Type correctness of the queue's fields.
THEOREM QueueTypeOK == Spec => []TypeOK
<1>1. IInv => TypeOK
  BY DEF IInv
<1> QED BY <1>1, QueueInvariant, PTL

\* No item accepted by push is lost, duplicated or reordered by pop_wait.
THEOREM QueueFifo == Spec => []Fifo
<1>1. IInv => Fifo
  BY DEF IInv
<1> QED BY <1>1, QueueInvariant, PTL

\* push never lets the queue grow beyond capacity_.
THEOREM QueueWithinCapacity == Spec => []WithinCapacity
<1>1. IInv => WithinCapacity
  BY DEF IInv
<1> QED BY <1>1, QueueInvariant, PTL

\* No notification of push is lost while a thread waits in pop_wait.
THEOREM QueueNoLostWakeup == Spec => []NoLostWakeup
<1>1. IInv => NoLostWakeup
  BY DEF IInv
<1> QED BY <1>1, QueueInvariant, PTL

\* After exit() has returned no thread waits in pop_wait.
THEOREM QueueExitWakesAll == Spec => []ExitWakesAll
<1>1. IInv => ExitWakesAll
  BY DEF IInv
<1> QED BY <1>1, QueueInvariant, PTL

\* pop_wait without a time limit returns false only after exit().
THEOREM QueueEmptyHanded == Spec => []EmptyHandedMeansExit
<1>1. IInv => EmptyHandedMeansExit
  BY DEF IInv
<1> QED BY <1>1, QueueInvariant, PTL

-----------------------------------------------------------------------------

\* Every step of the queue is a step of the FIFO channel or leaves it unchanged.
LEMMA ChannelStep ==
    TypeOK /\ Fifo /\ [Next]_vars => [Channel!Next]_<<pushed, popped>>
<1> SUFFICES ASSUME TypeOK, Fifo, [Next]_vars, ~UNCHANGED <<pushed, popped>>
             PROVE  Channel!Next
  OBVIOUS
<1>1. ASSUME NEW t \in Threads, NEW v \in Values, Push(t, v)  PROVE Channel!Next
  BY <1>1 DEF Push, Channel!Next, Channel!Put
<1>2. ASSUME NEW t \in Threads, Take(t)  PROVE Channel!Next
  <2>1. items # <<>> /\ popped' = Append(popped, Head(items)) /\ pushed' = pushed
    BY <1>2 DEF Take
  <2>2. Len(popped) < Len(pushed) /\ pushed[Len(popped) + 1] = Head(items)
    BY <2>1, MoveFront DEF TypeOK, Fifo
  <2> QED BY <2>1, <2>2 DEF Channel!Next, Channel!Get
<1> QED BY <1>1, <1>2 DEF Next, Inside, PopBegin, Relock, Block, Sleep, Spurious,
                         Timeout, SetExit, ExitNotify, PushRefused, vars

\* The queue implements the FIFO channel: refinement of the abstract specification.
THEOREM QueueImplementsChannel == Spec => ImplementsChannel
<1>1. Init => Channel!Init
  BY DEF Init, Channel!Init
<1>2. IInv /\ [Next]_vars => [Channel!Next]_<<pushed, popped>>
  BY ChannelStep DEF IInv
<1> QED BY <1>1, <1>2, QueueInvariant, PTL DEF Spec, ImplementsChannel, Channel!Spec

-----------------------------------------------------------------------------
(* HSHA: the answers that the workers post to the loop.                     *)

\* A task that is queued, or that a worker has taken, was accepted.
TasksAccepted ==
    /\ \A i \in 1 .. Len(items) : items[i] <= Len(pushed)
    /\ \A t \in Threads : ret[t] # NoItem => ret[t] <= Len(pushed)

\* Every accepted task has its peer, what ran was accepted, and a worker in wakeup() is
\* in its task.
PeersKnown ==
    /\ asker \in Seq(Peers) /\ Len(asker) = Len(pushed)
    /\ wpc \in [Workers -> WorkerPlaces]
    /\ \A w \in Workers : wpc[w] = "run" => ret[w] # NoItem
    /\ \A t \in ran : t \in 1 .. Len(pushed)
    /\ writing \subseteq Workers /\ \A w \in writing : wpc[w] = "run"

\* Where the owner of the pool may be when the loop is where it is: the workers have
\* ended before the loop leaves its while, and loop() returns only after its last round.
OwnerOrder ==
    /\ loop = "ctor" => main = "ctor"
    /\ exit => main \in {"exiting", "joining", "joined"}
    /\ main = "joined" => \A w \in Workers : wpc[w] = "done"
    /\ stopping => loop \in {"exiting", "stop"} \/ main = "joined"
    /\ last => stopping /\ loop \in {"poll", "events", "tasks", "over"}
    /\ loop = "over" => last

\* Answers that wait have a worker that is about to write to the pipe, a byte in it or a
\* loop that is running them; none is left when the last round is past the pipe.
WillSend ==
    /\ pipe \in Nat
    /\ posted # <<>> => writing # {} \/ pipe > 0 \/ loop = "tasks"
    /\ last /\ loop = "events" /\ posted # <<>> => woken
    /\ loop = "over" => posted = <<>>

\* The tasks whose answer was posted.
Computed == ran \cup {ret[w] : w \in writing}

\* An answer that was posted is dealt with, or it waits.
AnswersKept ==
    /\ posted \in Seq(Values)
    /\ \A t \in Computed : \/ t \in sent \cup empty \/ asker[t] \notin open
                           \/ \E i \in 1 .. Len(posted) : posted[i] = t

\* The inductive invariant of the servers.
HshaInv == /\ TypeOK /\ TasksAccepted /\ PeersKnown /\ OwnerOrder /\ WillSend /\ AnswersKept

\* Every step of the server is a step of the queue or leaves the queue alone.
LEMMA HshaQueueStep == TypeOK /\ HshaNext => [Next]_vars
<1> SUFFICES ASSUME TypeOK, HshaNext PROVE [Next]_vars
  OBVIOUS
<1> USE PoolAssumption, HshaAssumption
<1>1. ASSUME NEW w \in Workers, PoolThread(w) \/ WorkerSpurious(w)  PROVE [Next]_vars
  <2>1. w \in Threads
    OBVIOUS
  <2>2. CASE WorkerPop(w)
    BY <2>1, <2>2 DEF WorkerPop, Next, Inside, Waits
  <2>3. CASE WorkerTest(w) \/ Work(w) \/ Wakeup(w)
    BY <2>3 DEF WorkerTest, Work, Wakeup, WorkerRun, poolVars
  <2>4. CASE WorkerSpurious(w)
    BY <2>1, <2>4 DEF WorkerSpurious, Next
  <2> QED BY <1>1, <2>2, <2>3, <2>4 DEF PoolThread
<1>2. ASSUME NEW p \in Peers, OnMsg(p)  PROVE [Next]_vars
  <2>1. CASE Push(Main, Len(pushed) + 1)
    <3>1. Len(pushed) + 1 \in Values
      BY <2>1, SafeQueueAssumption DEF Push, TypeOK
    <3> QED BY <2>1, <3>1 DEF Next
  <2>2. CASE PushRefused(Main)
    BY <2>2 DEF Next
  <2> QED BY <1>2, <2>1, <2>2 DEF OnMsg, AddTask
<1>3. ASSUME ServerExit  PROVE [Next]_vars
  BY <1>3 DEF ServerExit, Exit, Join, Next, Inside
<1>4. ASSUME StartServer  PROVE [Next]_vars
  BY <1>4 DEF StartServer, Start, Started
<1>5. ASSUME \/ Poll \/ HandleWakeup \/ SendAnswer \/ TasksDone \/ RoundDone \/ BaseExit
             \/ ExitWakeup \/ \E p \in Peers : PeerCloses(p)
      PROVE  vars' = vars
  BY <1>5 DEF Poll, HandleWakeup, SendAnswer, TasksDone, RoundDone, BaseExit, ExitWakeup,
              PeerCloses, poolVars
<1> QED BY <1>1, <1>2, <1>3, <1>4, <1>5 DEF HshaNext, LoopStep

\* The queue's own steps hand out only what was accepted.
LEMMA AcceptedStep ==
    ASSUME TypeOK, TasksAccepted,
           \/ \E t \in Threads : \/ PopBegin(t, "infinite") \/ Sleep(t) \/ Relock(t)
                                 \/ Spurious(t) \/ SetExit(t) \/ ExitNotify(t)
           \/ vars' = vars
    PROVE  TasksAccepted' /\ pushed' = pushed
<1>1. ASSUME NEW t \in Threads, Take(t)  PROVE TasksAccepted' /\ pushed' = pushed
  <2>1. CASE items = <<>>
    BY <1>1, <2>1 DEF Take, TasksAccepted, TypeOK
  <2>2. CASE items # <<>>
    <3>0. items \in Seq(Values) /\ items # <<>> /\ items' = Tail(items)
      BY <1>1, <2>2 DEF Take, TypeOK
    <3>1. /\ Head(items) = items[1] /\ 1 \in 1 .. Len(items)
          /\ items' \in Seq(Values) /\ Len(items') = Len(items) - 1
          /\ \A i \in 1 .. Len(items') : items'[i] = items[i + 1]
      BY <3>0, HeadTailProperties
    <3>2. pushed' = pushed /\ ret' = [ret EXCEPT ![t] = Head(items)]
      BY <1>1, <2>2 DEF Take
    <3>3. \A i \in 1 .. Len(items') : items'[i] <= Len(pushed')
      BY <3>1, <3>2 DEF TasksAccepted
    <3>4. \A u \in Threads : ret'[u] # NoItem => ret'[u] <= Len(pushed')
      BY <3>1, <3>2 DEF TasksAccepted, TypeOK
    <3> QED BY <3>2, <3>3, <3>4 DEF TasksAccepted
  <2> QED BY <2>1, <2>2
<1>2. ASSUME UNCHANGED <<items, ret, pushed>>  PROVE TasksAccepted' /\ pushed' = pushed
  BY <1>2 DEF TasksAccepted
<1> QED BY <1>1, <1>2 DEF PopBegin, Sleep, Relock, Spurious, SetExit, ExitNotify, Block, vars

\* A task whose answer was posted was accepted.
LEMMA PostedAccepted ==
    ASSUME PeersKnown, TasksAccepted, TypeOK, NEW t \in Computed PROVE t \in 1 .. Len(pushed)
<1>1. CASE t \in ran
  BY <1>1 DEF PeersKnown
<1>2. CASE \E w \in writing : t = ret[w]
  <2>1. PICK w \in writing : t = ret[w]
    BY <1>2
  <2>2. w \in Threads /\ ret[w] # NoItem
    BY PoolAssumption DEF PeersKnown
  <2>3. ret[w] \in Values /\ ret[w] <= Len(pushed) /\ Len(pushed) \in Nat
    BY <2>2 DEF TasksAccepted, TypeOK
  <2> QED BY <2>1, <2>3, PoolAssumption
<1> QED BY <1>1, <1>2 DEF Computed

\* The answers are kept when nothing but the peers and the outcomes change.
LEMMA KeptUnchanged ==
    ASSUME PeersKnown, TasksAccepted, TypeOK, AnswersKept,
           Computed' = Computed, posted' = posted,
           sent \subseteq sent', empty \subseteq empty', open' \subseteq open,
           \A t \in 1 .. Len(pushed) : asker'[t] = asker[t]
    PROVE  AnswersKept'
<1> SUFFICES ASSUME NEW t \in Computed
             PROVE  \/ t \in sent' \cup empty' \/ asker'[t] \notin open'
                    \/ \E i \in 1 .. Len(posted) : posted[i] = t
  BY DEF AnswersKept
<1>1. t \in 1 .. Len(pushed)
  BY PostedAccepted
<1> QED BY <1>1 DEF AnswersKept

\* A worker's step in the pool, its answer aside.
LEMMA PoolThreadStep ==
    ASSUME HshaInv, TypeOK', NEW w \in Workers,
           WorkerTest(w) \/ WorkerPop(w) \/ WorkerSpurious(w), UNCHANGED loopVars
    PROVE  HshaInv'
<1> USE PoolAssumption DEF HshaInv
<1>1. w \in Threads /\ main' = main /\ ran' = ran /\ wpc[w] \in {"test", "call", "pop"}
  BY DEF WorkerTest, WorkerPop, WorkerSpurious
<1>2. TasksAccepted' /\ pushed' = pushed
  BY <1>1, AcceptedStep DEF WorkerTest, WorkerPop, WorkerSpurious
<1>3. \A u \in Workers \ {w} : wpc'[u] = wpc[u] /\ ret'[u] = ret[u]
  BY <1>1 DEF WorkerTest, WorkerPop, WorkerSpurious, PeersKnown, vars, Return, PopBegin, Relock,
              Sleep, Spurious, Take, Block, TypeOK
<1>4. /\ wpc' \in [Workers -> WorkerPlaces]
      /\ wpc'[w] = "run" => ret'[w] # NoItem
  BY <1>1 DEF WorkerTest, WorkerPop, WorkerSpurious, PeersKnown, WorkerPlaces, Return
<1>5. PeersKnown'
  BY <1>1, <1>2, <1>3, <1>4 DEF PeersKnown, loopVars
<1>6. exit' = exit
  BY DEF WorkerTest, WorkerPop, WorkerSpurious, vars, PopBegin, Relock, Sleep, Spurious, Take,
         Block
<1>7. OwnerOrder'
  BY <1>1, <1>6 DEF OwnerOrder, loopVars
<1>8. WillSend'
  BY DEF WillSend, loopVars
<1>9. Computed' = Computed
  <2>1. w \notin writing /\ writing' = writing /\ writing \subseteq Workers
    BY <1>1 DEF PeersKnown, loopVars
  <2> QED BY <1>1, <1>3, <2>1 DEF Computed
<1>10. AnswersKept'
  BY <1>9, KeptUnchanged DEF loopVars
<1> QED BY <1>2, <1>5, <1>7, <1>8, <1>10

\* A worker posts its answer: it has not ended, so the loop has not left its while.
LEMMA WorkStep ==
    ASSUME HshaInv, TypeOK', NEW w \in Workers, Work(w)
    PROVE  HshaInv'
<1> USE PoolAssumption DEF HshaInv
<1>1. /\ wpc[w] = "run" /\ writing' = writing \cup {w}
      /\ UNCHANGED <<items, exit, ret, pushed, main, wpc, ran>>
      /\ posted' = Append(posted, ret[w]) /\ empty \subseteq empty'
      /\ UNCHANGED <<loop, last, woken, pipe, stopping, asker, open, sent>>
  BY DEF Work, poolVars, vars
<1>2. w \in Threads /\ ret[w] \in Values /\ ret[w] \in 1 .. Len(pushed)
  BY <1>1 DEF PeersKnown, TasksAccepted, TypeOK
<1>3. TasksAccepted'
  BY <1>1 DEF TasksAccepted
<1>4. PeersKnown'
  BY <1>1, <1>2 DEF PeersKnown
<1>5. ~last /\ OwnerOrder'
  BY <1>1 DEF OwnerOrder, PeersKnown
<1>6. WillSend'
  BY <1>1, <1>5 DEF WillSend, OwnerOrder
<1>7. /\ posted' \in Seq(Values) /\ Len(posted') = Len(posted) + 1
      /\ posted'[Len(posted) + 1] = ret[w]
      /\ \A i \in 1 .. Len(posted) : posted'[i] = posted[i]
  BY <1>1, <1>2, AppendProperties DEF AnswersKept
<1>8. Len(posted) \in Nat
  BY LenProperties DEF AnswersKept
<1>9. ASSUME NEW t \in Computed'
      PROVE  \/ t \in sent' \cup empty' \/ asker'[t] \notin open'
             \/ \E i \in 1 .. Len(posted') : posted'[i] = t
  <2>1. CASE t = ret[w]
    <3>1. Len(posted) + 1 \in 1 .. Len(posted')
      BY <1>7, <1>8
    <3> QED BY <3>1, <2>1, <1>7
  <2>2. CASE t \in Computed
    <3>1. CASE \E i \in 1 .. Len(posted) : posted[i] = t
      BY <3>1, <1>7, <1>8
    <3>2. CASE t \in sent \cup empty \/ asker[t] \notin open
      BY <3>2, <1>1
    <3> QED BY <2>2, <3>1, <3>2 DEF AnswersKept
  <2>3. t = ret[w] \/ t \in Computed
    BY <1>1 DEF Computed
  <2> QED BY <2>1, <2>2, <2>3
<1> QED BY <1>3, <1>4, <1>5, <1>6, <1>7, <1>9 DEF AnswersKept

\* Its byte is in the pipe, and its task ends.
LEMMA TaskEndsStep ==
    ASSUME HshaInv, TypeOK', NEW w \in Workers, Wakeup(w) PROVE HshaInv'
<1> USE PoolAssumption DEF HshaInv
<1>1. /\ w \in writing /\ wpc[w] = "run" /\ writing' = writing \ {w} /\ pipe' = pipe + 1
      /\ ran' = ran \cup {ret[w]} /\ wpc' = [wpc EXCEPT ![w] = "test"]
      /\ UNCHANGED <<items, exit, ret, pushed, main>>
      /\ UNCHANGED <<loop, last, woken, stopping, posted, asker, open, empty, sent>>
  BY DEF Wakeup, WorkerRun, vars
<1>2. ret[w] \in 1 .. Len(pushed)
  BY <1>1, PostedAccepted DEF Computed
<1>3. TasksAccepted'
  BY <1>1 DEF TasksAccepted
<1>4. PeersKnown'
  BY <1>1, <1>2 DEF PeersKnown, WorkerPlaces
<1>5. ~last /\ OwnerOrder'
  BY <1>1 DEF OwnerOrder, PeersKnown
<1>6. WillSend'
  BY <1>1, <1>5 DEF WillSend, OwnerOrder
<1>7. Computed' = Computed
  BY <1>1 DEF Computed
<1>8. AnswersKept'
  BY <1>1, <1>7, KeptUnchanged
<1> QED BY <1>3, <1>4, <1>5, <1>6, <1>8

\* A message of a peer: a task with its peer, or nothing.
LEMMA OnMsgStep ==
    ASSUME HshaInv, TypeOK', NEW p \in Peers, OnMsg(p)
    PROVE  HshaInv'
<1> USE PoolAssumption DEF HshaInv
<1>1. /\ UNCHANGED <<exit, ret, wpc, main, ran>>
      /\ UNCHANGED <<loop, last, woken, pipe, writing, stopping, posted, open, empty, sent>>
      /\ Computed' = Computed
  BY DEF OnMsg, AddTask, Push, PushRefused, vars, Computed
<1>2. CASE Push(Main, Len(pushed) + 1)
  <2>1. /\ pushed' = Append(pushed, Len(pushed) + 1) /\ items' = Append(items, Len(pushed) + 1)
        /\ Len(pushed) + 1 \in Values
    BY <1>2, SafeQueueAssumption DEF Push, TypeOK
  <2>2. /\ Len(pushed') = Len(pushed) + 1 /\ Len(pushed) \in Nat /\ pushed' # pushed
        /\ Len(items') = Len(items) + 1 /\ items'[Len(items) + 1] = Len(pushed) + 1
        /\ \A i \in 1 .. Len(items) : items'[i] = items[i]
        /\ Len(items) \in Nat
    BY <2>1, AppendProperties DEF TypeOK
  <2>3. asker' = Append(asker, p)
    BY <2>2 DEF OnMsg
  <2>4. /\ asker' \in Seq(Peers) /\ Len(asker') = Len(asker) + 1
        /\ \A t \in 1 .. Len(pushed) : asker'[t] = asker[t]
    BY <2>3, AppendProperties DEF PeersKnown
  <2>5. TasksAccepted'
    <3>1. \A i \in 1 .. Len(items') : items'[i] <= Len(pushed')
      <4> SUFFICES ASSUME NEW i \in 1 .. Len(items') PROVE items'[i] <= Len(pushed')
        OBVIOUS
      <4>1. CASE i = Len(items) + 1
        BY <4>1, <2>2
      <4>2. CASE i \in 1 .. Len(items)
        <5>1. items[i] \in Values
          BY <4>2, ElementOfSeq DEF TypeOK
        <5>2. items[i] \in Nat /\ items[i] <= Len(pushed)
          BY <4>2, <5>1 DEF TasksAccepted
        <5> QED BY <5>2, <4>2, <2>2
      <4> QED BY <4>1, <4>2, <2>2
    <3>2. \A t \in Threads : ret'[t] # NoItem => ret'[t] <= Len(pushed')
      <4> SUFFICES ASSUME NEW t \in Threads, ret[t] # NoItem PROVE ret[t] <= Len(pushed')
        BY <1>1
      <4>1. ret[t] \in Nat /\ ret[t] <= Len(pushed)
        BY DEF TasksAccepted, TypeOK
      <4> QED BY <4>1, <2>2
    <3> QED BY <3>1, <3>2 DEF TasksAccepted
  <2>6. PeersKnown'
    BY <1>1, <2>2, <2>4 DEF PeersKnown
  <2>7. OwnerOrder' /\ WillSend'
    BY <1>1 DEF OwnerOrder, WillSend
  <2>8. AnswersKept'
    BY <1>1, <2>4, KeptUnchanged
  <2> QED BY <2>5, <2>6, <2>7, <2>8
<1>3. CASE PushRefused(Main)
  <2>1. UNCHANGED <<items, pushed, asker>>
    BY <1>3 DEF PushRefused, vars, OnMsg
  <2>2. AnswersKept'
    BY <1>1, <2>1, KeptUnchanged
  <2> QED BY <1>1, <2>1, <2>2 DEF TasksAccepted, PeersKnown, OwnerOrder, WillSend
<1> QED BY <1>2, <1>3 DEF OnMsg, AddTask

\* The steps of the loop's thread in the pool: start(), exit() and join().
LEMMA OwnerStep ==
    ASSUME HshaInv, TypeOK', StartServer \/ ServerExit
    PROVE  HshaInv'
<1> USE PoolAssumption DEF HshaInv
<1>1. /\ UNCHANGED <<ran, last, woken, pipe, writing, stopping, posted, asker, open, empty,
                     sent>>
      /\ loop = "ctor" \/ loop = "stop"
  BY DEF StartServer, ServerExit, Start, Started, Exit, Join, loopVars
<1>2. TasksAccepted' /\ pushed' = pushed /\ ret' = ret
  <2>1. ret' = ret
    BY DEF StartServer, ServerExit, Start, Started, Exit, Join, SetExit, ExitNotify, vars
  <2> QED BY <2>1, AcceptedStep DEF StartServer, ServerExit, Start, Started, Exit, Join
<1>3. /\ wpc' \in [Workers -> WorkerPlaces]
      /\ \A w \in Workers : wpc'[w] = "run" <=> wpc[w] = "run"
  BY DEF StartServer, ServerExit, Start, Started, Exit, Join, PeersKnown, WorkerPlaces
<1>4. PeersKnown'
  BY <1>1, <1>2, <1>3 DEF PeersKnown
<1>5. AnswersKept'
  <2>1. Computed' = Computed
    BY <1>1, <1>2 DEF Computed
  <2> QED BY <1>1, <2>1, KeptUnchanged
<1>6. CASE StartServer
  <2>1. /\ loop = "ctor" /\ main = "ctor" /\ ~exit /\ exit' = exit /\ ~last /\ ~stopping
        /\ loop' \in {"ctor", "poll", "terminated"} /\ main' \in {"ctor", "running"}
        /\ loop' = "ctor" => main' = "ctor"
    BY <1>6 DEF StartServer, OwnerOrder, Start, Started, DestroyPool, loopVars, vars
  <2>2. OwnerOrder'
    BY <1>1, <2>1 DEF OwnerOrder
  <2>3. WillSend'
    BY <1>1, <2>1 DEF WillSend
  <2> QED BY <1>2, <1>4, <1>5, <2>2, <2>3
<1>7. CASE ServerExit
  <2>1. /\ loop = "stop" /\ ~last /\ wpc' = wpc
        /\ main' \in {"exiting", "joining", "joined"}
        /\ loop' = IF main' = "joined" THEN "events" ELSE "stop"
        /\ main' = "joined" => \A w \in Workers : wpc[w] = "done"
    BY <1>7 DEF ServerExit, OwnerOrder, Exit, Join
  <2>2. OwnerOrder'
    BY <1>1, <2>1 DEF OwnerOrder
  <2>3. WillSend'
    BY <1>1, <2>1 DEF WillSend
  <2> QED BY <1>2, <1>4, <1>5, <2>2, <2>3
<1> QED BY <1>6, <1>7

\* The rounds of the loop, the handler that calls base.exit(), and a peer that leaves.
LEMMA RoundStep ==
    ASSUME HshaInv, TypeOK',
           \/ Poll \/ HandleWakeup \/ SendAnswer \/ TasksDone \/ RoundDone \/ BaseExit
           \/ ExitWakeup \/ \E p \in Peers : PeerCloses(p)
    PROVE  HshaInv'
<1> USE DEF HshaInv
<1>1. /\ UNCHANGED <<items, exit, ret, pushed, wpc, main, ran, writing, asker, empty>>
      /\ Computed' = Computed
  BY DEF Poll, HandleWakeup, SendAnswer, TasksDone, RoundDone, BaseExit, ExitWakeup, PeerCloses,
         poolVars, vars, Computed
<1>2. TasksAccepted' /\ PeersKnown'
  BY <1>1 DEF TasksAccepted, PeersKnown
<1>3. OwnerOrder'
  <2>1. CASE Poll \/ HandleWakeup \/ SendAnswer \/ TasksDone
    BY <1>1, <2>1 DEF OwnerOrder, Poll, HandleWakeup, SendAnswer, TasksDone
  <2>2. CASE RoundDone
    BY <1>1, <2>2 DEF OwnerOrder, RoundDone
  <2>3. CASE BaseExit \/ ExitWakeup
    BY <1>1, <2>3 DEF OwnerOrder, BaseExit, ExitWakeup
  <2>4. CASE \E p \in Peers : PeerCloses(p)
    BY <1>1, <2>4 DEF OwnerOrder, PeerCloses
  <2> QED BY <2>1, <2>2, <2>3, <2>4
<1>4. CASE SendAnswer
  <2>1. /\ posted # <<>> /\ posted' = Tail(posted) /\ open' = open /\ loop = "tasks"
        /\ UNCHANGED <<loop, last, woken, pipe>>
        /\ sent' = IF Head(posted) \notin empty /\ asker[Head(posted)] \in open
                   THEN sent \cup {Head(posted)} ELSE sent
    BY <1>4 DEF SendAnswer
  <2>2. WillSend'
    BY <2>1 DEF WillSend
  <2>3. /\ posted' \in Seq(Values) /\ Len(posted') = Len(posted) - 1 /\ Len(posted) \in Nat
        /\ Head(posted) = posted[1]
        /\ \A i \in 1 .. Len(posted') : posted'[i] = posted[i + 1]
    BY <2>1, HeadTailProperties, LenProperties DEF AnswersKept
  <2>4. ASSUME NEW t \in Computed
        PROVE  \/ t \in sent' \cup empty \/ asker[t] \notin open
               \/ \E i \in 1 .. Len(posted') : posted'[i] = t
    <3>1. CASE t \in sent \cup empty \/ asker[t] \notin open
      BY <3>1, <2>1
    <3>2. CASE \E i \in 1 .. Len(posted) : posted[i] = t
      <4>1. PICK i \in 1 .. Len(posted) : posted[i] = t
        BY <3>2
      <4>2. CASE i = 1
        BY <4>1, <4>2, <2>1, <2>3
      <4>3. CASE i # 1
        <5>1. i - 1 \in 1 .. Len(posted') /\ (i - 1) + 1 = i
          BY <4>3, <2>3
        <5> QED BY <5>1, <4>1, <2>3
      <4> QED BY <4>2, <4>3
    <3> QED BY <3>1, <3>2 DEF AnswersKept
  <2>5. AnswersKept'
    BY <1>1, <2>1, <2>3, <2>4 DEF AnswersKept
  <2> QED BY <1>2, <1>3, <2>2, <2>5
<1>5. CASE \/ Poll \/ HandleWakeup \/ TasksDone \/ RoundDone \/ BaseExit
           \/ ExitWakeup \/ \E p \in Peers : PeerCloses(p)
  <2>1. posted' = posted /\ sent' = sent /\ open' \subseteq open
    BY <1>5 DEF Poll, HandleWakeup, TasksDone, RoundDone, BaseExit, ExitWakeup, PeerCloses
  <2>2. AnswersKept'
    BY <1>1, <2>1, KeptUnchanged
  <2>3. WillSend'
    <3>0. last => writing = {}
      BY DEF OwnerOrder, PeersKnown
    <3>1. CASE Poll
      BY <1>1, <3>0, <3>1 DEF Poll, WillSend
    <3>2. CASE HandleWakeup
      BY <1>1, <3>2, HshaAssumption DEF HandleWakeup, WillSend
    <3>3. CASE TasksDone
      BY <1>1, <3>3 DEF TasksDone, WillSend
    <3>4. CASE RoundDone
      BY <1>1, <3>4 DEF RoundDone, WillSend, OwnerOrder
    <3>5. CASE BaseExit \/ ExitWakeup
      BY <1>1, <3>5 DEF BaseExit, ExitWakeup, WillSend, OwnerOrder
    <3>6. CASE \E p \in Peers : PeerCloses(p)
      BY <1>1, <3>6 DEF PeerCloses, WillSend
    <3> QED BY <1>5, <3>1, <3>2, <3>3, <3>4, <3>5, <3>6
  <2> QED BY <1>2, <1>3, <2>2, <2>3
<1> QED BY <1>4, <1>5

\* Every step of the servers, their pool and their loop keeps the invariant.
LEMMA HshaStep == HshaInv /\ [HshaNext]_hshaVars => HshaInv'
<1> SUFFICES ASSUME HshaInv, [HshaNext]_hshaVars PROVE HshaInv'
  OBVIOUS
<1>1. CASE UNCHANGED hshaVars
  BY <1>1 DEF HshaInv, TypeOK, TasksAccepted, PeersKnown, OwnerOrder, WillSend, AnswersKept,
              Computed, hshaVars, poolVars, vars, loopVars
<1>2. CASE HshaNext
  <2>1. TypeOK'
    BY <1>2, HshaQueueStep, TypeStep DEF HshaInv
  <2> QED BY <1>2, <2>1, PoolThreadStep, WorkStep, TaskEndsStep, OnMsgStep, OwnerStep, RoundStep
          DEF HshaNext, LoopStep, PoolThread
<1> QED BY <1>1, <1>2

LEMMA HshaInitInv == HshaInit => HshaInv
<1> SUFFICES ASSUME HshaInit PROVE HshaInv
  OBVIOUS
<1> USE DEF HshaInit, PoolInit
<1>1. TypeOK
  BY InitIInv DEF IInv
<1>2. TasksAccepted
  BY DEF Init, TasksAccepted
<1>3. PeersKnown /\ OwnerOrder /\ WillSend /\ AnswersKept
  BY DEF Init, PeersKnown, OwnerOrder, WillSend, AnswersKept, Computed, WorkerPlaces
<1> QED BY <1>1, <1>2, <1>3 DEF HshaInv

\* HSHA::exit() and HSHAU::exit(): every answer a worker computed was handed to its
\* connection before loop() returns, unless it is empty or the connection is closed.
THEOREM HshaNoAnswerLost == HshaSpec => []NoAnswerLost
<1>1. HshaInit => HshaInv
  BY HshaInitInv
<1>2. HshaInv => NoAnswerLost
  <2> SUFFICES ASSUME HshaInv, loop = "over", NEW t \in ran
               PROVE  t \in sent \cup empty \/ asker[t] \notin open
    BY DEF NoAnswerLost
  <2>1. posted = <<>>
    BY DEF HshaInv, OwnerOrder, WillSend
  <2> QED BY <2>1 DEF HshaInv, AnswersKept, Computed
<1> QED BY <1>1, <1>2, HshaStep, PTL DEF HshaSpec

\* The servers use the queue as SafeQueue lets it be used: every behaviour of a server,
\* with its pool and its loop, is one of the queue.
THEOREM HshaImplementsQueue == HshaSpec => Spec
<1>1. HshaInit => Init
  BY DEF HshaInit, PoolInit
<1>2. HshaInv /\ [HshaNext]_hshaVars => [Next]_vars
  BY HshaQueueStep DEF HshaInv, hshaVars, poolVars
<1> QED BY <1>1, <1>2, HshaInitInv, HshaStep, PTL DEF HshaSpec, Spec

\* So what the queue promises holds in a running server: tasks come out of the queue in
\* the order of onMsg, and no worker sleeps while one is queued or after exit().
THEOREM HshaQueueKeeps == HshaSpec => ImplementsChannel /\ []NoLostWakeup /\ []ExitWakesAll
BY HshaImplementsQueue, QueueImplementsChannel, QueueNoLostWakeup, QueueExitWakesAll, PTL
=============================================================================
