-------------------------- MODULE EventLoopProofs --------------------------
(***************************************************************************)
(* Proofs about EventLoop for any number of client threads, any task and   *)
(* pipe capacity: no wake-up is lost, and a task queued before exit() has  *)
(* run when loop() returns.  And about Idle, the idle connections that the *)
(* loop closes: one node for each, none closed early, none passed over.    *)
(***************************************************************************)
EXTENDS EventLoop, Idle, SequenceTheorems, TLAPS

-----------------------------------------------------------------------------
(* What push and pop do to the set of queued tasks.                         *)

Task == Nat \ {0}

\* push adds the task to the set of queued tasks.
LEMMA QueuedAppend ==
    \A s \in Seq(Task) : \A n \in Task : Queued(Append(s, n)) = Queued(s) \cup {n}
<1> SUFFICES ASSUME NEW s \in Seq(Task), NEW n \in Task
             PROVE  Queued(Append(s, n)) = Queued(s) \cup {n}
  OBVIOUS
<1>1. /\ Append(s, n) \in Seq(Task) /\ Len(Append(s, n)) = Len(s) + 1
      /\ \A i \in 1 .. Len(s) : Append(s, n)[i] = s[i]
      /\ Append(s, n)[Len(s) + 1] = n
      /\ Len(s) \in Nat
  BY AppendProperties, LenProperties
<1>2. DOMAIN s = 1 .. Len(s) /\ DOMAIN Append(s, n) = 1 .. (Len(s) + 1)
  BY <1>1, LenProperties
<1>3. ASSUME NEW x \in Queued(Append(s, n)) PROVE x \in Queued(s) \cup {n}
  BY <1>1, <1>2 DEF Queued
<1>4. ASSUME NEW x \in Queued(s) \cup {n} PROVE x \in Queued(Append(s, n))
  BY <1>1, <1>2 DEF Queued
<1> QED BY <1>3, <1>4

\* pop removes the front task from the sequence; the set loses at most that task.
LEMMA QueuedTail ==
    \A s \in Seq(Task) : s # <<>> => /\ Queued(s) = {Head(s)} \cup Queued(Tail(s))
                                     /\ Head(s) \in Task /\ Tail(s) \in Seq(Task)
<1> SUFFICES ASSUME NEW s \in Seq(Task), s # <<>>
             PROVE  /\ Queued(s) = {Head(s)} \cup Queued(Tail(s))
                    /\ Head(s) \in Task /\ Tail(s) \in Seq(Task)
  OBVIOUS
<1>1. /\ Head(s) = s[1] /\ Head(s) \in Task /\ Tail(s) \in Seq(Task)
      /\ Len(s) \in Nat /\ Len(s) > 0 /\ Len(Tail(s)) = Len(s) - 1
      /\ \A i \in 1 .. Len(Tail(s)) : Tail(s)[i] = s[i + 1]
  BY HeadTailProperties, LenProperties
<1>2. DOMAIN s = 1 .. Len(s) /\ DOMAIN Tail(s) = 1 .. (Len(s) - 1)
  BY <1>1, LenProperties
<1>3. ASSUME NEW x \in Queued(s) PROVE x \in {Head(s)} \cup Queued(Tail(s))
  <2>1. PICK i \in 1 .. Len(s) : x = s[i]
    BY <1>2 DEF Queued
  <2>2. CASE i = 1
    BY <1>1, <2>1, <2>2
  <2>3. CASE i # 1
    <3>1. i - 1 \in 1 .. Len(Tail(s)) /\ Tail(s)[i - 1] = s[i]
      BY <1>1, <2>1, <2>3
    <3> QED BY <1>1, <1>2, <2>1, <3>1 DEF Queued
  <2> QED BY <2>2, <2>3
<1>4. ASSUME NEW x \in {Head(s)} \cup Queued(Tail(s)) PROVE x \in Queued(s)
  <2>1. CASE x = Head(s)
    BY <1>1, <1>2, <2>1 DEF Queued
  <2>2. CASE x \in Queued(Tail(s))
    <3>1. PICK i \in 1 .. Len(Tail(s)) : x = Tail(s)[i]
      BY <1>1, <1>2, <2>2 DEF Queued
    <3>2. i + 1 \in 1 .. Len(s) /\ x = s[i + 1]
      BY <1>1, <3>1
    <3> QED BY <1>2, <3>2 DEF Queued
  <2> QED BY <1>4, <2>1, <2>2
<1> QED BY <1>1, <1>3, <1>4

\* An empty queue holds no task.
LEMMA QueuedEmpty == Queued(<<>>) = {}
BY DEF Queued

-----------------------------------------------------------------------------

\* Type correctness is preserved by every step.
LEMMA TypeStep == TypeOK /\ [Next]_vars => TypeOK'
<1> SUFFICES ASSUME TypeOK, [Next]_vars PROVE TypeOK'
  OBVIOUS
<1> USE LoopAssumption DEF TypeOK, CallKinds, LoopPlaces, history
<1>1. ASSUME NEW t \in Threads, SafeCall(t)  PROVE TypeOK'
  <2>1. posted + 1 \in Nat \ {0} /\ posted' = posted + 1
    BY <1>1 DEF SafeCall
  <2>2. tasks' \in Seq(Nat \ {0})
    <3>1. tasks' = tasks \/ tasks' = Append(tasks, posted + 1)
      BY <1>1 DEF SafeCall
    <3>2. Append(tasks, posted + 1) \in Seq(Nat \ {0})
      BY <2>1, AppendProperties
    <3> QED BY <3>1, <3>2
  <2>3. call' \in [Threads -> CallKinds] /\ arg' \in [Threads -> Nat]
    BY <1>1, <2>1 DEF SafeCall
  <2> QED BY <1>1, <2>1, <2>2, <2>3 DEF SafeCall
<1>2. ASSUME NEW t \in Threads, Exit(t)  PROVE TypeOK'
  BY <1>2 DEF Exit
<1>3. ASSUME NEW t \in Threads, Wakeup(t)  PROVE TypeOK'
  <2>1. pipe' \in 0 .. PipeCap
    BY <1>3 DEF Wakeup
  <2>2. call' \in [Threads -> CallKinds] /\ arg' \in [Threads -> Nat]
    BY <1>3 DEF Wakeup
  <2>3. returned' \subseteq Nat
    BY <1>3 DEF Wakeup
  <2> QED BY <1>3, <2>1, <2>2, <2>3 DEF Wakeup
<1>4. CASE Drain
  <2>1. CASE tasks = <<>>
    BY <1>4, <2>1 DEF Drain
  <2>2. CASE tasks # <<>>
    <3>1. Head(tasks) \in Nat /\ Tail(tasks) \in Seq(Nat \ {0})
      BY <2>2, HeadTailProperties
    <3> QED BY <1>4, <2>2, <3>1 DEF Drain
  <2> QED BY <2>1, <2>2
<1>5. CASE Test \/ Clear \/ PollEvents \/ PollOther
  BY <1>5 DEF Test, Clear, PollEvents, PollOther
<1>7. CASE Dispatch \/ IoDone
  BY <1>7 DEF Dispatch, IoDone
<1>8. CASE Read
  BY <1>8 DEF Read
<1>9. CASE RunDone
  <2>1. done' \subseteq Nat
    BY <1>9 DEF RunDone
  <2> QED BY <1>9, <2>1 DEF RunDone
<1>10. CASE TimersDone
  BY <1>10 DEF TimersDone
<1>6. CASE UNCHANGED vars
  BY <1>6 DEF vars
<1> QED BY <1>1, <1>2, <1>3, <1>4, <1>5, <1>6, <1>7, <1>8, <1>9, <1>10 DEF Next, LoopStep

\* A queued task is never forgotten between push and the end of task().
LEMMA KnownStep == TypeOK /\ QueuedIsKnown /\ [Next]_vars => QueuedIsKnown'
<1> SUFFICES ASSUME TypeOK, QueuedIsKnown, [Next]_vars PROVE QueuedIsKnown'
  OBVIOUS
<1>0. tasks \in Seq(Task) /\ posted + 1 \in Task
      /\ call \in [Threads -> CallKinds] /\ arg \in [Threads -> Nat]
  BY DEF TypeOK, Task
<1>1. ASSUME NEW t \in Threads, SafeCall(t)  PROVE QueuedIsKnown'
  <2>1. CASE Full
    BY <1>0, <1>1, <2>1 DEF SafeCall, QueuedIsKnown, Known
  <2>2. CASE ~Full
    <3>1. tasks' = Append(tasks, posted + 1)
      BY <1>1, <2>2 DEF SafeCall
    <3>2. Queued(tasks') = Queued(tasks) \cup {posted + 1}
      BY <1>0, <3>1, QueuedAppend, Zenon
    <3>3. Known' = Known \cup {posted + 1}
      BY <1>1, <2>2, <3>2 DEF SafeCall, Known
    <3> QED BY <1>0, <1>1, <2>2, <3>3 DEF SafeCall, QueuedIsKnown
  <2> QED BY <2>1, <2>2
<1>2. ASSUME NEW t \in Threads, Exit(t) \/ Wakeup(t)  PROVE QueuedIsKnown'
  <2>1. Known' = Known
    BY <1>2 DEF Exit, Wakeup, Known
  <2> QED BY <1>0, <1>2, <2>1 DEF Exit, Wakeup, QueuedIsKnown
<1>3. CASE Drain
  <2>1. CASE tasks = <<>>
    BY <1>3, <2>1 DEF Drain, At, QueuedIsKnown, Known, history
  <2>2. CASE tasks # <<>>
    BY <1>0, <1>3, <2>2, QueuedTail DEF Drain, At, QueuedIsKnown, Known, history
  <2> QED BY <2>1, <2>2
<1>4. CASE RunDone
  BY <1>4 DEF RunDone, At, QueuedIsKnown, Known
<1>5. CASE Test \/ Clear \/ PollEvents \/ PollOther \/ Dispatch \/ IoDone \/ Read \/ TimersDone
  BY <1>5 DEF Test, Clear, PollEvents, PollOther, Dispatch, IoDone, Read, TimersDone, At,
              QueuedIsKnown, Known, history
<1>6. CASE UNCHANGED vars
  BY <1>6 DEF vars, QueuedIsKnown, Known
<1> QED BY <1>1, <1>2, <1>3, <1>4, <1>5, <1>6 DEF Next, LoopStep

\* The numbers of the tasks grow with the calls of safeCall.
LEMMA NumberedStep == TypeOK /\ Numbered /\ [Next]_vars => Numbered'
<1> SUFFICES ASSUME TypeOK, Numbered, [Next]_vars PROVE Numbered'
  OBVIOUS
<1>0. posted \in Nat /\ arg \in [Threads -> Nat] /\ call \in [Threads -> CallKinds]
  BY DEF TypeOK
<1>1. ASSUME NEW t \in Threads, SafeCall(t)  PROVE Numbered'
  BY <1>0, <1>1 DEF SafeCall, Numbered, CallKinds
<1>2. ASSUME NEW t \in Threads, Exit(t)  PROVE Numbered'
  BY <1>0, <1>2 DEF Exit, Numbered, CallKinds
<1>3. ASSUME NEW t \in Threads, Wakeup(t)  PROVE Numbered'
  <2>1. call[t] = "safeCall" => arg[t] \in 1 .. posted
    BY <1>0 DEF Numbered
  <2>2. returned' \subseteq 1 .. posted'
    BY <1>3, <2>1 DEF Wakeup, Numbered
  <2>3. \A u \in Threads : arg'[u] <= posted' /\ (call'[u] = "safeCall" => arg'[u] > 0)
    BY <1>0, <1>3 DEF Wakeup, Numbered
  <2> QED BY <2>2, <2>3 DEF Numbered
<1>4. CASE UNCHANGED <<posted, returned, call, arg>>
  BY <1>4 DEF Numbered
<1> QED BY <1>1, <1>2, <1>3, <1>4
        DEF Next, LoopStep, Test, Clear, PollEvents, PollOther, Dispatch, IoDone, Read, Drain,
            RunDone, TimersDone, history, vars

\* While the handler of the pipe is not at work, a task whose safeCall has returned
\* has a byte in the pipe: the byte was written after the push, and the handler
\* reads before it drains and drains until the queue is empty.
LEMMA WakeupStep == TypeOK /\ Numbered /\ TaskHasWakeup /\ [Next]_vars => TaskHasWakeup'
<1> SUFFICES ASSUME TypeOK, Numbered, TaskHasWakeup, [Next]_vars PROVE TaskHasWakeup'
  OBVIOUS
<1>0. tasks \in Seq(Task) /\ pipe \in Nat /\ posted + 1 \in Task
  BY LoopAssumption DEF TypeOK, Task
<1>1. ASSUME NEW t \in Threads, SafeCall(t)  PROVE TaskHasWakeup'
  <2>1. CASE Full
    BY <1>1, <2>1 DEF SafeCall, TaskHasWakeup
  <2>2. CASE ~Full
    <3>1. tasks' = Append(tasks, posted + 1)
      BY <1>1, <2>2 DEF SafeCall
    <3>2. Queued(tasks') = Queued(tasks) \cup {posted + 1}
      BY <1>0, <3>1, QueuedAppend, Zenon
    <3>3. posted + 1 \notin returned
      BY DEF Numbered, TypeOK
    <3> QED BY <1>1, <3>2, <3>3 DEF SafeCall, TaskHasWakeup
  <2> QED BY <2>1, <2>2
<1>2. ASSUME NEW t \in Threads, Wakeup(t)  PROVE TaskHasWakeup'
  BY <1>0, <1>2 DEF Wakeup, TaskHasWakeup
<1>3. CASE Drain
  BY <1>3, QueuedEmpty DEF Drain, TaskHasWakeup
<1>4. CASE Read \/ RunDone
  BY <1>4 DEF Read, RunDone, TaskHasWakeup
<1>5. CASE Test \/ Clear \/ PollEvents \/ PollOther \/ Dispatch \/ IoDone \/ TimersDone
  BY <1>5 DEF Test, Clear, PollEvents, PollOther, Dispatch, IoDone, TimersDone, At, history,
              TaskHasWakeup
<1>6. ASSUME NEW t \in Threads, Exit(t)  PROVE TaskHasWakeup'
  BY <1>6 DEF Exit, TaskHasWakeup
<1>7. CASE UNCHANGED vars
  BY <1>7 DEF vars, TaskHasWakeup
<1> QED BY <1>1, <1>2, <1>3, <1>4, <1>5, <1>6, <1>7 DEF Next, LoopStep

\* What is owed stays among the tasks whose safeCall has returned.
LEMMA OwedStep == OwedIsReturned /\ [Next]_vars => OwedIsReturned'
BY DEF OwedIsReturned, Next, SafeCall, Exit, Wakeup, LoopStep, Test, Clear, PollEvents,
       PollOther, Dispatch, IoDone, Read, Drain, RunDone, TimersDone, history, vars

\* In the last round the pipe's handler runs if anything is owed, and it leaves
\* nothing queued; what is owed does not grow any more, because exit_ is set.
LEMMA LastRoundStep ==
    TypeOK /\ TaskHasWakeup /\ QueuedIsKnown /\ OwedIsReturned /\ LastRound /\ [Next]_vars
    => LastRound'
<1> SUFFICES ASSUME TypeOK, TaskHasWakeup, QueuedIsKnown, OwedIsReturned, LastRound,
                    [Next]_vars
             PROVE  LastRound'
  OBVIOUS
<1>0. pipe \in Nat
  BY LoopAssumption DEF TypeOK
<1>1. ASSUME NEW t \in Threads, SafeCall(t) \/ Exit(t) \/ Wakeup(t)  PROVE LastRound'
  BY <1>1 DEF SafeCall, Exit, Wakeup, LastRound
<1>2. CASE Test \/ Clear \/ PollEvents
  BY <1>2 DEF Test, Clear, PollEvents, At, LastRound, history
<1>3. CASE PollOther
  <2>1. owed \subseteq done
    BY <1>0, <1>3 DEF PollOther, At, TaskHasWakeup, QueuedIsKnown, Known, OwedIsReturned
  <2> QED BY <1>3, <2>1 DEF PollOther, At, LastRound, history
<1>4. CASE Dispatch \/ IoDone \/ Read
  BY <1>4 DEF Dispatch, IoDone, Read, At, LastRound, history
<1>5. CASE Drain
  <2>1. CASE tasks = <<>>
    <3>1. owed \subseteq done
      BY <1>5, <2>1, QueuedEmpty DEF Drain, At, QueuedIsKnown, Known, OwedIsReturned
    <3> QED BY <1>5, <2>1, <3>1 DEF Drain, At, LastRound, history
  <2>2. CASE tasks # <<>>
    BY <1>5, <2>2 DEF Drain, At, LastRound, history
  <2> QED BY <2>1, <2>2
<1>6. CASE RunDone \/ TimersDone
  BY <1>6 DEF RunDone, TimersDone, At, LastRound, history
<1>7. CASE UNCHANGED vars
  BY <1>7 DEF vars, LastRound
<1> QED BY <1>1, <1>2, <1>3, <1>4, <1>5, <1>6, <1>7 DEF Next, LoopStep

-----------------------------------------------------------------------------

\* IInv holds in the initial state.
LEMMA InitIInv == Init => IInv
<1> SUFFICES ASSUME Init PROVE IInv
  OBVIOUS
<1>1. TypeOK
  <2>1. <<>> \in Seq(Nat \ {0})
    OBVIOUS
  <2>2. 0 \in 0 .. PipeCap
    BY LoopAssumption
  <2>3. call \in [Threads -> CallKinds] /\ arg \in [Threads -> Nat]
    BY DEF Init, CallKinds
  <2> QED BY <2>1, <2>2, <2>3 DEF Init, TypeOK, LoopPlaces
<1>2. TaskHasWakeup /\ QueuedIsKnown /\ Numbered
  BY DEF Init, TaskHasWakeup, QueuedIsKnown, Known, Numbered
<1> QED BY <1>1, <1>2 DEF Init, IInv, OwedIsReturned, LastRound, NoTaskLostAtExit

\* IInv is preserved by every step of the loop and of the other threads.
LEMMA StepIInv == IInv /\ [Next]_vars => IInv'
<1> SUFFICES ASSUME IInv, [Next]_vars PROVE IInv'
  OBVIOUS
<1>1. /\ TypeOK' /\ Numbered' /\ TaskHasWakeup' /\ QueuedIsKnown' /\ OwedIsReturned'
      /\ LastRound'
  BY TypeStep, NumberedStep, WakeupStep, KnownStep, OwedStep, LastRoundStep DEF IInv
<1>2. NoTaskLostAtExit'
  BY <1>1 DEF LastRound, NoTaskLostAtExit
<1> QED BY <1>1, <1>2 DEF IInv

\* The invariant of loop(), safeCall and exit().
THEOREM LoopInvariant == Spec => []IInv
BY InitIInv, StepIInv, PTL DEF Spec

\* Type correctness of the loop's state.
THEOREM LoopTypeOK == Spec => []TypeOK
<1>1. IInv => TypeOK
  BY DEF IInv
<1> QED BY <1>1, LoopInvariant, PTL

\* A task whose safeCall has returned has a wake-up on its way to the loop.
THEOREM LoopTaskHasWakeup == Spec => []TaskHasWakeup
<1>1. IInv => TaskHasWakeup
  BY DEF IInv
<1> QED BY <1>1, LoopInvariant, PTL

\* Every task whose safeCall had returned when exit() was called has run when
\* loop() returns.
THEOREM LoopNoTaskLostAtExit == Spec => []NoTaskLostAtExit
<1>1. IInv => NoTaskLostAtExit
  BY DEF IInv
<1> QED BY <1>1, LoopInvariant, PTL

-----------------------------------------------------------------------------
(* Idle: the lists of connections and the walk of callIdles.                *)

\* The list s has one node for each connection of D, in the order of their times, and
\* none is later than second t.
Lists(s, D, t) == /\ s \in Seq(Node)
                  /\ \A c \in Conns : c \in D <=> \E k \in 1 .. Len(s) : s[k].con = c
                  /\ \A j, k \in 1 .. Len(s) : s[j].con = s[k].con => j = k
                  /\ \A j, k \in 1 .. Len(s) : j <= k => s[j].updated <= s[k].updated
                  /\ \A k \in 1 .. Len(s) : s[k].updated <= t

\* The clock's seconds only grow.
LEMMA SecGrows ==
    \A n \in Nat \ {0} : \A c \in Nat : c \div n \in Nat /\ c \div n <= (c + 1) \div n
OBVIOUS

\* The same of the clock itself.
LEMMA SecType == ASSUME clock \in Nat PROVE Sec(clock) \in Nat /\ Sec(clock) <= Sec(clock + 1)
BY SecGrows, IdleAssumption DEF Sec

\* A sequence without its p-th element.
LEMMA Removed ==
    ASSUME NEW S, NEW s \in Seq(S), NEW p \in 1 .. Len(s)
    PROVE  LET r == SubSeq(s, 1, p - 1) \o SubSeq(s, p + 1, Len(s))
           IN  /\ r \in Seq(S) /\ Len(r) = Len(s) - 1
               /\ \A k \in 1 .. Len(s) - 1 : r[k] = IF k < p THEN s[k] ELSE s[k + 1]
<1> DEFINE a == SubSeq(s, 1, p - 1)
           b == SubSeq(s, p + 1, Len(s))
           l == Len(s)
<1>1. l \in Nat /\ 1 \in 1 .. l + 1 /\ p - 1 \in 1 - 1 .. l /\ p + 1 \in 1 .. l + 1
      /\ l \in (p + 1) - 1 .. l
  BY LenProperties
<1>2. /\ a \in Seq(S) /\ Len(a) = (p - 1) - 1 + 1
      /\ \A i \in 1 .. (p - 1) - 1 + 1 : a[i] = s[1 + i - 1]
  BY <1>1, SubSeqProperties
<1>3. /\ b \in Seq(S) /\ Len(b) = l - (p + 1) + 1
      /\ \A i \in 1 .. l - (p + 1) + 1 : b[i] = s[(p + 1) + i - 1]
  BY <1>1, SubSeqProperties
<1> DEFINE r == a \o b
<1>4. /\ r \in Seq(S) /\ Len(r) = Len(a) + Len(b)
      /\ \A i \in 1 .. Len(a) + Len(b) : r[i] = IF i <= Len(a) THEN a[i] ELSE b[i - Len(a)]
  BY <1>2, <1>3, ConcatProperties
<1> HIDE DEF a, b, l, r
<1>5. Len(a) = p - 1 /\ Len(b) = l - p /\ p \in Nat /\ 1 <= p /\ p <= l
  BY <1>1, <1>2, <1>3 DEF l
<1>6. ASSUME NEW k \in 1 .. l - 1 PROVE r[k] = IF k < p THEN s[k] ELSE s[k + 1]
  <2>1. k \in 1 .. Len(a) + Len(b)
    BY <1>1, <1>5
  <2>2. CASE k < p
    <3>1. k <= Len(a) /\ k \in 1 .. (p - 1) - 1 + 1 /\ 1 + k - 1 = k
      BY <1>5, <2>2
    <3> QED BY <1>2, <1>4, <2>1, <2>2, <3>1
  <2>3. CASE ~(k < p)
    <3> DEFINE i == k - Len(a)
    <3>1. ~(k <= Len(a)) /\ i \in 1 .. l - (p + 1) + 1 /\ (p + 1) + i - 1 = k + 1
      BY <1>1, <1>5, <2>3
    <3>2. r[k] = b[i]
      BY <1>4, <2>1, <3>1
    <3>3. b[i] = s[(p + 1) + i - 1]
      BY <1>3, <3>1
    <3> QED BY <2>3, <3>1, <3>2, <3>3
  <2> QED BY <2>2, <2>3
<1>7. Len(r) = l - 1
  BY <1>1, <1>4, <1>5
<1> QED BY <1>4, <1>6, <1>7 DEF a, b, l, r

\* registerIdle: a node at the end.
LEMMA ListsAppend ==
    ASSUME NEW s, NEW D, NEW t \in Nat, Lists(s, D, t), NEW c \in Conns, c \notin D,
           NEW u \in Nat, t <= u
    PROVE  Lists(Append(s, [con |-> c, updated |-> u]), D \cup {c}, u)
<1> DEFINE n == [con |-> c, updated |-> u]
           r == Append(s, n)
           l == Len(s)
<1>1. n \in Node /\ n.con = c /\ n.updated = u
  BY DEF Node
<1>2. s \in Seq(Node) /\ l \in Nat
  BY LenProperties DEF Lists
<1>3. /\ r \in Seq(Node) /\ Len(r) = l + 1 /\ r[l + 1] = n
      /\ \A k \in 1 .. l : r[k] = s[k] /\ s[k] \in Node
  BY <1>1, <1>2, AppendProperties
<1> HIDE DEF n, r, l
<1>4. \A k \in 1 .. l : s[k].updated \in Nat /\ s[k].updated <= t /\ s[k].con # c
  BY <1>3 DEF Node, Lists, l
<1>5. \A k \in 1 .. l + 1 : k \in 1 .. l \/ k = l + 1
  BY <1>2
<1>6. \A x \in Conns : x \in D \cup {c} <=> \E k \in 1 .. l + 1 : r[k].con = x
  <2>1. \A x \in Conns : x \in D <=> \E k \in 1 .. l : s[k].con = x
    BY DEF Lists, l
  <2>2. \A k \in 1 .. l : k \in 1 .. l + 1
    BY <1>2
  <2>3. l + 1 \in 1 .. l + 1
    BY <1>2
  <2> QED BY <1>1, <1>3, <1>5, <2>1, <2>2, <2>3
<1>7. \A j, k \in 1 .. l + 1 : r[j].con = r[k].con => j = k
  <2>1. \A j, k \in 1 .. l : s[j].con = s[k].con => j = k
    BY DEF Lists, l
  <2> QED BY <1>1, <1>3, <1>4, <1>5, <2>1
<1>8. \A k \in 1 .. l + 1 : r[k].updated <= u
  BY <1>1, <1>3, <1>4, <1>5
<1>9. \A j, k \in 1 .. l + 1 : j <= k => r[j].updated <= r[k].updated
  <2>1. \A j, k \in 1 .. l : j <= k => s[j].updated <= s[k].updated
    BY DEF Lists, l
  <2> SUFFICES ASSUME NEW j \in 1 .. l + 1, NEW k \in 1 .. l + 1, j <= k
               PROVE  r[j].updated <= r[k].updated
    OBVIOUS
  <2>2. CASE k = l + 1
    BY <1>1, <1>3, <1>8, <2>2
  <2>3. CASE k \in 1 .. l
    <3>1. j \in 1 .. l
      BY <1>2, <2>3
    <3> QED BY <1>3, <2>1, <2>3, <3>1
  <2> QED BY <1>5, <2>2, <2>3
<1> QED BY <1>3, <1>6, <1>7, <1>8, <1>9 DEF Lists, r, n

\* unregisterIdle: a node less.
LEMMA ListsWithout ==
    ASSUME NEW s, NEW D, NEW t \in Nat, Lists(s, D, t), NEW c \in Conns, c \in D
    PROVE  /\ Lists(Without(s, c), D \ {c}, t)
           /\ \A k \in 1 .. Len(Without(s, c)) : \E j \in 1 .. Len(s) : Without(s, c)[k] = s[j]
<1> DEFINE p == Iter(s, c)
           r == Without(s, c)
           l == Len(s)
<1>1. s \in Seq(Node) /\ l \in Nat /\ DOMAIN s = 1 .. l
  BY LenProperties DEF Lists
<1>2. p \in 1 .. l /\ s[p].con = c
  <2>1. \E k \in DOMAIN s : s[k].con = c
    BY <1>1 DEF Lists
  <2> QED BY <1>1, <2>1 DEF Iter
<1>3. /\ r \in Seq(Node) /\ Len(r) = l - 1
      /\ \A k \in 1 .. l - 1 : r[k] = IF k < p THEN s[k] ELSE s[k + 1]
  BY <1>1, <1>2, Removed DEF Without
<1> HIDE DEF p, r, l
<1> DEFINE Slot(k) == IF k < p THEN k ELSE k + 1
<1>4. \A k \in 1 .. l - 1 : Slot(k) \in 1 .. l /\ Slot(k) # p /\ r[k] = s[Slot(k)]
  BY <1>1, <1>2, <1>3
<1>5. \A j, k \in 1 .. l - 1 : (Slot(j) = Slot(k) => j = k) /\ (j <= k => Slot(j) <= Slot(k))
  BY <1>1, <1>2
<1>6. ASSUME NEW j \in 1 .. l, j # p PROVE \E k \in 1 .. l - 1 : Slot(k) = j
  <2>1. CASE j < p
    <3>1. j \in 1 .. l - 1 /\ Slot(j) = j
      BY <1>1, <1>2, <2>1
    <3> QED BY <3>1
  <2>2. CASE ~(j < p)
    <3>1. j - 1 \in 1 .. l - 1 /\ ~(j - 1 < p) /\ (j - 1) + 1 = j
      BY <1>1, <1>2, <1>6, <2>2
    <3> QED BY <3>1
  <2> QED BY <2>1, <2>2
<1> HIDE DEF Slot
<1>7. /\ \A x \in Conns : x \in D <=> \E k \in 1 .. l : s[k].con = x
      /\ \A j, k \in 1 .. l : s[j].con = s[k].con => j = k
      /\ \A j, k \in 1 .. l : j <= k => s[j].updated <= s[k].updated
      /\ \A k \in 1 .. l : s[k].updated <= t
  BY DEF Lists, l
<1>8. \A x \in Conns : x \in D \ {c} <=> \E k \in 1 .. l - 1 : r[k].con = x
  <2> SUFFICES ASSUME NEW x \in Conns
               PROVE  x \in D \ {c} <=> \E k \in 1 .. l - 1 : r[k].con = x
    OBVIOUS
  <2>1. ASSUME x \in D \ {c} PROVE \E k \in 1 .. l - 1 : r[k].con = x
    <3>1. PICK j \in 1 .. l : s[j].con = x
      BY <1>7, <2>1
    <3>2. j # p
      BY <1>2, <2>1, <3>1
    <3>3. PICK k \in 1 .. l - 1 : Slot(k) = j
      BY <1>6, <3>2
    <3> QED BY <1>4, <3>1, <3>3
  <2>2. ASSUME NEW k \in 1 .. l - 1, r[k].con = x PROVE x \in D \ {c}
    <3>1. Slot(k) \in 1 .. l /\ Slot(k) # p /\ s[Slot(k)].con = x
      BY <1>4, <2>2
    <3> QED BY <1>2, <1>7, <3>1
  <2> QED BY <2>1, <2>2
<1>9. \A j, k \in 1 .. l - 1 : r[j].con = r[k].con => j = k
  BY <1>4, <1>5, <1>7
<1>10. \A j, k \in 1 .. l - 1 : j <= k => r[j].updated <= r[k].updated
  BY <1>4, <1>5, <1>7
<1>11. \A k \in 1 .. l - 1 : r[k].updated <= t
  BY <1>4, <1>7
<1>12. \A k \in 1 .. l - 1 : \E j \in 1 .. l : r[k] = s[j]
  BY <1>4
<1> QED BY <1>3, <1>8, <1>9, <1>10, <1>11, <1>12 DEF Lists, r, l

-----------------------------------------------------------------------------

\* The connections that have a node in the list of i.
Registered(i) == {c \in Conns : conState[c] = "open" /\ i \in ids[c]}

\* The node n of the list of i need not be called in this round any more.
Done(n, i) == n.updated + i > roundNow \/ <<n.con, i>> \in called

\* What a round of callIdles has achieved: the lists it has gone through, and in the
\* list in hand every node is dealt with or still in the copy, where those that wait
\* come last.
RoundInv ==
    /\ idlePc # "none" =>
           /\ roundNow <= Sec(clock) /\ ~loopEnded
           /\ \A i \in Idles \ (todo \cup {idle}) : \A k \in 1 .. Len(lists[i]) :
                  Done(lists[i][k], i)
    /\ idlePc \in {"none", "list"} => idle = 0
    /\ idlePc \in {"node", "callback"} =>
           /\ idle \in Idles
           /\ \A j, k \in 1 .. Len(copy) : j <= k /\ Waits(copy[j]) => Waits(copy[k])
           /\ \A k \in 1 .. Len(lists[idle]) :
                  \/ Done(lists[idle][k], idle)
                  \/ \E j \in 1 .. Len(copy) : copy[j] = lists[idle][k]

ListsInv == /\ ~loopEnded => \A i \in Idles : Lists(lists[i], Registered(i), Sec(clock))
            /\ \A c \in Conns : ids[c] # {} => conState[c] # "new"

IdleInv == IdleTypeOK /\ ListsInv /\ RoundInv

\* A round is not disturbed when nodes leave the lists, and when nodes of a time that is
\* not before the round's come in.
LEMMA RoundKept ==
    ASSUME IdleInv, UNCHANGED <<clock, idlePc, roundVars, loopEnded>>, lists' \in [Idles -> Seq(Node)],
           \A i \in Idles : \A k \in 1 .. Len(lists'[i]) :
               \/ \E j \in 1 .. Len(lists[i]) : lists'[i][k] = lists[i][j]
               \/ lists'[i][k].updated = Sec(clock)
    PROVE  RoundInv'
<1>1. /\ clock' = clock /\ idlePc' = idlePc /\ todo' = todo /\ idle' = idle /\ copy' = copy
      /\ roundNow' = roundNow /\ called' = called /\ loopEnded' = loopEnded
  BY DEF roundVars
<1>2. clock \in Nat /\ roundNow \in Nat /\ Idles \subseteq Nat \ {0} /\ Sec(clock) \in Nat
  BY IdleAssumption, SecType DEF IdleInv, IdleTypeOK
<1>3. \A n, i : Done(n, i)' <=> n.updated + i > roundNow \/ <<n.con, i>> \in called
  BY <1>1 DEF Done
<1>4. \A n : Waits(n)' <=> Waits(n)
  BY <1>1 DEF Waits
<1>5. ASSUME idlePc # "none", NEW n, NEW i \in Idles, n.updated = Sec(clock)
      PROVE  n.updated + i > roundNow
  <2>1. roundNow <= Sec(clock) /\ i \in Nat /\ i > 0
    BY <1>2, <1>5 DEF IdleInv, RoundInv
  <2> QED BY <1>2, <1>5, <2>1
<1>6. idlePc # "none" => roundNow <= Sec(clock)'
  BY <1>1 DEF IdleInv, RoundInv, Sec
<1>7. ASSUME idlePc # "none", NEW i \in Idles \ (todo \cup {idle}), NEW k \in 1 .. Len(lists'[i])
      PROVE  lists'[i][k].updated + i > roundNow \/ <<lists'[i][k].con, i>> \in called
  <2>1. CASE \E j \in 1 .. Len(lists[i]) : lists'[i][k] = lists[i][j]
    BY <1>7, <2>1 DEF IdleInv, RoundInv, Done
  <2>2. CASE lists'[i][k].updated = Sec(clock)
    BY <1>5, <1>7, <2>2
  <2> QED BY <2>1, <2>2
<1>8. ASSUME idlePc \in {"node", "callback"}, NEW k \in 1 .. Len(lists'[idle])
      PROVE  \/ lists'[idle][k].updated + idle > roundNow
             \/ <<lists'[idle][k].con, idle>> \in called
             \/ \E j \in 1 .. Len(copy) : copy[j] = lists'[idle][k]
  <2>1. idle \in Idles /\ idlePc # "none"
    BY <1>8 DEF IdleInv, RoundInv
  <2>2. CASE \E j \in 1 .. Len(lists[idle]) : lists'[idle][k] = lists[idle][j]
    BY <1>8, <2>2 DEF IdleInv, RoundInv, Done
  <2>3. CASE lists'[idle][k].updated = Sec(clock)
    BY <1>5, <2>1, <2>3
  <2> QED BY <2>1, <2>2, <2>3
<1> QED BY <1>1, <1>3, <1>4, <1>6, <1>7, <1>8 DEF RoundInv, IdleInv, Done

\* registerIdle keeps the invariant.
LEMMA RegisterKeeps ==
    ASSUME IdleInv, NEW c \in Conns, NEW i \in Idles, RegisterIdle(c, i) PROVE IdleInv'
<1> DEFINE n == [con |-> c, updated |-> Sec(clock)]
<1>1. /\ clock' = clock /\ conState' = conState /\ idlePc' = idlePc /\ loopEnded' = loopEnded
      /\ dangling' = dangling /\ UNCHANGED roundVars /\ ~loopEnded /\ i \notin ids[c]
      /\ conState[c] = "open"
      /\ lists' = [lists EXCEPT ![i] = Append(@, n)]
      /\ ids' = [ids EXCEPT ![c] = @ \cup {i}]
      /\ nextCall' = IF nextCall = 0 THEN clock + TicksPerSec ELSE nextCall
  BY DEF RegisterIdle
<1>2. IdleTypeOK /\ clock \in Nat /\ Sec(clock) \in Nat
  BY SecType DEF IdleInv, IdleTypeOK
<1>3. Registered(i)' = Registered(i) \cup {c} /\ c \notin Registered(i)
      /\ \A j \in Idles \ {i} : Registered(j)' = Registered(j)
  BY <1>1, <1>2 DEF Registered, IdleTypeOK
<1>4. \A j \in Idles : Lists(lists[j], Registered(j), Sec(clock))
  BY <1>1 DEF IdleInv, ListsInv
<1>5. Lists(Append(lists[i], n), Registered(i) \cup {c}, Sec(clock))
  BY <1>2, <1>3, <1>4, ListsAppend
<1>6. n \in Node /\ n.updated = Sec(clock) /\ \A j \in Idles : lists[j] \in Seq(Node)
  BY <1>2 DEF Node, IdleTypeOK
<1> HIDE DEF n
<1>7. /\ lists'[i] = Append(lists[i], n) /\ \A j \in Idles \ {i} : lists'[j] = lists[j]
      /\ lists' \in [Idles -> Seq(Node)]
  <2>1. Append(lists[i], n) \in Seq(Node)
    BY <1>6, AppendProperties
  <2> QED BY <1>1, <1>2, <2>1 DEF IdleTypeOK
<1>8. ASSUME NEW j \in Idles PROVE Lists(lists'[j], Registered(j)', Sec(clock)')
  <2>1. Sec(clock)' = Sec(clock)
    BY <1>1 DEF Sec
  <2> QED BY <1>3, <1>4, <1>5, <1>7, <2>1
<1>9. ListsInv'
  <2>1. \A x \in Conns : ids'[x] # {} => conState'[x] # "new"
    BY <1>1, <1>2 DEF IdleInv, ListsInv, IdleTypeOK
  <2> QED BY <1>8, <2>1 DEF ListsInv
<1>10. IdleTypeOK'
  <2>1. nextCall' \in Nat
    BY <1>1, <1>2, IdleAssumption DEF IdleTypeOK
  <2>2. ids' \in [Conns -> SUBSET Idles]
    BY <1>1, <1>2 DEF IdleTypeOK
  <2> QED BY <1>1, <1>2, <1>7, <2>1, <2>2 DEF IdleTypeOK, roundVars
<1>11. ASSUME NEW j \in Idles, NEW k \in 1 .. Len(lists'[j])
       PROVE  \/ \E m \in 1 .. Len(lists[j]) : lists'[j][k] = lists[j][m]
              \/ lists'[j][k].updated = Sec(clock)
  <2>1. CASE j # i
    BY <1>7, <2>1
  <2>2. CASE j = i
    <3> DEFINE s == lists[i]
    <3>1. /\ Len(lists'[i]) = Len(s) + 1 /\ Len(s) \in Nat
          /\ \A m \in 1 .. Len(s) : lists'[i][m] = s[m]
          /\ lists'[i][Len(s) + 1] = n
      BY <1>6, <1>7, AppendProperties, LenProperties
    <3> HIDE DEF s
    <3>2. k \in 1 .. Len(s) \/ k = Len(s) + 1
      BY <2>2, <3>1
    <3> QED BY <1>6, <2>2, <3>1, <3>2 DEF s
  <2> QED BY <2>1, <2>2
<1>12. RoundInv'
  BY <1>1, <1>7, <1>11, RoundKept
<1> QED BY <1>9, <1>10, <1>12 DEF IdleInv

\* cleanup keeps it.
LEMMA CleanupKeeps ==
    ASSUME IdleInv, NEW c \in Conns, IdleCleanup(c) PROVE IdleInv'
<1>1. /\ clock' = clock /\ nextCall' = nextCall /\ idlePc' = idlePc /\ loopEnded' = loopEnded
      /\ UNCHANGED roundVars
      /\ conState' = [conState EXCEPT ![c] = "closed"] /\ ids' = ids /\ conState[c] = "open"
      /\ lists' = [i \in Idles |-> IF i \in ids[c] /\ ~loopEnded THEN Without(lists[i], c)
                                  ELSE lists[i]]
      /\ dangling' \in BOOLEAN
  BY DEF IdleCleanup
<1>2. IdleTypeOK /\ clock \in Nat /\ Sec(clock) \in Nat /\ Sec(clock)' = Sec(clock)
  BY <1>1, SecType DEF IdleInv, IdleTypeOK, Sec
<1>3. \A x \in Conns : ids'[x] # {} => conState'[x] # "new"
  BY <1>1, <1>2 DEF IdleInv, ListsInv, IdleTypeOK
<1>4. conState' \in [Conns -> {"new", "open", "closed"}] /\ ids' \in [Conns -> SUBSET Idles]
  BY <1>1, <1>2 DEF IdleTypeOK
<1>5. CASE loopEnded
  <2>1. lists' = lists
    BY <1>1, <1>2, <1>5 DEF IdleTypeOK
  <2>2. IdleTypeOK'
    BY <1>1, <1>2, <1>4, <2>1 DEF IdleTypeOK, roundVars
  <2>3. ListsInv'
    BY <1>1, <1>3, <1>5 DEF ListsInv
  <2>4. RoundInv'
    BY <1>1, <1>2, <2>1, RoundKept DEF IdleTypeOK
  <2> QED BY <2>2, <2>3, <2>4 DEF IdleInv
<1>6. CASE ~loopEnded
  <2>1. lists' = [i \in Idles |-> IF i \in ids[c] THEN Without(lists[i], c) ELSE lists[i]]
    BY <1>1, <1>6
  <2>2. ASSUME NEW i \in Idles
        PROVE  /\ Lists(lists'[i], Registered(i)', Sec(clock))
               /\ \A k \in 1 .. Len(lists'[i]) : \E j \in 1 .. Len(lists[i]) : lists'[i][k] = lists[i][j]
    <3>1. Lists(lists[i], Registered(i), Sec(clock))
      BY <1>6 DEF IdleInv, ListsInv
    <3>2. Registered(i)' = Registered(i) \ {c}
      BY <1>1, <1>2 DEF Registered, IdleTypeOK
    <3>3. CASE i \in ids[c]
      <4>1. c \in Registered(i) /\ lists'[i] = Without(lists[i], c)
        BY <1>1, <2>1, <3>3 DEF Registered
      <4> QED BY <1>2, <3>1, <3>2, <4>1, ListsWithout
    <3>4. CASE i \notin ids[c]
      <4>1. Registered(i)' = Registered(i) /\ lists'[i] = lists[i]
        BY <2>1, <3>2, <3>4 DEF Registered
      <4> QED BY <3>1, <4>1
    <3> QED BY <3>3, <3>4
  <2>3. lists' \in [Idles -> Seq(Node)]
    BY <2>1, <2>2 DEF Lists
  <2>4. IdleTypeOK'
    BY <1>1, <1>2, <1>4, <2>1, <2>3 DEF IdleTypeOK, roundVars
  <2>5. ListsInv'
    BY <1>2, <1>3, <2>2 DEF ListsInv
  <2>6. RoundInv'
    BY <1>1, <2>2, <2>3, RoundKept
  <2> QED BY <2>4, <2>5, <2>6 DEF IdleInv
<1> QED BY <1>5, <1>6

\* updateIdle keeps it.
LEMMA UpdateKeeps ==
    ASSUME IdleInv, NEW c \in Conns, UpdateIdle(c) PROVE IdleInv'
<1>1. /\ UNCHANGED <<clock, conState, ids, nextCall, idlePc, loopEnded>>
      /\ UNCHANGED roundVars /\ idlePc = "none" /\ conState[c] = "open"
      /\ lists' = [i \in Idles |-> IF i \in ids[c] /\ ~loopEnded THEN Refreshed(lists[i], c)
                                  ELSE lists[i]]
      /\ dangling' \in BOOLEAN
  BY DEF UpdateIdle
<1>2. IdleTypeOK /\ clock \in Nat /\ Sec(clock) \in Nat /\ Sec(clock)' = Sec(clock)
  BY <1>1, SecType DEF IdleInv, IdleTypeOK, Sec
<1>3. ASSUME ~loopEnded, NEW i \in Idles PROVE Lists(lists'[i], Registered(i)', Sec(clock))
  <2>1. Lists(lists[i], Registered(i), Sec(clock))
    BY <1>3 DEF IdleInv, ListsInv
  <2>2. Registered(i)' = Registered(i)
    BY <1>1 DEF Registered
  <2>3. CASE i \in ids[c]
    <3>1. c \in Registered(i)
          /\ lists'[i] = Append(Without(lists[i], c), [con |-> c, updated |-> Sec(clock)])
      BY <1>1, <1>3, <2>3 DEF Registered, Refreshed
    <3>2. Lists(Without(lists[i], c), Registered(i) \ {c}, Sec(clock))
      BY <1>2, <2>1, <3>1, ListsWithout
    <3> DEFINE s == Without(lists[i], c)
               D == Registered(i) \ {c}
    <3>3. D \cup {c} = Registered(i) /\ c \notin D
      BY <3>1
    <3> HIDE DEF s, D
    <3>4. Lists(s, D, Sec(clock))
      BY <3>2 DEF s, D
    <3>5. Lists(Append(s, [con |-> c, updated |-> Sec(clock)]), D \cup {c}, Sec(clock))
      BY <1>2, <3>3, <3>4, ListsAppend
    <3> QED BY <2>2, <3>1, <3>3, <3>5 DEF s
  <2>4. CASE i \notin ids[c]
    BY <1>1, <2>1, <2>2, <2>4
  <2> QED BY <2>3, <2>4
<1>4. lists' \in [Idles -> Seq(Node)]
  <2>1. CASE loopEnded
    BY <1>1, <1>2, <2>1 DEF IdleTypeOK
  <2>2. CASE ~loopEnded
    BY <1>1, <1>3, <2>2 DEF Lists
  <2> QED BY <2>1, <2>2
<1>5. IdleTypeOK'
  BY <1>1, <1>2, <1>4 DEF IdleTypeOK, roundVars
<1>6. ListsInv'
  BY <1>1, <1>2, <1>3 DEF ListsInv, IdleInv
<1>7. RoundInv'
  BY <1>1 DEF RoundInv, IdleInv, roundVars
<1> QED BY <1>5, <1>6, <1>7 DEF IdleInv

\* callIdles takes the next list.
LEMMA NextListKeeps == ASSUME IdleInv, NextList PROVE IdleInv'
<1>1. UNCHANGED <<clock, conState, lists, ids, nextCall, loopEnded, dangling>> /\ idlePc = "list"
  BY DEF NextList
<1>2. IdleTypeOK /\ ListsInv /\ RoundInv /\ ListsInv'
  BY <1>1 DEF IdleInv, ListsInv, Registered, Sec
<1>3. idle = 0 /\ roundNow <= Sec(clock) /\ 0 \notin Idles /\ Sec(clock)' = Sec(clock)
  BY <1>1, <1>2, IdleAssumption DEF RoundInv, Sec
<1>4. CASE todo = {}
  <2>1. /\ idlePc' = "none" /\ roundNow' = 0 /\ called' = {} /\ todo' = todo /\ idle' = idle
        /\ copy' = copy
    BY <1>4 DEF NextList
  <2>2. IdleTypeOK'
    BY <1>1, <1>2, <2>1 DEF IdleTypeOK
  <2>3. RoundInv'
    BY <1>3, <2>1 DEF RoundInv
  <2> QED BY <1>2, <2>2, <2>3 DEF IdleInv
<1>5. CASE todo # {}
  <2>1. PICK i \in todo : /\ todo' = todo \ {i} /\ idle' = i /\ copy' = lists[i]
                          /\ idlePc' = "node" /\ roundNow' = roundNow /\ called' = called
    BY <1>5 DEF NextList
  <2>2. i \in Idles /\ lists[i] \in Seq(Node) /\ roundNow \in Nat /\ i \in Nat
    BY <1>2, IdleAssumption DEF IdleTypeOK
  <2>3. IdleTypeOK'
    BY <1>1, <1>2, <2>1, <2>2 DEF IdleTypeOK
  <2>4. \A j \in Idles \ (todo' \cup {idle'}) : \A k \in 1 .. Len(lists'[j]) : Done(lists[j][k], j)'
    BY <1>1, <1>2, <1>3, <2>1 DEF RoundInv, Done
  <2>5. ASSUME NEW j \in 1 .. Len(copy'), NEW k \in 1 .. Len(copy'), j <= k,
               copy'[j].updated + i > roundNow
        PROVE  copy'[k].updated + i > roundNow
    <3>1. Lists(lists[i], Registered(i), Sec(clock))
      BY <1>1, <1>2, <2>2 DEF ListsInv, RoundInv
    <3>2. copy'[j].updated <= copy'[k].updated
      BY <2>1, <2>5, <3>1 DEF Lists
    <3>3. copy'[j] \in Node /\ copy'[k] \in Node
      BY <2>1, <2>2
    <3>4. copy'[j].updated \in Nat /\ copy'[k].updated \in Nat
      BY <3>3 DEF Node
    <3> QED BY <2>2, <2>5, <3>2, <3>4
  <2>6. \A j, k \in 1 .. Len(copy') : j <= k /\ Waits(copy[j])' => Waits(copy[k])'
    BY <2>1, <2>5 DEF Waits
  <2>7. \A k \in 1 .. Len(lists'[idle']) : \E j \in 1 .. Len(copy') : copy'[j] = lists'[idle'][k]
    BY <1>1, <2>1
  <2>8. RoundInv'
    <3>1. ~loopEnded' /\ roundNow' <= Sec(clock)'
      BY <1>1, <1>2, <1>3, <2>1 DEF RoundInv
    <3> QED BY <2>1, <2>2, <2>4, <2>6, <2>7, <3>1 DEF RoundInv
  <2> QED BY <1>2, <2>3, <2>8 DEF IdleInv
<1> QED BY <1>4, <1>5

\* callIdles looks at the next node of the copy.
LEMMA NextNodeKeeps == ASSUME IdleInv, NextNode PROVE IdleInv'
<1>1. /\ UNCHANGED <<clock, conState, lists, ids, nextCall, todo, roundNow, loopEnded, dangling>>
      /\ idlePc = "node"
  BY DEF NextNode
<1>2. IdleTypeOK /\ ListsInv /\ RoundInv /\ ListsInv'
  BY <1>1 DEF IdleInv, ListsInv, Registered, Sec
<1>3. /\ idle \in Idles /\ roundNow <= Sec(clock) /\ ~loopEnded /\ 0 \notin Idles
      /\ Sec(clock)' = Sec(clock) /\ copy \in Seq(Node) /\ Len(copy) \in Nat
      /\ roundNow \in Nat /\ idle \in Nat /\ idle > 0
  BY <1>1, <1>2, IdleAssumption, LenProperties DEF RoundInv, Sec, IdleTypeOK
<1>4. CASE copy = <<>> \/ Waits(Head(copy))
  <2>1. idlePc' = "list" /\ copy' = <<>> /\ idle' = 0 /\ called' = called
    BY <1>4 DEF NextNode
  <2>2. IdleTypeOK'
    BY <1>1, <1>2, <2>1 DEF IdleTypeOK
  <2>3. \A j \in 1 .. Len(copy) : Waits(copy[j])
    <3>1. CASE copy = <<>>
      BY <3>1
    <3>2. CASE copy # <<>> /\ Waits(Head(copy))
      <4>1. Head(copy) = copy[1] /\ 1 \in 1 .. Len(copy)
        BY <1>3, <3>2
      <4> QED BY <1>1, <1>2, <3>2, <4>1 DEF RoundInv
    <3> QED BY <1>4, <3>1, <3>2
  <2>4. \A k \in 1 .. Len(lists[idle]) : Done(lists[idle][k], idle)
    BY <1>1, <1>2, <2>3 DEF RoundInv, Done, Waits
  <2>5. \A n, i : Done(n, i)' <=> Done(n, i)
    BY <1>1, <2>1 DEF Done
  <2>6. \A i \in Idles \ (todo' \cup {idle'}) : \A k \in 1 .. Len(lists'[i]) : Done(lists[i][k], i)'
    <3> SUFFICES ASSUME NEW i \in Idles \ todo, NEW k \in 1 .. Len(lists[i])
                 PROVE  Done(lists[i][k], i)
      BY <1>1, <2>1, <2>5
    <3>1. CASE i = idle
      BY <2>4, <3>1
    <3>2. CASE i # idle
      BY <1>1, <1>2, <3>2 DEF RoundInv
    <3> QED BY <3>1, <3>2
  <2>7. RoundInv'
    BY <1>1, <1>3, <2>1, <2>6 DEF RoundInv
  <2> QED BY <1>2, <2>2, <2>7 DEF IdleInv
<1>5. CASE ~(copy = <<>> \/ Waits(Head(copy)))
  <2> DEFINE n == Head(copy)
             t == Tail(copy)
             s == [con |-> n.con, updated |-> roundNow]
             l == Len(copy)
  <2>1. /\ copy' = Append(t, s) /\ called' = called \cup {<<n.con, idle>>}
        /\ idlePc' = "callback" /\ idle' = idle
    BY <1>5 DEF NextNode, Stamped
  <2>2. /\ n \in Node /\ t \in Seq(Node) /\ Len(t) = l - 1 /\ n = copy[1] /\ l >= 1
        /\ \A j \in 1 .. l - 1 : t[j] = copy[j + 1]
    BY <1>3, <1>5, HeadTailProperties
  <2>3. s \in Node /\ n.con \in Conns /\ s.updated = roundNow
    BY <1>3, <2>2 DEF Node
  <2> HIDE DEF n, t, s, l
  <2>4. /\ copy' \in Seq(Node) /\ Len(copy') = l /\ copy'[l] = s
        /\ \A j \in 1 .. l - 1 : copy'[j] = copy[j + 1]
    <3>1. /\ copy' \in Seq(Node) /\ Len(copy') = Len(t) + 1 /\ copy'[Len(t) + 1] = s
          /\ \A j \in 1 .. Len(t) : copy'[j] = t[j]
      BY <2>1, <2>2, <2>3, AppendProperties
    <3>2. Len(t) + 1 = l /\ Len(t) = l - 1
      BY <1>3, <2>2 DEF l
    <3> QED BY <2>2, <3>1, <3>2
  <2>5. l \in Nat /\ l >= 1
    BY <1>3, <2>2 DEF l
  <2>6. IdleTypeOK'
    <3>1. called' \subseteq Conns \X Idles
      BY <1>2, <1>3, <2>1, <2>3 DEF IdleTypeOK
    <3> QED BY <1>1, <1>2, <1>3, <2>1, <2>4, <3>1 DEF IdleTypeOK
  <2>7. \A x, i : Done(x, i) => Done(x, i)'
    BY <1>1, <2>1 DEF Done
  <2>8. \A x : Waits(x)' <=> Waits(x)
    BY <1>1, <2>1 DEF Waits
  <2>9. ASSUME NEW j \in 1 .. l, NEW k \in 1 .. l, j <= k, Waits(copy'[j]) PROVE Waits(copy'[k])
    <3>1. CASE k = l
      BY <1>3, <2>3, <2>4, <3>1 DEF Waits
    <3>2. CASE k # l
      <4>1. j \in 1 .. l - 1 /\ k \in 1 .. l - 1 /\ j + 1 \in 1 .. l /\ k + 1 \in 1 .. l
            /\ j + 1 <= k + 1
        BY <2>5, <2>9, <3>2
      <4>2. copy'[j] = copy[j + 1] /\ copy'[k] = copy[k + 1]
        BY <2>4, <4>1
      <4> QED BY <1>1, <1>2, <2>9, <4>1, <4>2 DEF RoundInv, l
    <3> QED BY <3>1, <3>2
  <2>10. ASSUME NEW k \in 1 .. Len(lists[idle])
         PROVE  \/ Done(lists[idle][k], idle)'
                \/ \E j \in 1 .. l : copy'[j] = lists[idle][k]
    <3>1. CASE Done(lists[idle][k], idle)
      BY <1>1, <2>1, <2>7, <3>1
    <3>2. ASSUME NEW j \in 1 .. l, copy[j] = lists[idle][k]
          PROVE  \/ Done(lists[idle][k], idle)'
                 \/ \E i \in 1 .. l : copy'[i] = lists[idle][k]
      <4>1. CASE j = 1
        <5>1. lists[idle][k] = n
          BY <2>2, <3>2, <4>1
        <5>2. <<lists[idle][k].con, idle>> \in called'
          BY <2>1, <5>1
        <5> QED BY <1>1, <2>1, <5>2 DEF Done
      <4>2. CASE j # 1
        <5>1. j - 1 \in 1 .. l - 1 /\ j - 1 \in 1 .. l /\ (j - 1) + 1 = j
          BY <2>5, <4>2
        <5>2. copy'[j - 1] = copy[j]
          BY <2>4, <5>1
        <5> QED BY <3>2, <5>1, <5>2
      <4> QED BY <4>1, <4>2
    <3> QED BY <1>1, <1>2, <3>1, <3>2 DEF RoundInv, l
  <2>11. RoundInv'
    <3>1. \A i \in Idles \ (todo' \cup {idle'}) : \A k \in 1 .. Len(lists'[i]) : Done(lists[i][k], i)'
      BY <1>1, <1>2, <2>1, <2>7 DEF RoundInv, Done
    <3>2. \A j, k \in 1 .. Len(copy') : j <= k /\ Waits(copy[j])' => Waits(copy[k])'
      BY <1>1, <2>1, <2>4, <2>9 DEF Waits
    <3>3. \A k \in 1 .. Len(lists'[idle']) : \/ Done(lists[idle][k], idle)'
                                             \/ \E j \in 1 .. Len(copy') : copy'[j] = lists'[idle'][k]
      BY <1>1, <2>1, <2>4, <2>10
    <3> QED BY <1>1, <1>3, <2>1, <3>1, <3>2, <3>3 DEF RoundInv
  <2> QED BY <1>2, <2>6, <2>11 DEF IdleInv
<1> QED BY <1>4, <1>5

\* Every step keeps the invariant.
LEMMA IdleStep == IdleInv /\ [IdleNext]_idleVars => IdleInv'
<1> SUFFICES ASSUME IdleInv, [IdleNext]_idleVars PROVE IdleInv'
  OBVIOUS
<1>1. ASSUME UNCHANGED <<clock, lists, ids, nextCall, idlePc, roundVars, loopEnded, dangling>>,
             NEW c \in Conns, conState[c] = "new", conState' = [conState EXCEPT ![c] = "open"]
      PROVE  IdleInv'
  <2>1. IdleTypeOK'
    BY <1>1 DEF IdleInv, IdleTypeOK, roundVars
  <2>2. ids[c] = {} /\ \A i \in Idles : Registered(i)' = Registered(i)
    BY <1>1 DEF IdleInv, IdleTypeOK, ListsInv, Registered
  <2>4. ListsInv'
    BY <1>1, <2>2 DEF IdleInv, IdleTypeOK, ListsInv, Sec
  <2>3. RoundInv'
    BY <1>1 DEF IdleInv, RoundInv, roundVars, Done, Waits, Sec
  <2> QED BY <2>1, <2>3, <2>4 DEF IdleInv
<1>2. ASSUME NEW c \in Conns, IdleConnect(c) PROVE IdleInv'
  BY <1>1, <1>2 DEF IdleConnect
<1>3. CASE CallIdles
  <2>1. /\ UNCHANGED <<clock, conState, lists, ids, idle, copy, loopEnded, dangling>>
        /\ roundNow' = Sec(clock) /\ called' = {} /\ todo' = Idles /\ idlePc' = "list"
        /\ nextCall' = nextCall + TicksPerSec /\ ~loopEnded /\ idlePc = "none"
    BY <1>3 DEF CallIdles
  <2>2. Sec(clock) \in Nat /\ Sec(clock)' = Sec(clock)
    BY <2>1, SecType DEF IdleInv, IdleTypeOK, Sec
  <2>3. IdleTypeOK'
    BY <2>1, <2>2, IdleAssumption DEF IdleInv, IdleTypeOK
  <2>4. ListsInv'
    BY <2>1 DEF IdleInv, ListsInv, Registered, Sec
  <2>5. RoundInv'
    BY <2>1, <2>2 DEF IdleInv, RoundInv
  <2> QED BY <2>3, <2>4, <2>5 DEF IdleInv
<1>4. CASE CallbackReturns
  <2>1. /\ UNCHANGED <<clock, conState, lists, ids, nextCall, roundVars, loopEnded, dangling>>
        /\ idlePc = "callback" /\ idlePc' = "node"
    BY <1>4 DEF CallbackReturns, roundVars
  <2>2. IdleTypeOK'
    BY <2>1 DEF IdleInv, IdleTypeOK, roundVars
  <2>3. ListsInv'
    BY <2>1 DEF IdleInv, ListsInv, Registered, Sec
  <2>4. RoundInv'
    BY <2>1 DEF IdleInv, RoundInv, roundVars, Done, Waits, Sec
  <2> QED BY <2>2, <2>3, <2>4 DEF IdleInv
<1>5. CASE IdleTick
  <2>1. /\ clock' = clock + 1
        /\ UNCHANGED <<conState, lists, ids, nextCall, idlePc, roundVars, loopEnded, dangling>>
    BY <1>5 DEF IdleTick
  <2>2. /\ clock \in Nat /\ clock' \in Nat /\ Sec(clock) \in Nat /\ Sec(clock') \in Nat
        /\ Sec(clock) <= Sec(clock')
    <3>1. clock \in Nat /\ clock + 1 \in Nat /\ TicksPerSec \in Nat \ {0}
      BY IdleAssumption DEF IdleInv, IdleTypeOK
    <3>2. /\ clock \div TicksPerSec \in Nat /\ (clock + 1) \div TicksPerSec \in Nat
          /\ clock \div TicksPerSec <= (clock + 1) \div TicksPerSec
      BY <3>1, SecGrows
    <3> QED BY <2>1, <3>1, <3>2 DEF Sec
  <2>3. IdleTypeOK'
    BY <2>1, <2>2 DEF IdleInv, IdleTypeOK, roundVars
  <2>4. ASSUME NEW s, NEW D, Lists(s, D, Sec(clock)) PROVE Lists(s, D, Sec(clock'))
    <3>1. \A k \in 1 .. Len(s) : s[k].updated \in Nat
      <4>1. s \in Seq(Node)
        BY <2>4 DEF Lists
      <4>2. \A k \in 1 .. Len(s) : s[k] \in Node
        BY <4>1
      <4> QED BY <4>2 DEF Node
    <3>2. ASSUME NEW k \in 1 .. Len(s) PROVE s[k].updated <= Sec(clock')
      <4>1. s[k].updated \in Nat /\ s[k].updated <= Sec(clock)
        BY <2>4, <3>1, Zenon DEF Lists
      <4> QED BY <2>2, <4>1
    <3> QED BY <2>4, <3>2, Zenon DEF Lists
  <2>5. ListsInv'
    BY <2>1, <2>4 DEF IdleInv, ListsInv, Registered, Sec
  <2>6. roundNow \in Nat /\ (idlePc # "none" => roundNow <= Sec(clock'))
    BY <2>2 DEF IdleInv, IdleTypeOK, RoundInv
  <2>7. RoundInv'
    <3>1. Sec(clock)' = Sec(clock')
      BY DEF Sec
    <3> QED BY <2>1, <2>6, <3>1 DEF IdleInv, RoundInv, roundVars, Done, Waits
  <2> QED BY <2>3, <2>5, <2>7 DEF IdleInv
<1>6. CASE IdleExit
  <2>1. /\ UNCHANGED <<clock, conState, ids, idlePc, roundVars, dangling>>
        /\ loopEnded' = TRUE /\ nextCall' = 0 /\ lists' = [i \in Idles |-> <<>>]
        /\ idlePc = "none"
    BY <1>6 DEF IdleExit
  <2>2. lists' \in [Idles -> Seq(Node)]
    BY <2>1
  <2>3. IdleTypeOK'
    BY <2>1, <2>2 DEF IdleInv, IdleTypeOK, roundVars
  <2>4. ListsInv'
    BY <2>1 DEF IdleInv, ListsInv
  <2>5. RoundInv'
    BY <2>1 DEF IdleInv, RoundInv, roundVars
  <2> QED BY <2>3, <2>4, <2>5 DEF IdleInv
<1>7. CASE UNCHANGED idleVars
  <2>1. IdleTypeOK'
    BY <1>7 DEF IdleInv, IdleTypeOK, idleVars
  <2>2. ListsInv'
    BY <1>7 DEF IdleInv, ListsInv, Registered, Sec, idleVars
  <2>3. RoundInv'
    BY <1>7 DEF IdleInv, RoundInv, idleVars, Done, Waits, Sec
  <2> QED BY <2>1, <2>2, <2>3 DEF IdleInv
<1> QED BY <1>2, <1>3, <1>4, <1>5, <1>6, <1>7, RegisterKeeps, CleanupKeeps, UpdateKeeps,
           NextListKeeps, NextNodeKeeps DEF IdleNext

\* It holds at first.
LEMMA IdleStart == IdleInit => IdleInv
<1> SUFFICES ASSUME IdleInit PROVE IdleInv
  OBVIOUS
<1>1. Sec(0) \in Nat /\ 0 \in Nat
  BY SecGrows, IdleAssumption DEF Sec
<1>2. IdleTypeOK
  <2>1. lists \in [Idles -> Seq(Node)] /\ copy \in Seq(Node)
    BY DEF IdleInit
  <2>2. loopEnded \in BOOLEAN /\ dangling \in BOOLEAN
    BY DEF IdleInit
  <2>3. clock \in Nat /\ nextCall \in Nat /\ roundNow \in Nat /\ idle \in Idles \cup {0}
    BY DEF IdleInit
  <2>4. /\ conState \in [Conns -> {"new", "open", "closed"}] /\ ids \in [Conns -> SUBSET Idles]
        /\ idlePc \in {"none"} /\ todo \subseteq Idles /\ called \subseteq Conns \X Idles
    BY DEF IdleInit
  <2> QED BY <2>1, <2>2, <2>3, <2>4 DEF IdleTypeOK
<1>3. ASSUME NEW i \in Idles PROVE Lists(lists[i], Registered(i), Sec(clock))
  BY DEF IdleInit, Lists, Registered
<1>4. ListsInv
  BY <1>3 DEF IdleInit, ListsInv
<1>5. RoundInv
  BY DEF IdleInit, RoundInv
<1> QED BY <1>2, <1>4, <1>5 DEF IdleInv

\* The lists hold one node for each idle time of each open connection and none of a
\* closed one, for any number of connections and idle times, unless a node was erased
\* twice.
THEOREM IdleNodesMatchIds == IdleSpec => []NodesMatchIds
<1>1. IdleInv => NodesMatchIds
  <2> SUFFICES ASSUME IdleInv, ~loopEnded, NEW i \in Idles
               PROVE  /\ \A c \in Conns : conState[c] = "open" /\ i \in ids[c]
                                              <=> \E n \in Nodes(lists[i]) : n.con = c
                      /\ \A j, k \in DOMAIN lists[i] : lists[i][j].con = lists[i][k].con => j = k
    BY DEF NodesMatchIds
  <2> DEFINE s == lists[i]
  <2>1. Lists(s, Registered(i), Sec(clock))
    BY DEF IdleInv, ListsInv
  <2>2. s \in Seq(Node) /\ DOMAIN s = 1 .. Len(s)
    BY <2>1, LenProperties DEF Lists
  <2>3. \A c \in Conns : conState[c] = "open" /\ i \in ids[c]
                           <=> \E k \in DOMAIN s : s[k].con = c
    BY <2>1, <2>2 DEF Lists, Registered
  <2>4. \A j, k \in DOMAIN s : s[j].con = s[k].con => j = k
    BY <2>1, <2>2 DEF Lists
  <2> HIDE DEF s
  <2>5. Nodes(s) = {s[k] : k \in DOMAIN s}
    BY DEF Nodes
  <2> QED BY <2>3, <2>4, <2>5 DEF s
<1> QED BY <1>1, IdleStart, IdleStep, PTL DEF IdleSpec

\* callIdles misses no connection that is due, for any idle times and however the
\* callbacks change the lists while it runs.
THEOREM IdleNoneMissed == IdleSpec => []NoneMissed
<1>1. IdleInv => NoneMissed
  <2> SUFFICES ASSUME IdleInv, idlePc # "none", NEW i \in Idles \ (todo \cup {idle}),
                      NEW n \in Nodes(lists[i])
               PROVE  n.updated + i > roundNow \/ <<n.con, i>> \in called
    BY DEF NoneMissed
  <2>1. lists[i] \in Seq(Node) /\ DOMAIN lists[i] = 1 .. Len(lists[i])
    BY LenProperties DEF IdleInv, IdleTypeOK
  <2>2. PICK k \in 1 .. Len(lists[i]) : n = lists[i][k]
    BY <2>1 DEF Nodes
  <2> QED BY <2>2 DEF IdleInv, RoundInv, Done
<1> QED BY <1>1, IdleStart, IdleStep, PTL DEF IdleSpec
=============================================================================
