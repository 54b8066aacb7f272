-------------------------- MODULE SchedulerProofs --------------------------
(***************************************************************************)
(* Proofs about Scheduler for any number of workers, tasks, delays and     *)
(* periods: a task that does not recur at once is in one place at a time,  *)
(* and the destructor waits until every function of the pool has run.  And *)
(* about Xy: the loop never sleeps past a task, a task of runAt runs once, *)
(* and the destructor leaves no thread inside the scheduler.               *)
(***************************************************************************)
EXTENDS Scheduler, Xy, SequenceTheorems, FiniteSetTheorems, WellFoundedInduction, TLAPS

Busy == {"run", "after"}
Managing == {"push", "notify"}

\* Entries, functions and workers name tasks that were created; the lock protects the
\* entry being added and the batch of the round; a worker that is not in a function has
\* none in hand.
Base ==
    /\ kind \in Seq(Kinds) /\ wk \in [Workers -> Places]
    /\ q \in Seq(Nat) /\ \A i \in 1 .. Len(q) : q[i] <= Len(kind)
    /\ cur \in [Workers -> Nat \cup {NoJob}]
    /\ \A w \in Workers : /\ cur[w] \in Nat => cur[w] <= Len(kind)
                          /\ wk[w] \notin Busy => cur[w] = NoJob
                          /\ wk[w] = "after" => cur[w] \in Created
    /\ \A e \in tasks \cup adding \cup recurred : e.id \in Created
    /\ \A e \in recurred : kind[e.id] = "every"
    /\ due \subseteq batch /\ batch \subseteq tasks /\ finished \subseteq Created
    /\ adding # {} => lock \in Workers \cup {Main}
    /\ mgr \in Managing => lock = Manager
    /\ batch # {} => mgr \in Managing

\* The places a task may be in, as Copies counts them.
InTasks(id)  == {e \in tasks \ (batch \ due) : e.id = id}
InAdding(id) == {e \in adding : e.id = id}
InQueue(id)  == {i \in DOMAIN q : q[i] = id}
InWork(id)   == {w \in Workers : cur[w] = id /\ ~(wk[w] = "after" /\ lock = w)}

Alone(S) == \A x, y \in S : x = y

\* Exactly one of the places has the task, and has it once.
OnePlace(T, A, Q, W, f) ==
    /\ Alone(T) /\ Alone(A) /\ Alone(Q) /\ Alone(W)
    /\ \/ T # {} /\ A = {} /\ Q = {} /\ W = {} /\ ~f
       \/ T = {} /\ A # {} /\ Q = {} /\ W = {} /\ ~f
       \/ T = {} /\ A = {} /\ Q # {} /\ W = {} /\ ~f
       \/ T = {} /\ A = {} /\ Q = {} /\ W # {} /\ ~f
       \/ T = {} /\ A = {} /\ Q = {} /\ W = {} /\ f

Placed(id) == OnePlace(InTasks(id), InAdding(id), InQueue(id), InWork(id), id \in finished)

Places1 == \A id \in Created : kind[id] # "every" => Placed(id)

SchedInv == Base /\ Places1

\* The tasks are numbered from 1.
LEMMA CreatedIs == ASSUME kind \in Seq(Kinds)
                   PROVE  Created = 1 .. Len(kind) /\ Len(kind) \in Nat /\ 0 \notin Created
BY DEF Created

\* A task is placed as before when its places are.
LEMMA SamePlaces ==
    ASSUME NEW id, Placed(id), InTasks(id)' = InTasks(id), InAdding(id)' = InAdding(id),
           InQueue(id)' = InQueue(id), InWork(id)' = InWork(id),
           id \in finished' <=> id \in finished
    PROVE  Placed(id)'
<1> DEFINE f == id \in finished
           g == id \in finished'
<1>1. f = g
  OBVIOUS
<1>2. Placed(id)' = OnePlace(InTasks(id)', InAdding(id)', InQueue(id)', InWork(id)', g)
  BY DEF Placed, OnePlace, Alone
<1> QED BY <1>1, <1>2 DEF Placed

\* Steps that wake workers, put them to sleep or end them, and those of the sleep.
LEMMA FrameKeeps ==
    ASSUME SchedInv, UNCHANGED <<q, cur, lock, tasks, adding, batch, due, recurred, kind, finished>>,
           wk' \in [Workers -> Places],
           \A w \in Workers : wk'[w] = wk[w] \/ (wk[w] \notin Busy /\ wk'[w] \notin Busy),
           mgr' = mgr \/ (mgr' \notin Managing /\ mgr \notin Managing)
    PROVE  SchedInv'
<1>1. Base'
  <2>1. \A w \in Workers : /\ cur'[w] \in Nat => cur'[w] <= Len(kind')
                           /\ wk'[w] \notin Busy => cur'[w] = NoJob
                           /\ wk'[w] = "after" => cur'[w] \in Created'
    BY DEF SchedInv, Base, Busy, Created
  <2> QED BY <2>1 DEF SchedInv, Base, Created
<1>2. ASSUME NEW id \in Created, kind[id] # "every"  PROVE Placed(id)'
  <2>1. Placed(id)
    BY <1>2 DEF SchedInv, Places1
  <2>2. InWork(id)' = InWork(id)
    BY DEF InWork, Busy
  <2>3. InTasks(id)' = InTasks(id) /\ InAdding(id)' = InAdding(id) /\ InQueue(id)' = InQueue(id)
    BY DEF InTasks, InAdding, InQueue
  <2> QED BY <2>1, <2>2, <2>3, SamePlaces
<1> QED BY <1>1, <1>2 DEF SchedInv, Places1, Created

\* A task is placed as before when the same places have it, and have it once.
LEMMA SameKindOfPlace ==
    ASSUME NEW id, Placed(id), InTasks(id)' = InTasks(id), InAdding(id)' = InAdding(id),
           Alone(InQueue(id))', InQueue(id)' = {} <=> InQueue(id) = {},
           InWork(id)' = InWork(id), id \in finished' <=> id \in finished
    PROVE  Placed(id)'
<1>1. Alone(InTasks(id)') /\ Alone(InAdding(id)') /\ Alone(InWork(id)')
  BY DEF Placed, OnePlace, Alone
<1> QED BY <1>1 DEF Placed, OnePlace, Alone

\* What a push adds to the queue.
LEMMA QueueAppend ==
    ASSUME NEW id, NEW v \in Nat, q \in Seq(Nat), q' = Append(q, v)
    PROVE  InQueue(id)' = InQueue(id) \cup (IF v = id THEN {Len(q) + 1} ELSE {})
<1>1. /\ q' \in Seq(Nat) /\ Len(q') = Len(q) + 1 /\ q'[Len(q) + 1] = v
      /\ \A i \in 1 .. Len(q) : q'[i] = q[i]
      /\ Len(q) \in Nat
  BY AppendProperties, LenProperties
<1>2. DOMAIN q = 1 .. Len(q) /\ DOMAIN q' = 1 .. (Len(q) + 1)
  BY <1>1
<1> QED BY <1>1, <1>2 DEF InQueue

\* A worker takes the front function: the task moves from the queue to the worker.
LEMMA TakeKeeps ==
    ASSUME SchedInv, NEW w \in Workers, wk[w] \notin Busy, q # <<>>, Take(w),
           UNCHANGED <<lock, tasks, adding, batch, due, recurred, kind, finished, mgr>>
    PROVE  SchedInv'
<1>0. q \in Seq(Nat) /\ kind \in Seq(Kinds) /\ wk \in [Workers -> Places]
      /\ cur \in [Workers -> Nat \cup {NoJob}] /\ cur[w] = NoJob
  BY DEF SchedInv, Base
<1>1. /\ cur' = [cur EXCEPT ![w] = q[1]] /\ wk' = [wk EXCEPT ![w] = "run"]
      /\ q' \in Seq(Nat) /\ Len(q') = Len(q) - 1 /\ 1 \in 1 .. Len(q) /\ q[1] \in Nat
      /\ \A i \in 1 .. Len(q') : q'[i] = q[i + 1]
      /\ Len(q) \in Nat
  <2>1. q' = Tail(q) /\ Head(q) = q[1]
    BY <1>0, HeadTailProperties DEF Take
  <2>2. q' \in Seq(Nat) /\ Len(q') = Len(q) - 1 /\ \A i \in 1 .. Len(q') : q'[i] = q[i + 1]
    BY <1>0, <2>1, HeadTailProperties
  <2>3. 1 \in 1 .. Len(q) /\ q[1] \in Nat /\ Len(q) \in Nat
    BY <1>0
  <2> QED BY <2>1, <2>2, <2>3 DEF Take
<1>2. DOMAIN q = 1 .. Len(q) /\ DOMAIN q' = 1 .. (Len(q) - 1)
  BY <1>0, <1>1
<1>3. Base'
  <2>1. q' \in Seq(Nat) /\ \A i \in 1 .. Len(q') : q'[i] <= Len(kind')
    <3> SUFFICES ASSUME NEW i \in 1 .. Len(q') PROVE q[i + 1] <= Len(kind)
      BY <1>1
    <3>1. i + 1 \in 1 .. Len(q)
      BY <1>1
    <3> QED BY <3>1 DEF SchedInv, Base
  <2>2. wk' \in [Workers -> Places] /\ cur' \in [Workers -> Nat \cup {NoJob}]
    BY <1>0, <1>1 DEF Places
  <2>3. \A u \in Workers : /\ cur'[u] \in Nat => cur'[u] <= Len(kind')
                           /\ wk'[u] \notin Busy => cur'[u] = NoJob
                           /\ wk'[u] = "after" => cur'[u] \in Created'
    <3> SUFFICES ASSUME NEW u \in Workers
                 PROVE  /\ cur'[u] \in Nat => cur'[u] <= Len(kind)
                        /\ wk'[u] \notin Busy => cur'[u] = NoJob
                        /\ wk'[u] = "after" => cur'[u] \in Created
      BY DEF Created
    <3>1. CASE u = w
      BY <3>1, <1>0, <1>1 DEF SchedInv, Base, Busy
    <3>2. CASE u # w
      BY <3>2, <1>0, <1>1 DEF SchedInv, Base
    <3> QED BY <3>1, <3>2
  <2> QED BY <2>1, <2>2, <2>3 DEF SchedInv, Base, Created
<1>4. ASSUME NEW id \in Created, kind[id] # "every"  PROVE Placed(id)'
  <2>1. Placed(id) /\ id \in Nat /\ id # NoJob
    BY <1>0, <1>4, CreatedIs, SchedulerAssumption DEF SchedInv, Places1
  <2>2. InTasks(id)' = InTasks(id) /\ InAdding(id)' = InAdding(id)
    BY DEF InTasks, InAdding
  <2>3. CASE q[1] = id
    <3>1. 1 \in InQueue(id)
      BY <2>3, <1>1, <1>2 DEF InQueue
    <3>2. InQueue(id) = {1} /\ InWork(id) = {} /\ InTasks(id) = {} /\ InAdding(id) = {}
          /\ id \notin finished
      BY <2>1, <3>1 DEF Placed, OnePlace, Alone
    <3>3. InQueue(id)' = {}
      <4> SUFFICES ASSUME NEW i \in DOMAIN q', q'[i] = id PROVE FALSE
        BY DEF InQueue
      <4>1. i + 1 \in DOMAIN q /\ q[i + 1] = id /\ i \in Nat \ {0}
        BY <1>1, <1>2
      <4>2. i + 1 \in InQueue(id)
        BY <4>1 DEF InQueue
      <4> QED BY <3>2, <4>1, <4>2
    <3>4. InWork(id)' = {w}
      <4>1. w \in InWork(id)'
        BY <1>0, <1>1, <2>3 DEF InWork
      <4>2. \A u \in InWork(id)' : u = w
        BY <1>0, <1>1, <3>2 DEF InWork
      <4> QED BY <4>1, <4>2
    <3> QED BY <2>2, <3>2, <3>3, <3>4 DEF Placed, OnePlace, Alone
  <2>4. CASE q[1] # id
    <3>1. InWork(id)' = InWork(id)
      BY <1>0, <1>1, <2>1, <2>4 DEF InWork
    <3>2. \A i \in Nat : i \in InQueue(id)' <=> i + 1 \in InQueue(id) /\ i # 0
      <4> SUFFICES ASSUME NEW i \in Nat
                   PROVE  i \in InQueue(id)' <=> i + 1 \in InQueue(id) /\ i # 0
        OBVIOUS
      <4>1. i \in 1 .. (Len(q) - 1) <=> i + 1 \in 1 .. Len(q) /\ i # 0
        BY <1>1
      <4> QED BY <1>1, <1>2, <4>1 DEF InQueue
    <3>3. InQueue(id)' \subseteq Nat /\ InQueue(id) \subseteq Nat \ {0}
      BY <1>2 DEF InQueue
    <3>4. 1 \notin InQueue(id)
      BY <2>4 DEF InQueue
    <3>5. Alone(InQueue(id)')
      <4> SUFFICES ASSUME NEW i \in InQueue(id)', NEW j \in InQueue(id)' PROVE i = j
        BY DEF Alone
      <4>1. i \in Nat /\ j \in Nat /\ i + 1 \in InQueue(id) /\ j + 1 \in InQueue(id)
        BY <3>2, <3>3
      <4>2. i + 1 = j + 1
        BY <2>1, <4>1 DEF Placed, OnePlace, Alone
      <4> QED BY <4>1, <4>2
    <3>6. InQueue(id)' = {} <=> InQueue(id) = {}
      <4>1. ASSUME NEW i \in InQueue(id)  PROVE InQueue(id)' # {}
        <5>1. i \in Nat /\ i # 0 /\ i # 1
          BY <3>3, <3>4
        <5>2. i - 1 \in Nat /\ (i - 1) + 1 = i /\ i - 1 # 0
          BY <5>1
        <5> QED BY <3>2, <5>2
      <4>2. ASSUME NEW i \in InQueue(id)'  PROVE InQueue(id) # {}
        BY <3>2, <3>3
      <4> QED BY <4>1, <4>2
    <3>7. Alone(InQueue(id))'
      BY <3>5 DEF Alone
    <3> QED BY <2>1, <2>2, <3>1, <3>6, <3>7, SameKindOfPlace
  <2> QED BY <2>3, <2>4
<1> QED BY <1>3, <1>4 DEF SchedInv, Places1, Created

\* The constructor pushes the managing function, which is no task.
LEMMA CtorKeeps ==
    ASSUME SchedInv, PushJob(Manager),
           UNCHANGED <<lock, tasks, adding, batch, due, recurred, kind, finished, mgr>>
    PROVE  SchedInv'
<1>1. q \in Seq(Nat) /\ kind \in Seq(Kinds) /\ q' = Append(q, 0) /\ UNCHANGED <<wk, cur>>
  BY DEF SchedInv, Base, PushJob, Manager
<1>2. Base'
  <2>1. /\ q' \in Seq(Nat) /\ Len(q') = Len(q) + 1 /\ q'[Len(q) + 1] = 0
        /\ \A i \in 1 .. Len(q) : q'[i] = q[i]
        /\ Len(q) \in Nat /\ Len(kind) \in Nat
    BY <1>1, AppendProperties, LenProperties
  <2>2. \A i \in 1 .. Len(q') : q'[i] <= Len(kind)
    <3> SUFFICES ASSUME NEW i \in 1 .. Len(q') PROVE q'[i] <= Len(kind)
      OBVIOUS
    <3>1. i \in 1 .. Len(q) \/ i = Len(q) + 1
      BY <2>1
    <3>2. CASE i \in 1 .. Len(q)
      <4>1. q[i] <= Len(kind)
        BY <3>2 DEF SchedInv, Base
      <4> QED BY <2>1, <3>2, <4>1
    <3>3. CASE i = Len(q) + 1
      BY <2>1, <3>3
    <3> QED BY <3>1, <3>2, <3>3
  <2> QED BY <1>1, <2>1, <2>2 DEF SchedInv, Base, Created
<1>3. ASSUME NEW id \in Created, kind[id] # "every"  PROVE Placed(id)'
  <2>1. Placed(id) /\ id # 0
    BY <1>1, <1>3, CreatedIs DEF SchedInv, Places1
  <2>2. InQueue(id)' = InQueue(id)
    BY <1>1, <2>1, QueueAppend
  <2>3. InTasks(id)' = InTasks(id) /\ InAdding(id)' = InAdding(id) /\ InWork(id)' = InWork(id)
    BY <1>1 DEF InTasks, InAdding, InWork
  <2> QED BY <2>1, <2>2, <2>3, SamePlaces
<1> QED BY <1>2, <1>3 DEF SchedInv, Places1, Created

\* manage_tasks begins: nothing is pushed yet.
LEMMA ManageKeeps == ASSUME SchedInv, Manage PROVE SchedInv'
<1>1. /\ UNCHANGED <<poolVars, tasks, adding, recurred, kind, finished>>
      /\ lock = Free /\ lock' = Manager /\ mgr' = "push" /\ mgr = "manage"
      /\ due' = batch' /\ batch' \subseteq tasks
  BY DEF Manage
<1>2. batch = {} /\ adding = {} /\ Manager \notin Workers \cup {Main, Free}
      /\ Free \notin Workers
  BY <1>1, PoolAssumption, SchedulerAssumption DEF SchedInv, Base, Managing, Manager
<1>3. Base'
  BY <1>1, <1>2 DEF SchedInv, Base, Managing, Created, poolVars
<1>4. ASSUME NEW id \in Created, kind[id] # "every"  PROVE Placed(id)'
  <2>1. Placed(id)
    BY <1>4 DEF SchedInv, Places1
  <2>2. InTasks(id)' = InTasks(id) /\ InAdding(id)' = InAdding(id) /\ InQueue(id)' = InQueue(id)
    BY <1>1, <1>2 DEF InTasks, InAdding, InQueue, poolVars
  <2>3. InWork(id)' = InWork(id)
    BY <1>1, <1>2 DEF InWork, poolVars
  <2> QED BY <1>1, <2>1, <2>2, <2>3, SamePlaces
<1> QED BY <1>1, <1>3, <1>4 DEF SchedInv, Places1, Created

\* A task that is due is pushed: it moves from the map to the queue.
LEMMA PushKeeps == ASSUME SchedInv, NEW e \in due, Push(e) PROVE SchedInv'
<1>1. /\ q' = Append(q, e.id) /\ due' = due \ {e} /\ mgr = "push" /\ mgr' = "notify"
      /\ UNCHANGED <<wk, cur, lock, tasks, adding, batch, recurred, kind, finished>>
  BY DEF Push, PushJob
<1>2. q \in Seq(Nat) /\ kind \in Seq(Kinds) /\ e \in batch /\ e \in tasks /\ e.id \in Created
  BY DEF SchedInv, Base
<1>3. e.id \in Nat /\ e.id <= Len(kind)
  BY <1>2, CreatedIs
<1>4. Base'
  <2>1. /\ q' \in Seq(Nat) /\ Len(q') = Len(q) + 1 /\ q'[Len(q) + 1] = e.id
        /\ \A i \in 1 .. Len(q) : q'[i] = q[i]
        /\ Len(q) \in Nat
    BY <1>1, <1>2, <1>3, AppendProperties, LenProperties
  <2>2. \A i \in 1 .. Len(q') : q'[i] <= Len(kind)
    <3> SUFFICES ASSUME NEW i \in 1 .. Len(q') PROVE q'[i] <= Len(kind)
      OBVIOUS
    <3>1. i \in 1 .. Len(q) \/ i = Len(q) + 1
      BY <2>1
    <3>2. CASE i \in 1 .. Len(q)
      <4>1. q[i] <= Len(kind)
        BY <3>2 DEF SchedInv, Base
      <4> QED BY <2>1, <3>2, <4>1
    <3>3. CASE i = Len(q) + 1
      BY <1>3, <2>1, <3>3
    <3> QED BY <3>1, <3>2, <3>3
  <2>3. due' \subseteq batch' /\ mgr' \in Managing
    BY <1>1 DEF SchedInv, Base, Managing
  <2>4. lock' = Manager
    BY <1>1 DEF SchedInv, Base, Managing
  <2> QED BY <1>1, <2>1, <2>2, <2>3, <2>4 DEF SchedInv, Base, Created
<1>5. ASSUME NEW id \in Created, kind[id] # "every"  PROVE Placed(id)'
  <2>1. Placed(id)
    BY <1>5 DEF SchedInv, Places1
  <2>2. InAdding(id)' = InAdding(id) /\ InWork(id)' = InWork(id)
    BY <1>1 DEF InAdding, InWork
  <2>3. InQueue(id)' = InQueue(id) \cup (IF e.id = id THEN {Len(q) + 1} ELSE {})
    BY <1>1, <1>2, <1>3, QueueAppend
  <2>4. InTasks(id)' = InTasks(id) \ {e}
    BY <1>1, <1>2 DEF InTasks
  <2>5. CASE e.id = id
    <3>1. e \in InTasks(id)
      BY <1>2, <2>5 DEF InTasks
    <3>2. InTasks(id)' = {} /\ InQueue(id) = {} /\ InAdding(id) = {} /\ InWork(id) = {}
          /\ id \notin finished
      BY <2>1, <2>4, <3>1 DEF Placed, OnePlace, Alone
    <3>3. InQueue(id)' = {Len(q) + 1}
      BY <2>3, <2>5, <3>2
    <3> QED BY <1>1, <2>2, <3>2, <3>3 DEF Placed, OnePlace, Alone
  <2>6. CASE e.id # id
    <3>1. e \notin InTasks(id)
      BY <2>6 DEF InTasks
    <3> QED BY <1>1, <2>1, <2>2, <2>3, <2>4, <2>6, <3>1, SamePlaces
  <2> QED BY <2>5, <2>6
<1> QED BY <1>1, <1>4, <1>5 DEF SchedInv, Places1, Created

\* The recurring tasks of a round are remembered; no other task is concerned.
LEMMA PushedKeeps == ASSUME SchedInv, Pushed PROVE SchedInv'
<1> DEFINE F == {f \in batch \ due : Recurs(f.id) /\ \A g \in recurred : g.id # f.id}
<1>1. /\ UNCHANGED <<q, cur, lock, tasks, adding, batch, due, kind, finished>>
      /\ recurred' = recurred \cup {Entry(now + Period, e.id) : e \in F}
      /\ mgr = "notify" /\ mgr' = "push"
      /\ wk' = wk \/ \E w \in Asleep : wk' = [wk EXCEPT ![w] = "awake"]
  BY DEF Pushed, PushNotify
<1>2. /\ wk' \in [Workers -> Places]
      /\ \A w \in Workers : wk'[w] = wk[w] \/ (wk[w] \notin Busy /\ wk'[w] \notin Busy)
  BY <1>1 DEF SchedInv, Base, Asleep, Places, Busy
<1>3. \A e \in F : e.id \in Created /\ kind[e.id] = "every"
  BY DEF SchedInv, Base, Recurs
<1> HIDE DEF F
<1>4. \A e \in recurred' : e.id \in Created /\ kind[e.id] = "every"
  BY <1>1, <1>3 DEF SchedInv, Base, Entry
<1>5. Base'
  <2>1. \A w \in Workers : /\ cur'[w] \in Nat => cur'[w] <= Len(kind')
                           /\ wk'[w] \notin Busy => cur'[w] = NoJob
                           /\ wk'[w] = "after" => cur'[w] \in Created'
    BY <1>1, <1>2 DEF SchedInv, Base, Busy, Created
  <2>2. mgr' \in Managing /\ lock' = Manager
    BY <1>1 DEF SchedInv, Base, Managing
  <2> QED BY <1>1, <1>2, <1>4, <2>1, <2>2 DEF SchedInv, Base, Created
<1>6. ASSUME NEW id \in Created, kind[id] # "every"  PROVE Placed(id)'
  <2>1. Placed(id)
    BY <1>6 DEF SchedInv, Places1
  <2>2. InWork(id)' = InWork(id)
    BY <1>1, <1>2 DEF InWork, Busy
  <2>3. InTasks(id)' = InTasks(id) /\ InAdding(id)' = InAdding(id) /\ InQueue(id)' = InQueue(id)
    BY <1>1 DEF InTasks, InAdding, InQueue
  <2> QED BY <1>1, <2>1, <2>2, <2>3, SamePlaces
<1> QED BY <1>1, <1>5, <1>6 DEF SchedInv, Places1, Created

\* The end of manage_tasks: what was pushed is erased, what recurs is put back.
LEMMA ManagedKeeps == ASSUME SchedInv, Managed PROVE SchedInv'
<1>1. /\ UNCHANGED <<poolVars, adding, due, kind, finished>>
      /\ due = {} /\ mgr = "push" /\ mgr' = "test" /\ lock' = Free
      /\ batch' = {} /\ recurred' = {} /\ tasks' = (tasks \ batch) \cup recurred
  BY DEF Managed
<1>2. lock = Manager /\ Manager \notin Workers \cup {Main, Free} /\ Free \notin Workers
      /\ adding = {}
  BY <1>1, PoolAssumption, SchedulerAssumption DEF SchedInv, Base, Managing, Manager
<1>3. Base'
  BY <1>1, <1>2 DEF SchedInv, Base, Managing, Created, poolVars
<1>4. ASSUME NEW id \in Created, kind[id] # "every"  PROVE Placed(id)'
  <2>1. Placed(id)
    BY <1>4 DEF SchedInv, Places1
  <2>2. \A e \in recurred : e.id # id
    BY <1>4 DEF SchedInv, Base
  <2>3. InTasks(id)' = InTasks(id)
    BY <1>1, <2>2 DEF InTasks
  <2>4. InWork(id)' = InWork(id) /\ InAdding(id)' = InAdding(id) /\ InQueue(id)' = InQueue(id)
    BY <1>1, <1>2 DEF InWork, InAdding, InQueue, poolVars
  <2> QED BY <1>1, <2>1, <2>3, <2>4, SamePlaces
<1> QED BY <1>1, <1>3, <1>4 DEF SchedInv, Places1, Created

\* A task is created: add_task begins to insert it.
LEMMA NewTaskKeeps ==
    ASSUME SchedInv, NEW t \in Workers \cup {Main}, NEW k \in Kinds, NEW at, NewTask(t, k, at),
           t \in Workers => wk[t] = "run",
           UNCHANGED <<poolVars, tasks, batch, due, recurred, finished, mgr>>
    PROVE  SchedInv'
<1> DEFINE n == Len(kind) + 1
<1>1. /\ kind \in Seq(Kinds) /\ kind' = Append(kind, k) /\ lock = Free /\ lock' = t
      /\ adding' = {Entry(at, n)}
  BY DEF NewTask, AddBegin, SchedInv, Base
<1>2. /\ kind' \in Seq(Kinds) /\ Len(kind') = n /\ kind'[n] = k /\ Len(kind) \in Nat
      /\ \A i \in 1 .. Len(kind) : kind'[i] = kind[i]
  BY <1>1, AppendProperties, LenProperties
<1>3. Created = 1 .. Len(kind) /\ Created' = 1 .. n
  BY <1>1, <1>2 DEF Created
<1>4. adding = {} /\ batch = {} /\ Manager \notin Workers \cup {Main, Free} /\ Free \notin Workers
      /\ mgr \notin Managing /\ Main # Free
  BY <1>1, PoolAssumption, SchedulerAssumption DEF SchedInv, Base, Manager
<1>5. /\ UNCHANGED <<q, wk, cur>>
      /\ \A i \in 1 .. Len(q) : q[i] \in Nat /\ q[i] <= Len(kind)
      /\ \A w \in Workers : cur[w] \in Nat => cur[w] <= Len(kind)
  BY DEF SchedInv, Base, poolVars
<1>6. Entry(at, n).id = n
  BY DEF Entry
<1>7. \A e \in tasks \cup recurred : e.id \in 1 .. Len(kind)
  BY <1>3 DEF SchedInv, Base
<1>8. Base'
  <2>1. \A i \in 1 .. Len(q') : q'[i] <= Len(kind')
    BY <1>2, <1>5
  <2>2. \A w \in Workers : /\ cur'[w] \in Nat => cur'[w] <= Len(kind')
                           /\ wk'[w] \notin Busy => cur'[w] = NoJob
                           /\ wk'[w] = "after" => cur'[w] \in Created'
    BY <1>2, <1>3, <1>5 DEF SchedInv, Base
  <2>3. \A e \in tasks' \cup adding' \cup recurred' : e.id \in Created'
    BY <1>1, <1>2, <1>3, <1>6, <1>7
  <2>4. \A e \in recurred' : kind'[e.id] = "every"
    BY <1>2, <1>7 DEF SchedInv, Base
  <2>5. finished' \subseteq Created'
    BY <1>2, <1>3 DEF SchedInv, Base
  <2>6. lock' \in Workers \cup {Main} /\ mgr' \notin Managing /\ batch' = {}
        /\ due' \subseteq batch' /\ batch' \subseteq tasks'
    BY <1>1, <1>4 DEF SchedInv, Base
  <2>7. q' \in Seq(Nat) /\ wk' \in [Workers -> Places] /\ cur' \in [Workers -> Nat \cup {NoJob}]
    BY <1>5 DEF SchedInv, Base
  <2> QED BY <1>2, <2>1, <2>2, <2>3, <2>4, <2>5, <2>6, <2>7 DEF Base
<1>9. ASSUME NEW id \in Created', kind'[id] # "every"  PROVE Placed(id)'
  <2>1. InTasks(id)' = InTasks(id) /\ InQueue(id)' = InQueue(id)
    BY <1>5 DEF InTasks, InQueue
  <2>2. InWork(id)' = InWork(id)
    BY <1>1, <1>4, <1>5 DEF InWork
  <2>3. CASE id = n
    <3>1. InAdding(id)' = {Entry(at, n)}
      BY <1>1, <1>6, <2>3 DEF InAdding
    <3>2. InTasks(id) = {}
      BY <1>2, <1>7, <2>3 DEF InTasks
    <3>3. InQueue(id) = {}
      <4>1. \A i \in DOMAIN q : i \in 1 .. Len(q)
        BY DEF SchedInv, Base
      <4>2. \A i \in 1 .. Len(q) : q[i] # n
        BY <1>2, <1>5
      <4> QED BY <2>3, <4>1, <4>2 DEF InQueue
    <3>4. InWork(id) = {}
      BY <1>2, <1>5, <2>3 DEF InWork
    <3>5. id \notin finished'
      BY <1>2, <1>3, <2>3 DEF SchedInv, Base
    <3> QED BY <2>1, <2>2, <3>1, <3>2, <3>3, <3>4, <3>5 DEF Placed, OnePlace, Alone
  <2>4. CASE id # n
    <3>1. id \in Created /\ kind[id] = kind'[id]
      BY <1>2, <1>3, <2>4
    <3>2. Placed(id)
      BY <1>9, <3>1 DEF SchedInv, Places1
    <3>3. InAdding(id)' = InAdding(id)
      BY <1>1, <1>4, <1>6, <2>4 DEF InAdding
    <3> QED BY <2>1, <2>2, <3>2, <3>3, SamePlaces
  <2> QED BY <2>3, <2>4
<1> QED BY <1>8, <1>9 DEF SchedInv, Places1

\* The function of an interval task has returned: add_task begins to put it back.
LEMMA AddBackKeeps == ASSUME SchedInv, NEW w \in Workers, AddBack(w) PROVE SchedInv'
<1>1. /\ UNCHANGED <<q, wk, cur, tasks, batch, due, recurred, kind, finished, mgr>>
      /\ lock = Free /\ lock' = w /\ wk[w] = "after"
      /\ adding' = {Entry(now + Period, cur[w])}
  BY DEF AddBack, AddBegin, poolVars, managed
<1>2. adding = {} /\ batch = {} /\ Manager \notin Workers \cup {Main, Free} /\ Free \notin Workers
      /\ mgr \notin Managing /\ Main # Free /\ cur[w] \in Created
  BY <1>1, PoolAssumption, SchedulerAssumption DEF SchedInv, Base, Manager
<1>3. Entry(now + Period, cur[w]).id = cur[w]
  BY DEF Entry
<1>4. Base'
  BY <1>1, <1>2, <1>3 DEF SchedInv, Base, Created
<1>5. ASSUME NEW id \in Created, kind[id] # "every"  PROVE Placed(id)'
  <2>1. Placed(id)
    BY <1>5 DEF SchedInv, Places1
  <2>2. InTasks(id)' = InTasks(id) /\ InQueue(id)' = InQueue(id)
    BY <1>1 DEF InTasks, InQueue
  <2>3. InWork(id)' = InWork(id) \ {w}
    BY <1>1, <1>2 DEF InWork
  <2>4. CASE cur[w] = id
    <3>1. w \in InWork(id)
      BY <1>1, <1>2, <2>4 DEF InWork
    <3>2. InWork(id)' = {} /\ InTasks(id) = {} /\ InQueue(id) = {} /\ id \notin finished
      BY <2>1, <2>3, <3>1 DEF Placed, OnePlace, Alone
    <3>3. InAdding(id)' = {Entry(now + Period, cur[w])}
      BY <1>1, <1>3, <2>4 DEF InAdding
    <3> QED BY <1>1, <2>2, <3>2, <3>3 DEF Placed, OnePlace, Alone
  <2>5. CASE cur[w] # id
    <3>1. InWork(id)' = InWork(id)
      BY <2>3, <2>5 DEF InWork
    <3>2. InAdding(id)' = InAdding(id)
      BY <1>1, <1>2, <1>3, <2>5 DEF InAdding
    <3> QED BY <1>1, <2>1, <2>2, <3>1, <3>2, SamePlaces
  <2> QED BY <2>4, <2>5
<1> QED BY <1>1, <1>4, <1>5 DEF SchedInv, Places1, Created

\* add_task ends: the task is in the map, and a function that put itself back is over.
LEMMA AddEndKeeps ==
    ASSUME SchedInv, NEW t \in Workers \cup {Main}, AddEnd(t)
    PROVE  SchedInv'
<1>1. /\ lock = t /\ adding # {} /\ tasks' = tasks \cup adding /\ adding' = {} /\ lock' = Free
      /\ UNCHANGED <<q, batch, due, recurred, kind, finished>>
      /\ mgr' = IF mgr = "asleep" THEN "sleep" ELSE mgr
  BY DEF AddEnd, Interrupt, Return, poolVars
<1>2. batch = {} /\ due = {} /\ Manager \notin Workers \cup {Main, Free} /\ Free \notin Workers
      /\ mgr \notin Managing /\ Main \notin Workers
  BY <1>1, PoolAssumption, SchedulerAssumption DEF SchedInv, Base, Manager
<1>3. /\ wk' \in [Workers -> Places] /\ cur' \in [Workers -> Nat \cup {NoJob}]
      /\ \A w \in Workers : IF w = t /\ wk[w] = "after"
                            THEN wk'[w] = "pop" /\ cur'[w] = NoJob
                            ELSE wk'[w] = wk[w] /\ cur'[w] = cur[w]
  BY <1>2 DEF AddEnd, Return, poolVars, SchedInv, Base, Places
<1>4. mgr' \notin Managing
  BY <1>1, <1>2 DEF Managing
<1>5. Base'
  <2>1. \A w \in Workers : /\ cur'[w] \in Nat => cur'[w] <= Len(kind')
                           /\ wk'[w] \notin Busy => cur'[w] = NoJob
                           /\ wk'[w] = "after" => cur'[w] \in Created'
    BY <1>1, <1>3, SchedulerAssumption DEF SchedInv, Base, Created
  <2> QED BY <1>1, <1>2, <1>3, <1>4, <2>1 DEF SchedInv, Base, Created
<1>6. ASSUME NEW id \in Created, kind[id] # "every"  PROVE Placed(id)'
  <2>1. Placed(id) /\ id # NoJob
    <3>1. id \in Nat
      BY DEF SchedInv, Base, Created
    <3> QED BY <1>6, <3>1, SchedulerAssumption DEF SchedInv, Places1
  <2>2. InQueue(id)' = InQueue(id) /\ InAdding(id)' = {}
    BY <1>1 DEF InAdding, InQueue
  <2>3. InWork(id)' = InWork(id)
    BY <1>1, <1>2, <1>3, <2>1 DEF InWork
  <2>4. InTasks(id)' = InTasks(id) \cup InAdding(id)
    BY <1>1, <1>2 DEF InTasks, InAdding
  <2> QED BY <1>1, <2>1, <2>2, <2>3, <2>4 DEF Placed, OnePlace, Alone
<1> QED BY <1>1, <1>5, <1>6 DEF SchedInv, Places1, Created

\* A function ends: a one-shot task is finished, and an interval task whose function has
\* thrown; else an interval task stays in hand.
LEMMA RunEndsKeeps == ASSUME SchedInv, NEW w \in Workers, RunEnds(w) PROVE SchedInv'
<1>1. /\ UNCHANGED <<q, lock, tasks, adding, batch, due, recurred, kind, mgr>>
      /\ wk[w] = "run" /\ lock # w
  BY DEF RunEnds, Return, Unchanged_, managed
<1>2. /\ kind \in Seq(Kinds) /\ Created = 1 .. Len(kind) /\ NoJob \notin Nat
      /\ wk \in [Workers -> Places] /\ cur \in [Workers -> Nat \cup {NoJob}]
  BY SchedulerAssumption DEF SchedInv, Base, Created
<1>3. CASE Return(w) /\ (cur[w] = Manager \/ cur[w] \in Created)
           /\ finished' = IF cur[w] \in Created /\ kind[cur[w]] # "every"
                          THEN finished \cup {cur[w]} ELSE finished
  <2>1. wk' = [wk EXCEPT ![w] = "pop"] /\ cur' = [cur EXCEPT ![w] = NoJob]
    BY <1>3 DEF Return
  <2>2. Base'
    <3>1. \A u \in Workers : /\ cur'[u] \in Nat => cur'[u] <= Len(kind')
                             /\ wk'[u] \notin Busy => cur'[u] = NoJob
                             /\ wk'[u] = "after" => cur'[u] \in Created'
      BY <1>1, <1>2, <2>1 DEF SchedInv, Base, Created
    <3>2. wk' \in [Workers -> Places] /\ cur' \in [Workers -> Nat \cup {NoJob}]
      BY <1>2, <2>1 DEF Places
    <3>3. finished' \subseteq Created
      BY <1>3 DEF SchedInv, Base
    <3> QED BY <1>1, <3>1, <3>2, <3>3 DEF SchedInv, Base, Created
  <2>3. ASSUME NEW id \in Created, kind[id] # "every"  PROVE Placed(id)'
    <3>1. Placed(id) /\ id # NoJob /\ id # 0 /\ kind[id] \in {"once", "interval"}
      BY <1>2, <2>3 DEF SchedInv, Places1, Kinds
    <3>2. InTasks(id)' = InTasks(id) /\ InAdding(id)' = InAdding(id) /\ InQueue(id)' = InQueue(id)
      BY <1>1 DEF InTasks, InAdding, InQueue
    <3>3. InWork(id)' = InWork(id) \ {w}
      BY <1>1, <1>2, <2>1, <3>1 DEF InWork
    <3>4. CASE cur[w] = id
      <4>1. w \in InWork(id)
        BY <1>1, <3>4 DEF InWork
      <4>2. /\ InWork(id)' = {} /\ InTasks(id) = {} /\ InAdding(id) = {} /\ InQueue(id) = {}
        BY <3>1, <3>3, <4>1 DEF Placed, OnePlace, Alone
      <4>3. id \in finished'
        BY <1>3, <3>1, <3>4 DEF Manager
      <4> QED BY <3>2, <4>2, <4>3 DEF Placed, OnePlace, Alone
    <3>5. CASE cur[w] # id
      <4>1. InWork(id)' = InWork(id)
        BY <3>3, <3>5 DEF InWork
      <4>2. id \in finished' <=> id \in finished
        BY <1>3, <3>5
      <4> QED BY <3>1, <3>2, <4>1, <4>2, SamePlaces
    <3> QED BY <3>4, <3>5
  <2> QED BY <1>1, <2>2, <2>3 DEF SchedInv, Places1, Created
<1>4. CASE /\ cur[w] \in Created /\ kind[cur[w]] = "interval"
           /\ wk' = [wk EXCEPT ![w] = "after"] /\ UNCHANGED <<cur, finished>>
  <2>1. Base'
    <3>1. \A u \in Workers : /\ cur'[u] \in Nat => cur'[u] <= Len(kind')
                             /\ wk'[u] \notin Busy => cur'[u] = NoJob
                             /\ wk'[u] = "after" => cur'[u] \in Created'
      BY <1>1, <1>2, <1>4 DEF SchedInv, Base, Created, Busy
    <3>2. wk' \in [Workers -> Places]
      BY <1>2, <1>4 DEF Places
    <3> QED BY <1>1, <1>4, <3>1, <3>2 DEF SchedInv, Base, Created
  <2>2. ASSUME NEW id \in Created, kind[id] # "every"  PROVE Placed(id)'
    <3>1. Placed(id)
      BY <2>2 DEF SchedInv, Places1
    <3>2. InTasks(id)' = InTasks(id) /\ InAdding(id)' = InAdding(id) /\ InQueue(id)' = InQueue(id)
      BY <1>1 DEF InTasks, InAdding, InQueue
    <3>3. InWork(id)' = InWork(id)
      BY <1>1, <1>2, <1>4 DEF InWork
    <3> QED BY <1>4, <3>1, <3>2, <3>3, SamePlaces
  <2> QED BY <1>1, <2>1, <2>2 DEF SchedInv, Places1, Created
<1>5. 0 \notin Created
  BY <1>2
<1> QED BY <1>3, <1>4, <1>5 DEF RunEnds, Manager

\* Every step keeps the tasks in their places.
LEMMA SchedulerStep == SchedInv /\ [Next]_vars => SchedInv'
<1> SUFFICES ASSUME SchedInv, [Next]_vars PROVE SchedInv'
  OBVIOUS
<1> DEFINE Data == <<q, cur, lock, tasks, adding, batch, due, recurred, kind, finished>>
<1>0. wk \in [Workers -> Places]
  BY DEF SchedInv, Base
<1>1. ASSUME UNCHANGED Data, wk' = wk,
             mgr' = mgr \/ (mgr' \notin Managing /\ mgr \notin Managing)
      PROVE  SchedInv'
  BY <1>0, <1>1, FrameKeeps
<1>2. ASSUME UNCHANGED Data, mgr' = mgr, NEW w \in Workers, NEW p \in Places \ Busy,
             wk[w] \notin Busy, wk' = [wk EXCEPT ![w] = p]
      PROVE  SchedInv'
  <2>1. /\ wk' \in [Workers -> Places]
        /\ \A u \in Workers : wk'[u] = wk[u] \/ (wk[u] \notin Busy /\ wk'[u] \notin Busy)
    BY <1>0, <1>2
  <2> QED BY <1>2, <2>1, FrameKeeps
<1>3. ASSUME PushNotify, UNCHANGED <<lock, tasks, adding, batch, due, recurred, kind, finished, mgr>>
      PROVE  SchedInv'
  <2>1. CASE wk' = wk
    BY <1>1, <1>3, <2>1 DEF PushNotify
  <2>2. CASE \E w \in Asleep : wk' = [wk EXCEPT ![w] = "awake"]
    <3>1. PICK w \in Asleep : wk' = [wk EXCEPT ![w] = "awake"]
      BY <2>2
    <3>2. w \in Workers /\ wk[w] \notin Busy /\ "awake" \in Places \ Busy
      BY DEF Asleep, Busy, Places
    <3> QED BY <1>2, <1>3, <3>1, <3>2 DEF PushNotify
  <2> QED BY <1>3, <2>1, <2>2 DEF PushNotify
<1>4. CASE Ctor
  <2>1. CASE PushJob(Manager) /\ Others /\ UNCHANGED <<intr, mgr>>
    BY <2>1, CtorKeeps DEF Others
  <2>2. CASE PushNotify /\ Others /\ UNCHANGED <<intr, mgr>>
    BY <1>3, <2>2 DEF Others
  <2> QED BY <1>4, <2>1, <2>2 DEF Ctor
<1>5. CASE Schedule
  <2>1. UNCHANGED <<poolVars, tasks, batch, due, recurred, finished, mgr>>
    BY <1>5 DEF Schedule, managed
  <2>2. \E k \in Kinds, at \in {now + d : d \in Delays} \cup {now + Period, now} :
            NewTask(Main, k, at)
    BY <1>5 DEF Schedule, Kinds
  <2>3. Main \notin Workers
    BY SchedulerAssumption
  <2> QED BY <2>1, <2>2, <2>3, NewTaskKeeps
<1>6. CASE AddEnd(Main)
  BY <1>6, AddEndKeeps
<1>7. CASE Dtor
  BY <1>1, <1>7 DEF Dtor, managed, poolVars
<1>8. CASE DtorRest
  <2>1. CASE Interrupt /\ Others /\ UNCHANGED poolVars
    BY <1>1, <2>1 DEF Interrupt, Others, poolVars, Managing
  <2>2. CASE SetDone /\ Others /\ UNCHANGED <<intr, mgr>>
    BY <1>1, <2>2 DEF SetDone, Others
  <2>3. CASE StopNotify /\ Others /\ UNCHANGED <<intr, mgr>>
    <3>1. wk' = [w \in Workers |-> IF wk[w] = "asleep" THEN "awake" ELSE wk[w]]
      BY <2>3 DEF StopNotify
    <3>2. /\ wk' \in [Workers -> Places]
          /\ \A u \in Workers : wk'[u] = wk[u] \/ (wk[u] \notin Busy /\ wk'[u] \notin Busy)
      BY <1>0, <3>1 DEF Places, Busy
    <3> QED BY <2>3, <3>2, FrameKeeps DEF StopNotify, Others
  <2>4. CASE Others /\ UNCHANGED <<poolVars, intr, mgr>>
    BY <1>1, <2>4 DEF Others, poolVars
  <2> QED BY <1>8, <2>1, <2>2, <2>3, <2>4 DEF DtorRest
<1>9. CASE SleepTest \/ TestDone \/ Peek \/ SleepWakes
  BY <1>1, <1>9 DEF SleepTest, TestDone, Peek, SleepWakes, poolVars, Managing
<1>10. CASE Manage \/ Pushed \/ Managed \/ \E e \in due : Push(e)
  BY <1>10, ManageKeeps, PushedKeeps, ManagedKeeps, PushKeeps
<1>11. ASSUME NEW w \in Workers, PoolStep(w) \/ WorkerSpurious(w)  PROVE SchedInv'
  <2>1. UNCHANGED <<lock, tasks, adding, batch, due, recurred, kind, finished, mgr>>
    BY <1>11 DEF PoolStep, WorkerSpurious, Unchanged_, managed
  <2>2. ASSUME Take(w), q # <<>>, wk[w] \notin Busy  PROVE SchedInv'
    BY <2>1, <2>2, TakeKeeps
  <2>3. ASSUME UNCHANGED <<q, cur>>, wk[w] \notin Busy,
               \E p \in {"lock", "gone", "block", "asleep", "awake"} : wk' = [wk EXCEPT ![w] = p]
        PROVE  SchedInv'
    <3>1. {"lock", "gone", "block", "asleep", "awake"} \subseteq Places \ Busy
      BY DEF Places, Busy
    <3> QED BY <1>2, <2>1, <2>3, <3>1
  <2>4. wk[w] \notin Busy
    BY <1>11 DEF PoolStep, WorkerSpurious, Pop, Wait, Sleep, Spurious, Busy
  <2>5. CASE Pop(w)
    BY <2>2, <2>3, <2>4, <2>5 DEF Pop
  <2>6. CASE Wait(w)
    BY <2>2, <2>3, <2>4, <2>6 DEF Wait
  <2>7. CASE Sleep(w) \/ Spurious(w)
    BY <2>3, <2>4, <2>7 DEF Sleep, Spurious
  <2> QED BY <1>11, <2>5, <2>6, <2>7 DEF PoolStep, WorkerSpurious
<1>12. ASSUME NEW w \in Workers, ManagerStarts(w)  PROVE SchedInv'
  BY <1>1, <1>12 DEF ManagerStarts, poolVars, Managing
<1>13. ASSUME NEW w \in Workers, RunEnds(w) \/ AddBack(w) \/ AddEnd(w)  PROVE SchedInv'
  BY <1>13, RunEndsKeeps, AddBackKeeps, AddEndKeeps
<1>14. ASSUME NEW w \in Workers, ScheduleFromTask(w)  PROVE SchedInv'
  <2>1. UNCHANGED <<poolVars, tasks, batch, due, recurred, finished, mgr>> /\ wk[w] = "run"
    BY <1>14 DEF ScheduleFromTask, managed
  <2>2. \E at \in {now + d : d \in Delays} : NewTask(w, "once", at)
    BY <1>14 DEF ScheduleFromTask
  <2>3. "once" \in Kinds
    BY DEF Kinds
  <2> QED BY <2>1, <2>2, <2>3, NewTaskKeeps
<1>15. CASE Tick \/ UNCHANGED vars
  BY <1>1, <1>15 DEF Tick, vars, managed, poolVars
<1> QED BY <1>4, <1>5, <1>6, <1>7, <1>8, <1>9, <1>10, <1>11, <1>12, <1>13, <1>14, <1>15
        DEF Next, ManagerStep, WorkerStep

\* Nothing is scheduled when the scheduler is created.
LEMMA SchedStart == Init => SchedInv
<1> SUFFICES ASSUME Init PROVE SchedInv
  OBVIOUS
<1>1. kind = <<>> /\ q = <<>> /\ Created = {}
  BY DEF Init, PoolInit, Created
<1>2. Len(<<>>) = 0 /\ <<>> \in Seq(Kinds) /\ <<>> \in Seq(Nat)
  OBVIOUS
<1>3. Base
  <2>1. wk \in [Workers -> Places] /\ cur \in [Workers -> Nat \cup {NoJob}]
    BY DEF Init, PoolInit, Places
  <2>2. \A w \in Workers : cur[w] = NoJob /\ wk[w] = "pop"
    BY DEF Init, PoolInit
  <2>3. /\ tasks = {} /\ adding = {} /\ recurred = {} /\ batch = {} /\ due = {}
        /\ finished = {} /\ mgr = "none"
    BY DEF Init
  <2>4. NoJob \notin Nat
    BY SchedulerAssumption
  <2> QED BY <1>1, <1>2, <2>1, <2>2, <2>3, <2>4 DEF Base, Managing
<1> QED BY <1>1, <1>3 DEF SchedInv, Places1

\* A set with one member counts one, the others count nothing.
LEMMA AloneCounts ==
    ASSUME NEW S, Alone(S)
    PROVE  Cardinality(S) = IF S = {} THEN 0 ELSE 1
<1>1. CASE S = {}
  BY <1>1, FS_EmptySet
<1>2. CASE S # {}
  <2>1. PICK x : x \in S
    BY <1>2
  <2>2. S = {x}
    BY <2>1 DEF Alone
  <2> QED BY <1>2, <2>2, FS_Singleton
<1> QED BY <1>1, <1>2

\* add_task, manage_tasks, the queue of the pool and the functions that put themselves
\* back: a one-shot or interval task is in exactly one of the map, the hands of
\* add_task, the queue and a worker, or it is a one-shot task that has run.
THEOREM SchedulerOneInstance == Spec => []OneInstance
<1>1. SchedInv => OneInstance
  <2> SUFFICES ASSUME SchedInv, NEW id \in Created, kind[id] # "every"
               PROVE  Copies(id) + Count(id \in finished) = 1
    BY DEF OneInstance
  <2>1. Placed(id)
    BY DEF SchedInv, Places1
  <2> DEFINE T == InTasks(id)
             A == InAdding(id)
             Q == InQueue(id)
             W == InWork(id)
  <2>2. Copies(id) = Cardinality(T) + Cardinality(A) + Cardinality(Q) + Cardinality(W)
    BY DEF Copies, InTasks, InAdding, InQueue, InWork
  <2>3. OnePlace(T, A, Q, W, id \in finished)
    BY <2>1 DEF Placed
  <2> HIDE DEF T, A, Q, W
  <2>4. /\ Cardinality(T) = IF T = {} THEN 0 ELSE 1
        /\ Cardinality(A) = IF A = {} THEN 0 ELSE 1
        /\ Cardinality(Q) = IF Q = {} THEN 0 ELSE 1
        /\ Cardinality(W) = IF W = {} THEN 0 ELSE 1
    BY <2>3, AloneCounts DEF OnePlace
  <2> QED BY <2>2, <2>3, <2>4 DEF OnePlace, Count
<1> QED BY <1>1, SchedStart, SchedulerStep, PTL DEF Spec

-----------------------------------------------------------------------------
(* The destructor.                                                          *)

\* A worker that runs the managing function.
RunsManager(w) == wk[w] = "run" /\ cur[w] = Manager

\* Workers leave only after isDone; the managing function is still to be pushed, in the
\* queue, on a worker, or over; and the last worker to leave leaves no function behind.
DrainInv ==
    /\ main \in {"ctor", "notify", "alive", "interrupt", "stop"} => ~isDone
    /\ \A w \in Workers : wk[w] = "gone" => isDone
    /\ \/ mgr = "none" /\ (main = "ctor" \/ \E i \in 1 .. Len(q) : q[i] = Manager)
       \/ \E w \in Workers : RunsManager(w)
       \/ mgr = "ended"
    /\ AllGone => q = <<>>

\* Every step keeps what the destructor relies on.
LEMMA DrainStep == SchedInv /\ DrainInv /\ [Next]_vars => DrainInv'
<1> SUFFICES ASSUME SchedInv, DrainInv, [Next]_vars PROVE DrainInv'
  OBVIOUS
<1>0. /\ wk \in [Workers -> Places] /\ cur \in [Workers -> Nat \cup {NoJob}]
      /\ q \in Seq(Nat) /\ kind \in Seq(Kinds) /\ NoJob \notin Nat /\ Workers # {}
      /\ 0 \notin Created
  BY SchedulerAssumption, PoolAssumption, CreatedIs DEF SchedInv, Base
<1>1. ASSUME UNCHANGED <<q, wk, cur, isDone>>,
             main' \in {"ctor", "notify", "alive", "interrupt", "stop"} =>
                 main \in {"ctor", "notify", "alive", "interrupt", "stop"},
             main' = main \/ main # "ctor",
             \/ mgr' = mgr \/ (mgr # "none" /\ mgr # "ended") \/ \E w \in Workers : RunsManager(w)
      PROVE  DrainInv'
  BY <1>1 DEF DrainInv, RunsManager, AllGone
<1>2. ASSUME UNCHANGED <<q, cur>>, mgr' = mgr, isDone' = isDone, main' = main \/ main # "ctor",
             main' \in {"ctor", "notify", "alive", "interrupt", "stop"} => ~isDone,
             \A w \in Workers : \/ wk'[w] = wk[w]
                                \/ wk[w] # "run" /\ (wk'[w] = "gone" => isDone /\ q = <<>>)
      PROVE  DrainInv'
  <2>1. \A w \in Workers : wk'[w] = "gone" => isDone'
    BY <1>2 DEF DrainInv
  <2>2. \A w \in Workers : RunsManager(w) => RunsManager(w)'
    BY <1>2 DEF RunsManager
  <2>3. AllGone' => q' = <<>>
    <3> SUFFICES ASSUME AllGone' PROVE q = <<>>
      BY <1>2
    <3>1. CASE AllGone
      BY <3>1 DEF DrainInv
    <3>2. CASE ~AllGone
      <4>1. PICK w \in Workers : wk[w] # "gone"
        BY <3>2 DEF AllGone
      <4>2. wk'[w] = "gone"
        BY DEF AllGone
      <4> QED BY <1>2, <4>1, <4>2
    <3> QED BY <3>1, <3>2
  <2> QED BY <1>2, <2>1, <2>2, <2>3 DEF DrainInv
<1>3. ASSUME NEW v \in Nat, PushJob(v), mgr' = mgr \/ mgr = "push",
             \/ \E w \in Workers : RunsManager(w)
             \/ main = "ctor" /\ main' = "notify" /\ v = Manager /\ mgr' = mgr,
             main' = main \/ main = "ctor"
      PROVE  DrainInv'
  <2>1. /\ q' = Append(q, v) /\ UNCHANGED <<wk, cur, isDone>>
    BY <1>3 DEF PushJob
  <2>2. /\ Len(q') = Len(q) + 1 /\ q'[Len(q) + 1] = v /\ Len(q) \in Nat
    BY <1>0, <1>3, <2>1, AppendProperties, LenProperties
  <2>3. ~AllGone
    BY <1>0, <1>3 DEF AllGone, RunsManager, DrainInv
  <2>4. Len(q) + 1 \in 1 .. Len(q')
    BY <2>2
  <2>5. CASE \E w \in Workers : RunsManager(w)
    BY <1>3, <2>1, <2>3, <2>5 DEF DrainInv, RunsManager, AllGone
  <2>6. CASE main = "ctor" /\ main' = "notify" /\ v = Manager /\ mgr' = mgr
    BY <2>1, <2>2, <2>3, <2>4, <2>6 DEF DrainInv, RunsManager, AllGone
  <2> QED BY <1>3, <2>5, <2>6
<1>4. mgr \notin {"none", "ended"} => \E w \in Workers : RunsManager(w)
  BY DEF DrainInv
<1>5. ASSUME PushNotify, mgr' = mgr, main' = main \/ main # "ctor",
             main' \in {"ctor", "notify", "alive", "interrupt", "stop"} =>
                 main \in {"ctor", "notify", "alive", "interrupt", "stop"}
      PROVE  DrainInv'
  <2>1. \A w \in Workers : wk'[w] = wk[w] \/ (wk[w] = "asleep" /\ wk'[w] = "awake")
    BY <1>0, <1>5 DEF PushNotify, Asleep
  <2> QED BY <1>2, <1>5, <2>1 DEF PushNotify, DrainInv
<1>6. CASE Ctor
  <2>1. CASE main = "ctor" /\ PushJob(Manager) /\ main' = "notify" /\ UNCHANGED <<intr, mgr>>
    BY <1>3, <2>1 DEF Manager
  <2>2. CASE main = "notify" /\ PushNotify /\ main' = "alive" /\ UNCHANGED <<intr, mgr>>
    BY <1>5, <2>2
  <2> QED BY <1>6, <2>1, <2>2 DEF Ctor
<1>7. CASE Schedule \/ Dtor \/ Tick \/ UNCHANGED vars
  BY <1>1, <1>7 DEF Schedule, Dtor, Tick, vars, poolVars, managed
<1>8. ASSUME NEW t \in Workers \cup {Main}, AddEnd(t)  PROVE DrainInv'
  <2>1. mgr' = mgr \/ (mgr = "asleep" /\ mgr' = "sleep")
    BY <1>8 DEF AddEnd, Interrupt
  <2>2. main' = main /\ q' = q /\ isDone' = isDone
    BY <1>8 DEF AddEnd, Return, poolVars
  <2>3. \A w \in Workers : \/ wk'[w] = wk[w] /\ cur'[w] = cur[w]
                           \/ wk[w] = "after" /\ wk'[w] = "pop"
    BY <1>0, <1>8 DEF AddEnd, Return, poolVars
  <2>4. AllGone' => AllGone
    BY <2>3 DEF AllGone
  <2>5. \A w \in Workers : RunsManager(w) => RunsManager(w)'
    BY <2>3 DEF RunsManager
  <2> QED BY <2>1, <2>2, <2>3, <2>4, <2>5 DEF DrainInv
<1>9. CASE DtorRest
  <2>1. CASE main = "interrupt" /\ Interrupt /\ main' = "stop" /\ UNCHANGED poolVars
    BY <1>1, <2>1 DEF Interrupt, poolVars
  <2>2. CASE main = "stop" /\ SetDone /\ main' = "wake" /\ UNCHANGED <<intr, mgr>>
    BY <2>2 DEF SetDone, DrainInv, RunsManager, AllGone
  <2>3. CASE main = "wake" /\ StopNotify /\ main' = "join" /\ UNCHANGED <<intr, mgr>>
    <3>1. \A w \in Workers : wk'[w] = wk[w] \/ (wk[w] = "asleep" /\ wk'[w] = "awake")
      BY <2>3 DEF StopNotify
    <3> QED BY <1>2, <2>3, <3>1 DEF StopNotify
  <2>4. CASE main = "join" /\ main' = "destroyed" /\ UNCHANGED <<poolVars, intr, mgr>>
    BY <1>1, <2>4 DEF poolVars
  <2> QED BY <1>9, <2>1, <2>2, <2>3, <2>4 DEF DtorRest
<1>10. CASE SleepTest \/ TestDone \/ Peek \/ SleepWakes \/ Manage \/ Managed
  BY <1>1, <1>10 DEF SleepTest, TestDone, Peek, SleepWakes, Manage, Managed, poolVars
<1>11. CASE Pushed
  <2>1. /\ PushNotify /\ main' = main /\ mgr = "notify" /\ mgr' = "push"
    BY <1>11 DEF Pushed
  <2>2. PICK w \in Workers : RunsManager(w)
    BY <1>4, <2>1
  <2>3. /\ \A u \in Workers : wk'[u] = wk[u] \/ (wk[u] = "asleep" /\ wk'[u] = "awake")
        /\ UNCHANGED <<q, cur, isDone>>
    BY <1>0, <2>1 DEF PushNotify, Asleep
  <2>4. RunsManager(w)' /\ ~AllGone'
    BY <2>2, <2>3 DEF RunsManager, AllGone
  <2> QED BY <2>1, <2>3, <2>4 DEF DrainInv
<1>12. ASSUME NEW e \in due, Push(e)  PROVE DrainInv'
  <2>1. PushJob(e.id) /\ mgr = "push" /\ main' = main
    BY <1>12 DEF Push
  <2>2. e.id \in Nat
    BY <1>0, CreatedIs DEF SchedInv, Base
  <2>3. \E w \in Workers : RunsManager(w)
    BY <1>4, <2>1
  <2> QED BY <1>3, <2>1, <2>2, <2>3
<1>13. ASSUME NEW w \in Workers, Take(w), q # <<>>, wk[w] \in {"pop", "lock", "awake"},
              mgr' = mgr, main' = main
       PROVE  DrainInv'
  <2>1. /\ cur' = [cur EXCEPT ![w] = q[1]] /\ wk' = [wk EXCEPT ![w] = "run"] /\ q' = Tail(q)
        /\ isDone' = isDone
    BY <1>0, <1>13 DEF Take
  <2>2. Len(q') = Len(q) - 1 /\ Len(q) \in Nat /\ \A i \in 1 .. Len(q') : q'[i] = q[i + 1]
    BY <1>0, <1>13, <2>1, HeadTailProperties, LenProperties
  <2>3. wk'[w] = "run" /\ cur'[w] = q[1] /\ ~AllGone'
    BY <1>0, <2>1 DEF AllGone
  <2>4. \A u \in Workers : RunsManager(u) => RunsManager(u)'
    BY <1>0, <1>13, <2>1 DEF RunsManager
  <2>5. \A u \in Workers : wk'[u] = "gone" => isDone'
    BY <1>0, <2>1 DEF DrainInv
  <2>6. ASSUME NEW i \in 1 .. Len(q), q[i] = Manager
        PROVE  RunsManager(w)' \/ \E j \in 1 .. Len(q') : q'[j] = Manager
    <3>1. CASE i = 1
      BY <2>3, <2>6, <3>1 DEF RunsManager
    <3>2. CASE i # 1
      <4>1. i - 1 \in 1 .. Len(q') /\ (i - 1) + 1 = i
        BY <2>2, <3>2
      <4> QED BY <2>2, <2>6, <4>1
    <3> QED BY <3>1, <3>2
  <2> QED BY <1>13, <2>1, <2>3, <2>4, <2>5, <2>6 DEF DrainInv
<1>14. ASSUME NEW w \in Workers, PoolStep(w) \/ WorkerSpurious(w)  PROVE DrainInv'
  <2>1. mgr' = mgr /\ main' = main
    BY <1>14 DEF PoolStep, WorkerSpurious, Unchanged_, managed
  <2>2. ASSUME wk[w] # "run", UNCHANGED <<q, cur, isDone>>,
               NEW p, p = "gone" => isDone /\ q = <<>>, wk' = [wk EXCEPT ![w] = p]
        PROVE  DrainInv'
    <3>1. \A u \in Workers : \/ wk'[u] = wk[u]
                             \/ wk[u] # "run" /\ (wk'[u] = "gone" => isDone /\ q = <<>>)
      BY <1>0, <2>2
    <3> QED BY <1>2, <2>1, <2>2, <3>1 DEF DrainInv
  <2>3. CASE Pop(w)
    BY <1>13, <2>1, <2>2, <2>3 DEF Pop
  <2>4. CASE Wait(w)
    BY <1>13, <2>1, <2>2, <2>4 DEF Wait
  <2>5. CASE Sleep(w) \/ Spurious(w)
    BY <2>2, <2>5 DEF Sleep, Spurious
  <2> QED BY <1>14, <2>3, <2>4, <2>5 DEF PoolStep, WorkerSpurious
<1>15. ASSUME NEW w \in Workers, ManagerStarts(w)  PROVE DrainInv'
  <2>1. RunsManager(w) /\ main' = main /\ UNCHANGED <<q, wk, cur, isDone>>
    BY <1>15 DEF ManagerStarts, RunsManager, poolVars
  <2> QED BY <1>1, <2>1
<1>16. ASSUME NEW w \in Workers, RunEnds(w)  PROVE DrainInv'
  <2>1. mgr' = mgr /\ main' = main /\ UNCHANGED <<q, isDone>> /\ wk[w] = "run"
    BY <1>16 DEF RunEnds, Return, Unchanged_, managed
  <2>2. cur[w] = Manager => mgr = "ended"
    BY <1>0, <1>16 DEF RunEnds, Manager
  <2>3. /\ \A u \in Workers \ {w} : wk'[u] = wk[u] /\ cur'[u] = cur[u]
        /\ wk'[w] \in {"pop", "after"}
    BY <1>0, <1>16 DEF RunEnds, Return
  <2>4. ~AllGone' /\ \A u \in Workers : wk'[u] = "gone" => isDone'
    BY <2>1, <2>3 DEF AllGone, DrainInv
  <2>5. \A u \in Workers : RunsManager(u) => RunsManager(u)' \/ mgr = "ended"
    BY <2>2, <2>3 DEF RunsManager
  <2> QED BY <2>1, <2>4, <2>5 DEF DrainInv
<1>17. ASSUME NEW w \in Workers, AddBack(w) \/ ScheduleFromTask(w)  PROVE DrainInv'
  BY <1>1, <1>17 DEF AddBack, ScheduleFromTask, poolVars, managed
<1> QED BY <1>6, <1>7, <1>8, <1>9, <1>10, <1>11, <1>12, <1>14, <1>15, <1>16, <1>17
        DEF Next, ManagerStep, WorkerStep

\* ~Scheduler and stop(true): when every worker has left, the queue is empty and the
\* managing function has ended, although workers may leave while it still pushes.
THEOREM SchedulerDestructorDrains == Spec => []DestructorDrains
<1> DEFINE Inv == SchedInv /\ DrainInv
<1>1. Init => Inv
  BY SchedStart DEF Init, PoolInit, DrainInv
<1>2. Inv /\ [Next]_vars => Inv'
  BY SchedulerStep, DrainStep
<1>3. Inv => DestructorDrains
  <2> SUFFICES ASSUME Inv, AllGone PROVE q = <<>> /\ mgr = "ended"
    BY DEF DestructorDrains
  <2>1. q = <<>>
    BY DEF DrainInv
  <2>2. PICK w \in Workers : wk[w] = "gone"
    BY PoolAssumption DEF AllGone
  <2>3. main # "ctor"
    BY <2>2 DEF DrainInv
  <2>4. ~\E u \in Workers : RunsManager(u)
    BY DEF AllGone, RunsManager
  <2>5. ~\E i \in 1 .. Len(q) : q[i] = Manager
    BY <2>1
  <2> QED BY <2>1, <2>3, <2>4, <2>5 DEF DrainInv
<1> QED BY <1>1, <1>2, <1>3, PTL DEF Spec

-----------------------------------------------------------------------------
(* xy: the earliest task of the map.                                         *)

\* Every non-empty set of numbers has a least one.
LEMMA LeastNumber ==
    ASSUME NEW T, T \subseteq Nat, T # {}
    PROVE  \E m \in T : \A k \in T : m <= k
<1> DEFINE R == OpToRel(<, Nat)
<1>1. IsWellFoundedOn(R, Nat)
  BY NatLessThanWellFounded
<1>2. R = {ss \in Nat \X Nat : ss[1] < ss[2]}
  BY DEF OpToRel
<1> HIDE DEF R
<1>3. PICK m \in T : \A k \in T : ~(<<k, m>> \in R)
  BY <1>1, WFMin, Zenon
<1>4. ASSUME NEW k \in T  PROVE m <= k
  <2>1. ~(k < m)
    BY <1>2, <1>3
  <2> QED BY <2>1
<1> QED BY <1>4

\* The entry that the loop sleeps for is the earliest one.
LEMMA EarliestIs ==
    ASSUME NEW T, T # {}, \A e \in T : e.at \in Nat
    PROVE  Earliest(T) \in T /\ \A e \in T : Earliest(T).at <= e.at
<1> DEFINE A == {e.at : e \in T}
<1>1. A \subseteq Nat /\ A # {}
  OBVIOUS
<1>2. PICK a \in A : \A b \in A : a <= b
  <2> HIDE DEF A
  <2> QED BY <1>1, LeastNumber
<1>3. \E e \in T : \A f \in T : e.at <= f.at
  BY <1>2
<1> QED BY <1>3, Zenon DEF Earliest

-----------------------------------------------------------------------------
(* xy: the invariant.                                                        *)

Known == 1 .. Len(xyKind)
IsAt(kinds, id) == id \in 1 .. Len(kinds) /\ kinds[id] = "at"
Entries == mapTasks \cup emplacing

XyTypes == /\ xyKind \in Seq({"at", "every"}) /\ Len(xyKind) <= MaxXyTasks
           /\ xyNow \in Nat /\ until \in Nat
           /\ \A e \in Entries : e.at \in Nat /\ e.id \in Known
           /\ dues \subseteq mapTasks
           /\ queue \in Seq(Known \cup {SchedLoop})
           /\ job \in [XyThreads -> Known \cup {SchedLoop, NoXyJob}]
           /\ DOMAIN thr = XyThreads

\* A task that runs once is in one place.
XyOnePlace == /\ \A d, e \in Entries : d.id = e.id /\ IsAt(xyKind, e.id) => d = e
              /\ \A e \in Entries : IsAt(xyKind, e.id) => /\ \A k \in DOMAIN queue : queue[k] # e.id
                                                          /\ \A t \in XyThreads : job[t] # e.id
              /\ \A j, k \in DOMAIN queue : queue[j] = queue[k] /\ IsAt(xyKind, queue[k]) => j = k
              /\ \A k \in DOMAIN queue : IsAt(xyKind, queue[k]) => \A t \in XyThreads : job[t] # queue[k]
              /\ \A t, u \in XyThreads : job[t] = job[u] /\ IsAt(xyKind, job[u]) => t = u

\* From its look at the map on, the loop is to sleep until the first task, or the
\* interrupt is on.
SleepRight == /\ sched \in {"sleep", "asleep"} => interrupt \/ \A e \in mapTasks : until <= e.at
              /\ sched = "asleep" => ~interrupt

\* Whoever is in lb_schedule or in addTask is a thread that has not ended, or the owner.
InThreads == /\ sched \notin {"none", "ended"} =>
                    \E t \in XyThreads : job[t] = SchedLoop /\ thr[t] = "run"
             /\ emplacing # {} => user = "adding" \/ \E t \in XyThreads : thr[t] = "adding"
             /\ user = "destroyed" => \A t \in XyThreads : thr[t] = "gone"

\* mtx_: execNearestAndUpdate and addTask exclude each other.
PushAlone == sched = "push" => emplacing = {}

XyInv == XyTypes /\ XyOnePlace /\ SleepRight /\ InThreads /\ PushAlone

LEMMA XyInvInit == XyInit => XyInv
<1> SUFFICES ASSUME XyInit PROVE XyInv
  OBVIOUS
<1> USE DEF XyInit
<1>1. XyTypes
  <2>1. Len(xyKind) = 0 /\ xyKind \in Seq({"at", "every"}) /\ Len(xyKind) <= MaxXyTasks
    BY XyAssumption
  <2>2. until \in Nat
    BY XyAssumption DEF Forever
  <2>3. queue \in Seq(Known \cup {SchedLoop})
    OBVIOUS
  <2> QED BY <2>1, <2>2, <2>3 DEF XyTypes, Entries
<1>2. XyOnePlace
  <2>1. \A id : ~IsAt(xyKind, id)
    <3>1. 1 .. Len(xyKind) = {}
      OBVIOUS
    <3> QED BY <3>1 DEF IsAt
  <2> QED BY <2>1, Zenon DEF XyOnePlace
<1> QED BY <1>1, <1>2 DEF XyInv, SleepRight, InThreads, PushAlone

-----------------------------------------------------------------------------
(* xy: the sleep.                                                            *)

LEMMA SleepStep == ASSUME XyInv, [XyNext]_xyVars PROVE SleepRight'
<1>0. XyTypes /\ SleepRight
  BY DEF XyInv
<1>1. CASE SchedLook
  <2>1. PICK T \in {mapTasks, mapTasks \cup emplacing} :
            until' = IF T = {} THEN Forever ELSE Earliest(T).at
    BY <1>1 DEF SchedLook
  <2>2. mapTasks \subseteq T /\ \A e \in T : e.at \in Nat
    BY <1>0, <2>1 DEF XyTypes, Entries
  <2>3. \A e \in mapTasks : until' <= e.at
    BY <2>1, <2>2, EarliestIs
  <2>4. sched' = "sleep" /\ mapTasks' = mapTasks
    BY <1>1 DEF SchedLook
  <2> QED BY <2>3, <2>4 DEF SleepRight
<1>2. CASE SchedSleep
  BY <1>0, <1>2 DEF SchedSleep, SleepRight
<1>3. CASE SchedWakes
  BY <1>0, <1>3 DEF SchedWakes, SleepRight
<1>4. CASE SchedTest \/ Exec \/ ExecPush \/ ExecDone
  BY <1>4 DEF SchedTest, Exec, ExecPush, ExecDone, SleepRight
<1>5. CASE TaskAdded
  BY <1>0, <1>5 DEF TaskAdded, XyInterrupt, SleepRight
<1>6. CASE XyStops
  BY <1>0, <1>6 DEF XyStops, XyInterrupt, OnlyOwner, SleepRight
<1>7. ASSUME NEW t \in XyThreads, PopWait(t) PROVE SleepRight'
  <2>1. UNCHANGED <<mapTasks, until, interrupt>> /\ (sched' = sched \/ sched' = "test")
    BY <1>7 DEF PopWait, InSched
  <2> QED BY <1>0, <2>1 DEF SleepRight
<1>8. CASE UNCHANGED <<mapTasks, until, interrupt, sched>>
  BY <1>0, <1>8 DEF SleepRight
<1>9. ASSUME \/ AddTask \/ XyDtor \/ XyNotify \/ XyJoin \/ XyTick \/ UNCHANGED xyVars
             \/ \E t \in XyThreads : ThreadTest(t) \/ PopSleeps(t) \/ PopWakes(t) \/ JobDone(t)
      PROVE  UNCHANGED <<mapTasks, until, interrupt, sched>>
  BY <1>9 DEF AddTask, NewXyTask, XyDtor, XyNotify, XyJoin, OnlyOwner, XyTick, xyVars, ThreadTest,
              PopSleeps, PopWakes, JobDone, InSched
<1> QED BY <1>1, <1>2, <1>3, <1>4, <1>5, <1>6, <1>7, <1>8, <1>9, Zenon
        DEF XyNext, SchedStep, ThreadStep

-----------------------------------------------------------------------------
(* xy: who is in lb_schedule and in addTask.                                 *)

LEMMA ThreadsStep == ASSUME XyInv, [XyNext]_xyVars PROVE InThreads'
<1>0. /\ InThreads /\ DOMAIN thr = XyThreads /\ DOMAIN job = XyThreads
      /\ SchedLoop \notin XyTasks
  BY DEF XyInv, XyTypes, SchedLoop, XyTasks
<1>1. CASE AddTask
  BY <1>0, <1>1 DEF AddTask, NewXyTask, InThreads
<1>2. CASE TaskAdded
  <2>1. /\ emplacing' = {} /\ job' = job /\ (user' = "destroyed" => user = "destroyed")
        /\ (sched' \notin {"none", "ended"} => sched \notin {"none", "ended"})
        /\ \A t \in XyThreads : /\ thr[t] = "run" => thr'[t] = "run"
                                /\ thr[t] = "gone" => thr'[t] = "gone"
    BY <1>2 DEF TaskAdded, XyInterrupt
  <2> QED BY <1>0, <2>1 DEF InThreads
<1>3. CASE SchedTest \/ SchedLook \/ SchedSleep \/ SchedWakes \/ Exec \/ ExecDone
  <2>1. sched \notin {"none", "ended"} /\ UNCHANGED <<emplacing, job, thr, user>>
    BY <1>3 DEF SchedTest, SchedLook, SchedSleep, SchedWakes, Exec, ExecDone, InPool
  <2> QED BY <1>0, <2>1 DEF InThreads
<1>4. CASE ExecPush
  <2>1. UNCHANGED <<emplacing, job, user, sched>>
    BY <1>4 DEF ExecPush, InPool
  <2>2. \A t \in XyThreads : thr[t] \in {"run", "adding", "gone"} => thr'[t] = thr[t]
    BY <1>0, <1>4 DEF ExecPush
  <2> QED BY <1>0, <2>1, <2>2 DEF InThreads
<1>5. ASSUME NEW t \in XyThreads, ThreadTest(t) \/ PopSleeps(t) \/ PopWakes(t)
      PROVE  InThreads'
  <2>1. UNCHANGED <<emplacing, job, user, sched>>
    BY <1>5 DEF ThreadTest, PopSleeps, PopWakes, InSched
  <2>2. \A u \in XyThreads : thr[u] \in {"run", "adding", "gone"} => thr'[u] = thr[u]
    BY <1>0, <1>5 DEF ThreadTest, PopSleeps, PopWakes
  <2> QED BY <1>0, <2>1, <2>2 DEF InThreads
<1>6. ASSUME NEW t \in XyThreads, PopWait(t) PROVE InThreads'
  <2>1. UNCHANGED <<emplacing, user>>
    BY <1>6 DEF PopWait, InSched
  <2>2. /\ \A u \in XyThreads : thr[u] \in {"run", "adding", "gone"} => thr'[u] = thr[u]
        /\ \A u \in XyThreads : thr[u] = "run" => job'[u] = job[u]
    BY <1>0, <1>6 DEF PopWait
  <2>3. sched' = sched \/ (job'[t] = SchedLoop /\ thr'[t] = "run")
    BY <1>0, <1>6 DEF PopWait
  <2> QED BY <1>0, <2>1, <2>2, <2>3 DEF InThreads
<1>7. ASSUME NEW t \in XyThreads, JobDone(t) PROVE InThreads'
  <2>1. UNCHANGED <<emplacing, user, sched>> /\ thr[t] = "run" /\ (job[t] = SchedLoop => sched = "ended")
    BY <1>7 DEF JobDone, InSched
  <2>2. \A u \in XyThreads : u # t => thr'[u] = thr[u] /\ job'[u] = job[u]
    BY <1>0, <1>7 DEF JobDone
  <2>3. \A u \in XyThreads : thr[u] \in {"adding", "gone"} => thr'[u] = thr[u]
    BY <2>1, <2>2
  <2> QED BY <1>0, <2>1, <2>2, <2>3 DEF InThreads
<1>8. CASE XyDtor \/ XyStops
  <2>1. /\ UNCHANGED <<emplacing, thr, job>> /\ user' # "destroyed" /\ user # "adding"
        /\ (sched' \notin {"none", "ended"} => sched \notin {"none", "ended"})
    BY <1>8 DEF XyDtor, XyStops, XyInterrupt, OnlyOwner
  <2> QED BY <1>0, <2>1 DEF InThreads
<1>9. CASE XyNotify
  <2>1. UNCHANGED <<emplacing, job, sched>> /\ user' # "destroyed" /\ user # "adding"
    BY <1>9 DEF XyNotify, OnlyOwner
  <2>2. \A t \in XyThreads : thr[t] \in {"run", "adding"} => thr'[t] = thr[t]
    BY <1>9 DEF XyNotify
  <2> QED BY <1>0, <2>1, <2>2 DEF InThreads
<1>10. CASE XyJoin
  BY <1>0, <1>10 DEF XyJoin, OnlyOwner, InThreads
<1>11. CASE XyTick \/ UNCHANGED xyVars
  BY <1>0, <1>11 DEF XyTick, xyVars, poolXy, InThreads
<1> QED BY <1>1, <1>2, <1>3, <1>4, <1>5, <1>6, <1>7, <1>8, <1>9, <1>10, <1>11, Zenon
        DEF XyNext, SchedStep, ThreadStep

-----------------------------------------------------------------------------
(* xy: where the tasks are.                                                  *)

\* runAfter, runAt and runEvery make a task of a new number.
LEMMA XyTaskIsNew ==
    ASSUME XyInv, NewXyTask
    PROVE  /\ emplacing = {} /\ UNCHANGED <<mapTasks, queue, job, xyNow, until, dues>>
           /\ Len(xyKind) \in Nat /\ Len(xyKind) < MaxXyTasks
           /\ xyKind' \in Seq({"at", "every"}) /\ Len(xyKind') = Len(xyKind) + 1
           /\ \A id \in Known : xyKind'[id] = xyKind[id]
           /\ \E t \in Nat : emplacing' = {EntryAt(t, Len(xyKind) + 1)}
<1>1. XyTypes
  BY DEF XyInv
<1>2. Len(xyKind) \in Nat /\ Len(xyKind) < MaxXyTasks
  BY <1>1 DEF XyTypes, NewXyTask
<1>3. PICK x \in {"at", "every"} : xyKind' = Append(xyKind, x)
  BY DEF NewXyTask
<1>4. /\ xyKind' \in Seq({"at", "every"}) /\ Len(xyKind') = Len(xyKind) + 1
      /\ \A id \in Known : xyKind'[id] = xyKind[id]
  BY <1>1, <1>3 DEF XyTypes, Known
<1>5. \E t \in Nat : emplacing' = {EntryAt(t, Len(xyKind'))}
  <2>1. \A d \in XyDelays : xyNow + d \in Nat
    BY <1>1, XyAssumption DEF XyTypes
  <2>2. xyNow + XyEvery \in Nat
    BY <1>1, XyAssumption DEF XyTypes
  <2> QED BY <2>1, <2>2, Zenon DEF NewXyTask
<1> QED BY <1>2, <1>4, <1>5 DEF NewXyTask, Mtx

LEMMA NewTaskTypes == ASSUME XyInv, NewXyTask, DOMAIN thr' = XyThreads PROVE XyTypes'
<1>1. /\ emplacing = {} /\ UNCHANGED <<mapTasks, queue, job, xyNow, until, dues>>
      /\ Len(xyKind) \in Nat /\ Len(xyKind) < MaxXyTasks
      /\ xyKind' \in Seq({"at", "every"}) /\ Len(xyKind') = Len(xyKind) + 1
  BY XyTaskIsNew
<1>2. PICK t \in Nat : emplacing' = {EntryAt(t, Len(xyKind) + 1)}
  BY XyTaskIsNew
<1>3. XyTypes
  BY DEF XyInv
<1>4. Known \subseteq Known' /\ Len(xyKind) + 1 \in Known'
  BY <1>1 DEF Known
<1>5. \A e \in Entries' : e.at \in Nat /\ e.id \in Known'
  <2>1. \A e \in mapTasks : e.at \in Nat /\ e.id \in Known'
    BY <1>3, <1>4 DEF XyTypes, Entries
  <2>2. EntryAt(t, Len(xyKind) + 1).at = t /\ EntryAt(t, Len(xyKind) + 1).id = Len(xyKind) + 1
    BY DEF EntryAt
  <2> QED BY <1>1, <1>2, <1>4, <2>1, <2>2 DEF Entries
<1>6. queue' \in Seq((Known \cup {SchedLoop})')
  <2>1. queue \in Seq(Known \cup {SchedLoop})
    BY <1>3 DEF XyTypes
  <2>2. SchedLoop' = SchedLoop
    BY DEF SchedLoop
  <2> QED BY <1>1, <1>4, <2>1, <2>2
<1>7. job' \in [XyThreads -> (Known \cup {SchedLoop, NoXyJob})']
  <2>1. job \in [XyThreads -> Known \cup {SchedLoop, NoXyJob}]
    BY <1>3 DEF XyTypes
  <2>2. SchedLoop' = SchedLoop /\ NoXyJob' = NoXyJob
    BY DEF SchedLoop, NoXyJob
  <2> QED BY <1>1, <1>4, <2>1, <2>2
<1>8. /\ Len(xyKind') <= MaxXyTasks
  BY <1>1, XyAssumption
<1> QED BY <1>1, <1>3, <1>5, <1>6, <1>7, <1>8 DEF XyTypes

LEMMA NewTaskPlace == ASSUME XyInv, NewXyTask PROVE XyOnePlace'
<1> DEFINE N == Len(xyKind) + 1
<1>1. /\ emplacing = {} /\ UNCHANGED <<mapTasks, queue, job>>
      /\ Len(xyKind) \in Nat /\ Len(xyKind) < MaxXyTasks /\ Len(xyKind') = N
      /\ \A id \in Known : xyKind'[id] = xyKind[id]
  BY XyTaskIsNew
<1>2. PICK t \in Nat : emplacing' = {EntryAt(t, N)}
  BY XyTaskIsNew
<1>3. XyTypes /\ XyOnePlace
  BY DEF XyInv
<1>4. N \notin Known /\ N # SchedLoop /\ N # NoXyJob /\ Known' = Known \cup {N}
  BY <1>1, XyAssumption DEF Known, SchedLoop, NoXyJob
<1>5. \A id \in Known : IsAt(xyKind', id) <=> IsAt(xyKind, id)
  BY <1>1, <1>4 DEF IsAt, Known
<1>6. \A id : id # N /\ IsAt(xyKind', id) => IsAt(xyKind, id)
  BY <1>4, <1>5 DEF IsAt, Known
<1>7. /\ \A e \in mapTasks : e.id # N
      /\ \A k \in DOMAIN queue : queue[k] # N
      /\ \A u \in XyThreads : job[u] # N
  <2>1. \A e \in mapTasks : e.id # N
    BY <1>3, <1>4 DEF XyTypes, Entries
  <2>2. \A k \in DOMAIN queue : queue[k] \in Known \cup {SchedLoop}
    BY <1>3 DEF XyTypes
  <2>3. \A u \in XyThreads : job[u] \in Known \cup {SchedLoop, NoXyJob}
    BY <1>3 DEF XyTypes
  <2> HIDE DEF N
  <2> QED BY <1>4, <2>1, <2>2, <2>3
<1>8. \A e \in Entries' : e \in mapTasks \/ (e = EntryAt(t, N) /\ e.id = N)
  BY <1>1, <1>2 DEF Entries, EntryAt
<1>9. mapTasks \subseteq Entries
  BY DEF Entries
<1> HIDE DEF N
<1>10. \A d, e \in Entries' : d.id = e.id /\ IsAt(xyKind', e.id) => d = e
  <2> SUFFICES ASSUME NEW d \in Entries', NEW e \in Entries', d.id = e.id, IsAt(xyKind', e.id)
               PROVE  d = e
    OBVIOUS
  <2>1. CASE e.id = N
    BY <1>7, <1>8, <2>1
  <2>2. CASE e.id # N
    <3>1. d \in Entries /\ e \in Entries /\ IsAt(xyKind, e.id)
      BY <1>6, <1>8, <1>9, <2>2
    <3> QED BY <1>3, <3>1 DEF XyOnePlace
  <2> QED BY <2>1, <2>2
<1>11. \A e \in Entries' : IsAt(xyKind', e.id) => /\ \A k \in DOMAIN queue : queue[k] # e.id
                                          /\ \A u \in XyThreads : job[u] # e.id
  <2> SUFFICES ASSUME NEW e \in Entries', IsAt(xyKind', e.id)
               PROVE  /\ \A k \in DOMAIN queue : queue[k] # e.id
                      /\ \A u \in XyThreads : job[u] # e.id
    OBVIOUS
  <2>1. CASE e.id = N
    BY <1>7, <2>1
  <2>2. CASE e.id # N
    <3>1. e \in Entries /\ IsAt(xyKind, e.id)
      BY <1>6, <1>8, <1>9, <2>2
    <3> QED BY <1>3, <3>1 DEF XyOnePlace
  <2> QED BY <2>1, <2>2
<1>12. /\ \A j, k \in DOMAIN queue : queue[j] = queue[k] /\ IsAt(xyKind', queue[k]) => j = k
       /\ \A k \in DOMAIN queue : IsAt(xyKind', queue[k]) => \A u \in XyThreads : job[u] # queue[k]
       /\ \A v, u \in XyThreads : job[v] = job[u] /\ IsAt(xyKind', job[u]) => v = u
  BY <1>3, <1>6, <1>7, Zenon DEF XyOnePlace
<1> QED BY <1>1, <1>10, <1>11, <1>12 DEF XyOnePlace

\* execNearestAndUpdate moves a due task from the map to the queue.
LEMMA PushStep == ASSUME XyInv, ExecPush PROVE XyTypes' /\ XyOnePlace'
<1>1. XyTypes /\ XyOnePlace
  BY DEF XyInv
<1>2. PICK e \in dues : /\ queue' = Append(queue, e.id) /\ dues' = dues \ {e}
                        /\ mapTasks' = Requeued(e)
  BY DEF ExecPush
<1>3. UNCHANGED <<emplacing, xyKind, job, xyNow, until>>
  BY DEF ExecPush, InPool
<1>4. e \in mapTasks /\ e \in Entries /\ e.id \in Known /\ e.at \in Nat
  BY <1>1 DEF XyTypes, Entries
<1> DEFINE again == EntryAt(xyNow + XyEvery, e.id)
           L == Len(queue)
<1>5. again.id = e.id /\ again.at = xyNow + XyEvery /\ xyNow + XyEvery \in Nat
  BY <1>1, XyAssumption DEF EntryAt, XyTypes
<1>6. \A d \in Entries' : d \in Entries \/ (d = again /\ xyKind[e.id] = "every")
  BY <1>2, <1>3 DEF Entries, Requeued
<1> HIDE DEF again
<1>7. queue \in Seq(Known \cup {SchedLoop}) /\ DOMAIN queue = 1 .. L /\ L \in Nat
  BY <1>1 DEF XyTypes
<1>8. /\ queue' \in Seq(Known \cup {SchedLoop}) /\ DOMAIN queue' = 1 .. L + 1
      /\ queue'[L + 1] = e.id /\ \A k \in 1 .. L : queue'[k] = queue[k]
  <2>1. e.id \in Known \cup {SchedLoop}
    BY <1>4
  <2> QED BY <1>2, <1>7, <2>1
<1>9. \A k \in 1 .. L + 1 : k \in 1 .. L \/ k = L + 1
  BY <1>7
<1> HIDE DEF L
<1>10. XyTypes'
  <2>1. Known' = Known
    BY <1>3 DEF Known
  <2>2. \A d \in Entries' : d.at \in Nat /\ d.id \in Known
    BY <1>1, <1>4, <1>5, <1>6 DEF XyTypes
  <2>3. dues' \subseteq mapTasks'
    BY <1>1, <1>2 DEF XyTypes, Requeued
  <2>4. DOMAIN thr' = XyThreads
    BY <1>1 DEF ExecPush, XyTypes
  <2>5. SchedLoop' = SchedLoop /\ NoXyJob' = NoXyJob
    BY DEF SchedLoop, NoXyJob
  <2> QED BY <1>1, <1>3, <1>8, <2>1, <2>2, <2>3, <2>4, <2>5 DEF XyTypes
<1>11. CASE ~IsAt(xyKind, e.id)
  <2>1. \A d \in Entries' : IsAt(xyKind, d.id) => d \in Entries
    BY <1>5, <1>6, <1>11, Zenon
  <2>2. \A d, c \in Entries' : d.id = c.id /\ IsAt(xyKind, c.id) => d = c
    BY <1>1, <2>1 DEF XyOnePlace
  <2>3. \A d \in Entries' : IsAt(xyKind, d.id) => /\ \A k \in DOMAIN queue' : queue'[k] # d.id
                                                  /\ \A t \in XyThreads : job[t] # d.id
    BY <1>1, <1>7, <1>8, <1>9, <1>11, <2>1, Zenon DEF XyOnePlace
  <2>4. /\ \A j, k \in DOMAIN queue' : queue'[j] = queue'[k] /\ IsAt(xyKind, queue'[k]) => j = k
        /\ \A k \in DOMAIN queue' :
               IsAt(xyKind, queue'[k]) => \A t \in XyThreads : job[t] # queue'[k]
    BY <1>1, <1>7, <1>8, <1>9, <1>11 DEF XyOnePlace
  <2>5. \A t, u \in XyThreads : job[t] = job[u] /\ IsAt(xyKind, job[u]) => t = u
    BY <1>1 DEF XyOnePlace
  <2> QED BY <1>3, <1>10, <2>2, <2>3, <2>4, <2>5 DEF XyOnePlace
<1>12. CASE IsAt(xyKind, e.id)
  <2>0. xyKind[e.id] # "every"
    BY <1>12 DEF IsAt
  <2>2. \A d \in Entries' : d \in Entries
    BY <1>6, <2>0
  <2>3. \A k \in 1 .. L : queue[k] # e.id
    BY <1>1, <1>4, <1>7, <1>12 DEF XyOnePlace
  <2>4. \A t \in XyThreads : job[t] # e.id
    BY <1>1, <1>4, <1>12 DEF XyOnePlace
  <2>5. \A d \in Entries' : d.id # e.id
    <3>1. emplacing = {}
      BY DEF XyInv, ExecPush, PushAlone
    <3>2. e \notin Entries'
      BY <1>2, <1>3, <2>0, <3>1 DEF Entries, Requeued
    <3> QED BY <1>1, <1>4, <1>12, <2>2, <3>2 DEF XyOnePlace
  <2>6. \A d, c \in Entries' : d.id = c.id /\ IsAt(xyKind, c.id) => d = c
    BY <1>1, <2>2 DEF XyOnePlace
  <2>7. \A d \in Entries' : IsAt(xyKind, d.id) => /\ \A k \in DOMAIN queue' : queue'[k] # d.id
                                                  /\ \A t \in XyThreads : job[t] # d.id
    BY <1>1, <1>7, <1>8, <1>9, <2>2, <2>5, Zenon DEF XyOnePlace
  <2>8. /\ \A j, k \in DOMAIN queue' : queue'[j] = queue'[k] /\ IsAt(xyKind, queue'[k]) => j = k
        /\ \A k \in DOMAIN queue' :
               IsAt(xyKind, queue'[k]) => \A t \in XyThreads : job[t] # queue'[k]
    BY <1>1, <1>7, <1>8, <1>9, <2>3, <2>4 DEF XyOnePlace
  <2>9. \A t, u \in XyThreads : job[t] = job[u] /\ IsAt(xyKind, job[u]) => t = u
    BY <1>1 DEF XyOnePlace
  <2> QED BY <1>3, <1>10, <2>6, <2>7, <2>8, <2>9 DEF XyOnePlace
<1> QED BY <1>10, <1>11, <1>12

\* A thread takes the first task of the queue.
LEMMA PopStep == ASSUME XyInv, NEW t \in XyThreads, PopWait(t) PROVE XyTypes' /\ XyOnePlace'
<1>1. XyTypes /\ XyOnePlace
  BY DEF XyInv
<1>2. UNCHANGED <<mapTasks, emplacing, xyKind, dues, xyNow, until>>
  BY DEF PopWait, InSched
<1>3. DOMAIN thr' = XyThreads
  BY <1>1 DEF PopWait, XyTypes
<1>4. Known' = Known /\ Entries' = Entries /\ SchedLoop' = SchedLoop /\ NoXyJob' = NoXyJob
  BY <1>2 DEF Known, Entries, SchedLoop, NoXyJob
<1>5. CASE queue = <<>>
  <2>1. queue' = queue /\ job' = job
    BY <1>5 DEF PopWait
  <2>2. XyTypes'
    BY <1>1, <1>2, <1>3, <1>4, <2>1 DEF XyTypes
  <2>3. XyOnePlace'
    BY <1>1, <1>2, <1>4, <2>1 DEF XyOnePlace
  <2> QED BY <2>2, <2>3
<1>6. CASE queue # <<>>
  <2> DEFINE h == Head(queue)
             L == Len(queue)
  <2>1. queue' = Tail(queue) /\ job' = [job EXCEPT ![t] = h]
    BY <1>6 DEF PopWait
  <2>2. queue \in Seq(Known \cup {SchedLoop}) /\ job \in [XyThreads -> Known \cup {SchedLoop, NoXyJob}]
    BY <1>1 DEF XyTypes
  <2>3. /\ L \in Nat \ {0} /\ DOMAIN queue = 1 .. L /\ h = queue[1] /\ h \in Known \cup {SchedLoop}
        /\ queue' \in Seq(Known \cup {SchedLoop}) /\ DOMAIN queue' = 1 .. L - 1
        /\ \A k \in 1 .. L - 1 : queue'[k] = queue[k + 1]
    BY <1>6, <2>1, <2>2
  <2> HIDE DEF h, L
  <2>4. job' \in [XyThreads -> Known \cup {SchedLoop, NoXyJob}]
    BY <2>1, <2>2, <2>3
  <2>5. job'[t] = h /\ \A u \in XyThreads : u # t => job'[u] = job[u]
    BY <2>1, <2>2
  <2>6. /\ 1 \in 1 .. L
        /\ \A k \in 1 .. L - 1 : k \in Nat /\ k + 1 \in 1 .. L /\ k + 1 # 1
        /\ \A j, k \in 1 .. L - 1 : j + 1 = k + 1 => j = k
    BY <2>3
  <2>7. XyTypes'
    BY <1>1, <1>2, <1>3, <1>4, <2>3, <2>4 DEF XyTypes
  <2>8. \A e \in Entries : IsAt(xyKind, e.id) => /\ \A k \in DOMAIN queue' : queue'[k] # e.id
                                                 /\ \A u \in XyThreads : job'[u] # e.id
    <3> SUFFICES ASSUME NEW e \in Entries, IsAt(xyKind, e.id)
                 PROVE  /\ \A k \in DOMAIN queue' : queue'[k] # e.id
                        /\ \A u \in XyThreads : job'[u] # e.id
      OBVIOUS
    <3>1. (\A k \in 1 .. L : queue[k] # e.id) /\ \A u \in XyThreads : job[u] # e.id
      BY <1>1, <2>3, Zenon DEF XyOnePlace
    <3>2. \A k \in DOMAIN queue' : queue'[k] # e.id
      BY <2>3, <2>6, <3>1, Zenon
    <3>3. \A u \in XyThreads : job'[u] # e.id
      BY <2>3, <2>5, <2>6, <3>1, Zenon
    <3> QED BY <3>2, <3>3
  <2>9. \A j, k \in DOMAIN queue' : queue'[j] = queue'[k] /\ IsAt(xyKind, queue'[k]) => j = k
    <3> SUFFICES ASSUME NEW j \in 1 .. L - 1, NEW k \in 1 .. L - 1,
                        queue'[j] = queue'[k], IsAt(xyKind, queue'[k])
                 PROVE  j = k
      BY <2>3
    <3>1. queue[j + 1] = queue[k + 1] /\ IsAt(xyKind, queue[k + 1])
      BY <2>3, Zenon
    <3>2. j + 1 = k + 1
      BY <1>1, <2>3, <2>6, <3>1, Zenon DEF XyOnePlace
    <3> QED BY <2>6, <3>2, Zenon
  <2>10. \A k \in DOMAIN queue' :
             IsAt(xyKind, queue'[k]) => \A u \in XyThreads : job'[u] # queue'[k]
    <3> SUFFICES ASSUME NEW k \in 1 .. L - 1, IsAt(xyKind, queue'[k]), NEW u \in XyThreads
                 PROVE  job'[u] # queue'[k]
      BY <2>3
    <3>1. queue'[k] = queue[k + 1] /\ k + 1 \in 1 .. L /\ k + 1 # 1
      BY <2>3, <2>6, Zenon
    <3>2. job[u] # queue[k + 1]
      BY <1>1, <2>3, <3>1, Zenon DEF XyOnePlace
    <3>3. h # queue[k + 1]
      BY <1>1, <2>3, <2>6, <3>1, Zenon DEF XyOnePlace
    <3> QED BY <2>5, <3>1, <3>2, <3>3, Zenon
  <2>11. \A v, u \in XyThreads : job'[v] = job'[u] /\ IsAt(xyKind, job'[u]) => v = u
    <3>1. IsAt(xyKind, h) => \A u \in XyThreads : job[u] # h
      BY <1>1, <2>3, <2>6, Zenon DEF XyOnePlace
    <3> QED BY <1>1, <2>5, <3>1, Zenon DEF XyOnePlace
  <2>12. XyOnePlace'
    BY <1>1, <1>2, <1>4, <2>8, <2>9, <2>10, <2>11 DEF XyOnePlace
  <2> QED BY <2>7, <2>12
<1> QED BY <1>5, <1>6

\* A task's function has returned.
LEMMA DoneStep == ASSUME XyInv, NEW t \in XyThreads, JobDone(t) PROVE XyTypes' /\ XyOnePlace'
<1>1. XyTypes /\ XyOnePlace
  BY DEF XyInv
<1>2. /\ UNCHANGED <<mapTasks, emplacing, xyKind, dues, xyNow, until, queue>>
      /\ job' = [job EXCEPT ![t] = NoXyJob]
  BY DEF JobDone, InSched
<1>3. DOMAIN thr' = XyThreads
  BY <1>1 DEF JobDone, XyTypes
<1>4. Known' = Known /\ Entries' = Entries /\ SchedLoop' = SchedLoop /\ NoXyJob' = NoXyJob
  BY <1>2 DEF Known, Entries, SchedLoop, NoXyJob
<1>5. /\ job' \in [XyThreads -> Known \cup {SchedLoop, NoXyJob}] /\ job'[t] = NoXyJob
      /\ \A u \in XyThreads : u # t => job'[u] = job[u]
  BY <1>1, <1>2 DEF XyTypes
<1>6. XyTypes'
  BY <1>1, <1>2, <1>3, <1>4, <1>5 DEF XyTypes
<1>7. \A id : IsAt(xyKind, id) => id # NoXyJob
  <2>1. Len(xyKind) \in Nat /\ Len(xyKind) <= MaxXyTasks /\ MaxXyTasks \in Nat
    BY <1>1, XyAssumption DEF XyTypes
  <2> QED BY <2>1 DEF IsAt, NoXyJob
<1>8. \A e \in Entries : IsAt(xyKind, e.id) => \A u \in XyThreads : job'[u] # e.id
  BY <1>1, <1>5, <1>7, Zenon DEF XyOnePlace
<1>9. \A k \in DOMAIN queue : IsAt(xyKind, queue[k]) => \A u \in XyThreads : job'[u] # queue[k]
  BY <1>1, <1>5, <1>7, Zenon DEF XyOnePlace
<1>10. \A v, u \in XyThreads : job'[v] = job'[u] /\ IsAt(xyKind, job'[u]) => v = u
  BY <1>1, <1>5, <1>7, Zenon DEF XyOnePlace
<1>11. XyOnePlace'
  BY <1>1, <1>2, <1>4, <1>8, <1>9, <1>10 DEF XyOnePlace
<1> QED BY <1>6, <1>11

\* The other steps leave the tasks where they are, but for addTask's end, which only
\* moves an entry into the map.
LEMMA PlaceStep == ASSUME XyInv, [XyNext]_xyVars PROVE XyTypes' /\ XyOnePlace'
<1>0. XyTypes /\ XyOnePlace
  BY DEF XyInv
<1>1. CASE AddTask
  <2>1. NewXyTask /\ DOMAIN thr' = XyThreads
    BY <1>0, <1>1 DEF AddTask, XyTypes
  <2> QED BY <2>1, NewTaskTypes, NewTaskPlace
<1>2. CASE ExecPush
  BY <1>2, PushStep
<1>3. ASSUME NEW t \in XyThreads, PopWait(t) PROVE XyTypes' /\ XyOnePlace'
  BY <1>3, PopStep
<1>4. ASSUME NEW t \in XyThreads, JobDone(t) PROVE XyTypes' /\ XyOnePlace'
  BY <1>4, DoneStep
<1>5. ASSUME /\ Entries' = Entries /\ UNCHANGED <<xyKind, queue, job>> /\ DOMAIN thr' = XyThreads
             /\ xyNow' \in Nat /\ until' \in Nat /\ dues' \subseteq mapTasks'
      PROVE  XyTypes' /\ XyOnePlace'
  <2>1. Known' = Known /\ SchedLoop' = SchedLoop /\ NoXyJob' = NoXyJob
    BY <1>5 DEF Known, SchedLoop, NoXyJob
  <2>2. XyTypes'
    BY <1>0, <1>5, <2>1 DEF XyTypes
  <2>3. XyOnePlace'
    BY <1>0, <1>5 DEF XyOnePlace
  <2> QED BY <2>2, <2>3
<1>6. CASE TaskAdded
  <2>1. Entries' = Entries
    BY <1>6 DEF TaskAdded, Entries
  <2>2. dues' \subseteq mapTasks'
    BY <1>0, <1>6 DEF TaskAdded, XyTypes
  <2> QED BY <1>0, <1>5, <1>6, <2>1, <2>2 DEF TaskAdded, XyTypes
<1>7. CASE SchedLook
  <2>1. PICK T \in {mapTasks, mapTasks \cup emplacing} :
            until' = IF T = {} THEN Forever ELSE Earliest(T).at
    BY <1>7 DEF SchedLook
  <2>2. \A e \in T : e.at \in Nat
    BY <1>0, <2>1 DEF XyTypes, Entries
  <2>3. Forever \in Nat
    BY XyAssumption DEF Forever
  <2>4. until' \in Nat
    BY <2>1, <2>2, <2>3, EarliestIs
  <2>5. UNCHANGED <<mapTasks, emplacing, xyKind, queue, job, thr, xyNow, dues>>
    BY <1>7 DEF SchedLook, InPool
  <2> QED BY <1>0, <1>5, <2>4, <2>5 DEF XyTypes, Entries
<1>8. CASE SchedSleep
  <2>1. until' \in Nat
    BY <1>0, <1>8, XyAssumption DEF SchedSleep, Forever, XyTypes
  <2>2. UNCHANGED <<mapTasks, emplacing, xyKind, queue, job, thr, xyNow, dues>>
    BY <1>8 DEF SchedSleep, InPool
  <2> QED BY <1>0, <1>5, <2>1, <2>2 DEF XyTypes, Entries
<1>9. CASE SchedTest \/ SchedWakes \/ Exec \/ ExecDone
  <2>1. UNCHANGED <<mapTasks, emplacing, xyKind, queue, job, thr, xyNow, until>>
    BY <1>9 DEF SchedTest, SchedWakes, Exec, ExecDone, InPool
  <2>2. dues' \subseteq mapTasks
    BY <1>0, <1>9 DEF SchedTest, SchedWakes, Exec, ExecDone, XyTypes
  <2> QED BY <1>0, <1>5, <2>1, <2>2 DEF XyTypes, Entries
<1>10. ASSUME NEW t \in XyThreads, ThreadTest(t) \/ PopSleeps(t) \/ PopWakes(t)
       PROVE  XyTypes' /\ XyOnePlace'
  <2>1. UNCHANGED <<mapTasks, emplacing, xyKind, queue, job, xyNow, until, dues>>
    BY <1>10 DEF ThreadTest, PopSleeps, PopWakes, InSched
  <2>2. DOMAIN thr' = XyThreads
    BY <1>0, <1>10 DEF ThreadTest, PopSleeps, PopWakes, XyTypes
  <2> QED BY <1>0, <1>5, <2>1, <2>2 DEF XyTypes, Entries
<1>11. CASE XyDtor \/ XyStops \/ XyNotify \/ XyJoin
  <2>1. UNCHANGED <<mapTasks, emplacing, xyKind, queue, job, xyNow, until, dues>>
    BY <1>11 DEF XyDtor, XyStops, XyNotify, XyJoin, OnlyOwner
  <2>2. DOMAIN thr' = XyThreads
    BY <1>0, <1>11 DEF XyDtor, XyStops, XyNotify, XyJoin, XyTypes
  <2> QED BY <1>0, <1>5, <2>1, <2>2 DEF XyTypes, Entries
<1>12. CASE XyTick \/ UNCHANGED xyVars
  <2>1. UNCHANGED <<mapTasks, emplacing, xyKind, queue, job, thr, until, dues>>
    BY <1>12 DEF XyTick, xyVars, poolXy
  <2>2. xyNow' \in Nat
    BY <1>0, <1>12 DEF XyTick, xyVars, XyTypes
  <2> QED BY <1>0, <1>5, <2>1, <2>2 DEF XyTypes, Entries
<1> QED BY <1>1, <1>2, <1>3, <1>4, <1>6, <1>7, <1>8, <1>9, <1>10, <1>11, <1>12, Zenon
        DEF XyNext, SchedStep, ThreadStep

LEMMA AloneStep == ASSUME XyInv, [XyNext]_xyVars PROVE PushAlone'
<1>0. PushAlone
  BY DEF XyInv
<1>1. CASE AddTask \/ TaskAdded
  BY <1>0, <1>1 DEF AddTask, NewXyTask, Mtx, TaskAdded, PushAlone
<1>2. CASE SchedStep \/ SchedWakes
  BY <1>0, <1>2 DEF SchedStep, SchedTest, SchedLook, SchedSleep, Exec, Mtx, ExecPush, ExecDone,
                    SchedWakes, InPool, PushAlone
<1>3. ASSUME NEW t \in XyThreads, ThreadStep(t) \/ PopWakes(t) PROVE PushAlone'
  <2>1. emplacing' = emplacing /\ (sched' = sched \/ sched' = "test")
    BY <1>3 DEF ThreadStep, ThreadTest, PopWait, PopSleeps, JobDone, PopWakes, InSched
  <2> QED BY <1>0, <2>1 DEF PushAlone
<1>4. CASE XyDtor \/ XyStops \/ XyNotify \/ XyJoin
  BY <1>0, <1>4 DEF XyDtor, XyStops, XyNotify, XyJoin, XyInterrupt, OnlyOwner, PushAlone
<1>5. CASE XyTick \/ UNCHANGED xyVars
  BY <1>0, <1>5 DEF XyTick, xyVars, PushAlone
<1> QED BY <1>1, <1>2, <1>3, <1>4, <1>5, Zenon DEF XyNext

-----------------------------------------------------------------------------
(* xy: the theorems.                                                         *)

\* The inductive invariant of xy's scheduler.
THEOREM XyInvariant == XySpec => []XyInv
<1>1. XyInv /\ [XyNext]_xyVars => XyInv'
  BY SleepStep, ThreadsStep, PlaceStep, AloneStep, Zenon DEF XyInv
<1> QED BY <1>1, XyInvInit, PTL DEF XySpec

\* lb_schedule never sleeps past a task, though it looks at the map without mtx_.
THEOREM XySleepCoversTasks == XySpec => []SleepCoversTasks
<1>1. XyInv => SleepCoversTasks
  BY DEF XyInv, SleepRight, SleepCoversTasks
<1> QED BY <1>1, XyInvariant, PTL

\* A set in which all elements are equal has at most one.
LEMMA AtMostOne ==
    ASSUME NEW S, \A x, y \in S : x = y
    PROVE  Cardinality(S) = IF S = {} THEN 0 ELSE 1
<1>1. CASE S = {}
  BY <1>1, FS_EmptySet
<1>2. CASE S # {}
  <2>1. PICK x : x \in S
    BY <1>2
  <2>2. S = {x}
    BY <2>1
  <2> QED BY <1>2, <2>2, FS_Singleton
<1> QED BY <1>1, <1>2

\* A task of runAfter or runAt is in the map, in the queue or in one thread, and once.
THEOREM XyRunsOnceHolds == XySpec => []XyRunsOnce
<1>1. XyInv => XyRunsOnce
  <2> SUFFICES ASSUME XyInv, NEW id \in XyTasks, xyKind[id] = "at"
               PROVE  Cardinality({e \in mapTasks \cup emplacing : e.id = id})
                          + Cardinality({k \in DOMAIN queue : queue[k] = id})
                          + Cardinality({t \in XyThreads : job[t] = id}) <= 1
    BY DEF XyRunsOnce
  <2> DEFINE A == {e \in mapTasks \cup emplacing : e.id = id}
             B == {k \in DOMAIN queue : queue[k] = id}
             C == {t \in XyThreads : job[t] = id}
  <2>1. IsAt(xyKind, id) /\ XyOnePlace
    BY DEF XyInv, XyTypes, XyTasks, IsAt
  <2>2. \A x, y \in A : x = y
    BY <2>1 DEF XyOnePlace, Entries
  <2>3. (\A x, y \in B : x = y) /\ (\A x, y \in C : x = y)
    BY <2>1 DEF XyOnePlace
  <2>4. A # {} => B = {} /\ C = {}
    BY <2>1 DEF XyOnePlace, Entries
  <2>5. B # {} => C = {}
    BY <2>1 DEF XyOnePlace
  <2> HIDE DEF A, B, C
  <2>6. /\ Cardinality(A) = IF A = {} THEN 0 ELSE 1
        /\ Cardinality(B) = IF B = {} THEN 0 ELSE 1
        /\ Cardinality(C) = IF C = {} THEN 0 ELSE 1
    BY <2>2, <2>3, AtMostOne
  <2>7. Cardinality(A) + Cardinality(B) + Cardinality(C) <= 1
    BY <2>4, <2>5, <2>6
  <2> QED BY <2>7 DEF A, B, C
<1> QED BY <1>1, XyInvariant, PTL

\* When the destructor has returned, no thread is in lb_schedule or in addTask.
THEOREM XyQuietAtEndHolds == XySpec => []XyQuietAtEnd
<1>1. XyInv => XyQuietAtEnd
  BY DEF XyInv, InThreads, XyQuietAtEnd
<1> QED BY <1>1, XyInvariant, PTL
=============================================================================
