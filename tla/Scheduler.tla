----------------------------- MODULE Scheduler -----------------------------
(***************************************************************************)
(* scheduler/Scheduler.h, scheduler/InterruptableSleep.h: tasks ordered by *)
(* time, a managing function that runs on a thread of the pool, sleeps     *)
(* until the first task is due and hands what is due to the pool, and the  *)
(* threads that add tasks: the program's, and the tasks themselves.        *)
(*                                                                         *)
(* The managing function looks at the map without the lock: while a task   *)
(* is being inserted it sees the map without it or with it.  The flag of   *)
(* the sleep only changes under the mutex of the sleep, so a test of it    *)
(* and the sleep that follows are one step.                                *)
(***************************************************************************)
EXTENDS CtplPool, FiniteSets

CONSTANTS Main,      \* the thread that owns the scheduler
          Delays,    \* in() is called with now + one of these
          Period,    \* of every() and interval()
          MaxTasks,  \* bound: tasks created
          MaxTime    \* bound: the last instant

ASSUME SchedulerAssumption == /\ Main \notin Workers \cup {Free}
                              /\ Delays \subseteq Nat /\ Period \in Nat \ {0}
                              /\ MaxTasks \in Nat /\ MaxTime \in Nat
                              /\ 0 \notin Workers \cup {Free, Main} /\ NoJob \notin Nat

VARIABLES now,       \* Clock::now()
          done,      \* done
          intr,      \* sleeper.interrupted
          lock,      \* who holds lock across a step
          tasks,     \* tasks: a set of entries [at, id]
          adding,    \* the entry that add_task is inserting, in a set
          mgr,       \* where the managing function is
          deadline,  \* the time it sleeps until
          batch,     \* manage_tasks: the entries that were due
          due,       \* those of them that are still to be pushed
          recurred,  \* recurred_tasks
          kind,      \* the kind of each task created: once, every, interval
          finished,  \* history: the tasks that have run for the last time
          main       \* what the owner is doing

managed == <<mgr, deadline, batch, due, recurred>>
vars == <<poolVars, now, done, intr, lock, tasks, adding, managed, kind, finished, main>>

Manager == 0                     \* the managing function, as a job of the pool
Never == MaxTime + Period + 1    \* sleep(): no time limit
Entry(at, id) == [at |-> at, id |-> id]
Created == DOMAIN kind
Kinds == {"once", "every", "interval"}

Init == /\ PoolInit
        /\ now = 0 /\ done = FALSE /\ intr = FALSE /\ lock = Free
        /\ tasks = {} /\ adding = {}
        /\ mgr = "none" /\ deadline = Never /\ batch = {} /\ due = {} /\ recurred = {}
        /\ kind = <<>> /\ finished = {} /\ main = "ctor"

-----------------------------------------------------------------------------
(* InterruptableSleep.                                                      *)

\* Mutant: interrupt() only notifies.
Interrupt_NoFlag == /\ intr' = intr
                    /\ mgr' = IF mgr = "asleep" THEN "sleep" ELSE mgr

\* interrupt()
Interrupt == /\ intr' = TRUE
             /\ mgr' = IF mgr = "asleep" THEN "sleep" ELSE mgr

\* sleep() and sleep_until(): the test of the flag, before the first wait and after
\* every wake-up.  Whatever ended the sleep, the flag is cleared.
SleepTest == /\ mgr = "sleep"
             /\ IF intr \/ now >= deadline
                THEN mgr' = "manage" /\ intr' = FALSE /\ deadline' = Never
                ELSE mgr' = "asleep" /\ UNCHANGED <<intr, deadline>>
             /\ UNCHANGED <<poolVars, now, done, lock, tasks, adding, batch, due, recurred,
                            kind, finished, main>>

SleepWakes == /\ mgr = "asleep"
              /\ mgr' = "sleep"
              /\ UNCHANGED <<poolVars, now, done, intr, lock, tasks, adding, deadline, batch,
                             due, recurred, kind, finished, main>>

-----------------------------------------------------------------------------
(* add_task, by the owner or by a worker.                                   *)

AddBegin(t, e) == /\ lock = Free
                  /\ lock' = t /\ adding' = {e}

\* The task is in the map; interrupt(); the lock is released.
AddEnd(t) == /\ lock = t /\ adding # {}
             /\ tasks' = tasks \cup adding /\ adding' = {}
             /\ Interrupt
             /\ lock' = Free
             /\ IF t \in Workers /\ wk[t] = "after" THEN Return(t) ELSE UNCHANGED poolVars
             /\ UNCHANGED <<now, done, deadline, batch, due, recurred, kind, finished, main>>

NewTask(t, k, at) == /\ Len(kind) < MaxTasks
                     /\ kind' = Append(kind, k)
                     /\ AddBegin(t, Entry(at, Len(kind) + 1))

\* in(), every() and interval(), by the owner.  at() is in() with a time it has parsed,
\* cron() is every() with a calendar in the place of the period.
Schedule == /\ main = "alive"
            /\ \/ \E d \in Delays : NewTask(Main, "once", now + d)
               \/ NewTask(Main, "every", now + Period)
               \/ NewTask(Main, "interval", now)
            /\ UNCHANGED <<poolVars, now, done, intr, tasks, managed, finished, main>>

\* in(), by the function of a task.
ScheduleFromTask(w) ==
    /\ wk[w] = "run" /\ cur[w] \in Created
    /\ \E d \in Delays : NewTask(w, "once", now + d)
    /\ UNCHANGED <<poolVars, now, done, intr, tasks, managed, finished, main>>

-----------------------------------------------------------------------------
(* The managing function.                                                   *)

\* A worker has popped the managing function: while (!done).
ManagerStarts(w) == /\ wk[w] = "run" /\ cur[w] = Manager /\ mgr = "none"
                    /\ mgr' = "test"
                    /\ UNCHANGED <<poolVars, now, done, intr, lock, tasks, adding, deadline,
                                   batch, due, recurred, kind, finished, main>>

TestDone == /\ mgr = "test"
            /\ mgr' = IF done THEN "ended" ELSE "peek"
            /\ UNCHANGED <<poolVars, now, done, intr, lock, tasks, adding, deadline, batch, due,
                           recurred, kind, finished, main>>

First(T) == CHOOSE e \in T : \A f \in T : e.at <= f.at

\* tasks.empty() and tasks.begin(), without the lock.
Peek == /\ mgr = "peek"
        /\ \E T \in {tasks, tasks \cup adding} :
               deadline' = IF T = {} THEN Never ELSE First(T).at
        /\ mgr' = "sleep"
        /\ UNCHANGED <<poolVars, now, done, intr, lock, tasks, adding, batch, due, recurred,
                       kind, finished, main>>

\* manage_tasks: the lock is taken, and upper_bound(now) ends what is due.
Manage == /\ mgr = "manage" /\ lock = Free
          /\ lock' = Manager
          /\ batch' = {e \in tasks : e.at <= now} /\ due' = batch'
          /\ mgr' = "push"
          /\ UNCHANGED <<poolVars, now, done, intr, tasks, adding, deadline, recurred, kind,
                         finished, main>>

\* One task is pushed to the pool, in the order of the times ...
Push(e) == /\ mgr = "push" /\ e \in due /\ \A f \in due : e.at <= f.at
           /\ PushJob(e.id)
           /\ due' = due \ {e}
           /\ mgr' = "notify"
           /\ UNCHANGED <<now, done, intr, lock, tasks, adding, deadline, batch, recurred, kind,
                          finished, main>>

\* Mutant: an interval task is put back at once, as the others are.
Recurs_IntervalToo(id) == kind[id] \in {"every", "interval"}

\* task->recur && !task->interval
Recurs(id) == kind[id] = "every"

\* ... the pool is notified, and a recurring task is remembered with its next time.
Pushed == /\ mgr = "notify"
          /\ PushNotify
          /\ recurred' = recurred \cup
                 {Entry(now + Period, e.id) : e \in {f \in batch \ due : Recurs(f.id)
                                                     /\ \A g \in recurred : g.id # f.id}}
          /\ mgr' = "push"
          /\ UNCHANGED <<now, done, intr, lock, tasks, adding, deadline, batch, due, kind,
                         finished, main>>

\* What was due is erased, what recurs is inserted, the lock is released.
Managed == /\ mgr = "push" /\ due = {}
           /\ tasks' = (tasks \ batch) \cup recurred
           /\ lock' = Free /\ batch' = {} /\ recurred' = {} /\ mgr' = "test"
           /\ UNCHANGED <<poolVars, now, done, intr, adding, deadline, due, kind, finished,
                          main>>

ManagerStep == SleepTest \/ TestDone \/ Peek \/ Manage \/ (\E e \in due : Push(e)) \/ Pushed
               \/ Managed

-----------------------------------------------------------------------------
(* The workers.                                                             *)

Unchanged_ == UNCHANGED <<now, done, intr, lock, tasks, adding, managed, kind, main>>

\* A function ends; that of an interval task has still to add the task again, unless it
\* has thrown an exception, which the packaged_task of the pool keeps.
RunEnds(w) ==
    /\ wk[w] = "run" /\ lock # w
    /\ \/ /\ cur[w] = Manager /\ mgr = "ended"
          /\ Return(w) /\ finished' = finished
       \/ /\ cur[w] \in Created
          /\ Return(w)
          /\ finished' = IF kind[cur[w]] # "every" THEN finished \cup {cur[w]} ELSE finished
       \/ /\ cur[w] \in Created /\ kind[cur[w]] = "interval"
          /\ wk' = [wk EXCEPT ![w] = "after"]
          /\ UNCHANGED <<q, mutex, isDone, cur, finished>>
    /\ Unchanged_

\* add_task(task->get_new_time(), task)
AddBack(w) == /\ wk[w] = "after" /\ lock # w
              /\ AddBegin(w, Entry(now + Period, cur[w]))
              /\ UNCHANGED <<poolVars, now, done, intr, tasks, managed, kind, finished, main>>

PoolStep(w) == (Pop(w) \/ Wait(w) \/ Sleep(w)) /\ UNCHANGED finished /\ Unchanged_

WorkerStep(w) == PoolStep(w) \/ ManagerStarts(w) \/ RunEnds(w) \/ AddBack(w) \/ AddEnd(w)

WorkerSpurious(w) == Spurious(w) /\ UNCHANGED finished /\ Unchanged_

-----------------------------------------------------------------------------
(* The owner.                                                               *)

Others == UNCHANGED <<now, done, lock, tasks, adding, deadline, batch, due, recurred, kind,
                      finished>>

\* The constructor pushes the managing function.
Ctor == \/ /\ main = "ctor" /\ PushJob(Manager) /\ main' = "notify"
           /\ Others /\ UNCHANGED <<intr, mgr>>
        \/ /\ main = "notify" /\ PushNotify /\ main' = "alive"
           /\ Others /\ UNCHANGED <<intr, mgr>>

\* The destructor begins: done = true.
Dtor == /\ main = "alive" /\ lock # Main
        /\ done' = TRUE /\ main' = "interrupt"
        /\ UNCHANGED <<poolVars, now, intr, lock, tasks, adding, managed, kind, finished>>

\* The rest of the destructor and that of the pool, which is the last member and
\* goes first.
DtorRest == \/ /\ main = "interrupt" /\ Interrupt /\ main' = "stop"
               /\ Others /\ UNCHANGED poolVars
            \/ /\ main = "stop" /\ SetDone /\ main' = "wake"
               /\ Others /\ UNCHANGED <<intr, mgr>>
            \/ /\ main = "wake" /\ StopNotify /\ main' = "join"
               /\ Others /\ UNCHANGED <<intr, mgr>>
            \/ /\ main = "join" /\ AllGone /\ main' = "destroyed"
               /\ Others /\ UNCHANGED <<poolVars, intr, mgr>>

Tick == /\ now < MaxTime
        /\ now' = now + 1
        /\ UNCHANGED <<poolVars, done, intr, lock, tasks, adding, managed, kind, finished, main>>

Next == \/ Ctor \/ Schedule \/ AddEnd(Main) \/ Dtor \/ DtorRest
        \/ ManagerStep \/ SleepWakes
        \/ \E w \in Workers : WorkerStep(w) \/ ScheduleFromTask(w) \/ WorkerSpurious(w)
        \/ Tick

Spec == Init /\ [][Next]_vars

\* Every thread runs on, the functions of the tasks return, and a thread that waits for
\* a mutex which is free again and again gets it (strong fairness: spurious wake-ups and
\* other tasks may keep taking it).  A sleep whose time is over ends; no spurious
\* wake-up, no further task, no passing of time and no destructor is promised.
FairSpec == /\ Spec
            /\ SF_vars(Ctor \/ AddEnd(Main) \/ DtorRest)
            /\ SF_vars(ManagerStep \/ (now >= deadline /\ SleepWakes))
            /\ \A w \in Workers : SF_vars(WorkerStep(w))

-----------------------------------------------------------------------------

\* Every variable has its type.
TypeOK == /\ now \in 0 .. MaxTime /\ done \in BOOLEAN /\ intr \in BOOLEAN
          /\ lock \in Workers \cup {Main, Manager, Free}
          /\ wk \in [Workers -> Places]
          /\ \A e \in tasks \cup adding \cup batch \cup recurred : e.id \in Created
          /\ due \subseteq batch /\ batch \subseteq tasks
          /\ finished \subseteq Created /\ kind \in Seq(Kinds)

-----------------------------------------------------------------------------

Count(b) == IF b THEN 1 ELSE 0

\* In how many places a task is: scheduled (and not pushed by the round in progress),
\* being added, queued, running.
Copies(id) == Cardinality({e \in tasks \ (batch \ due) : e.id = id})
              + Cardinality({e \in adding : e.id = id})
              + Cardinality({i \in DOMAIN q : q[i] = id})
              + Cardinality({w \in Workers : cur[w] = id /\ ~(wk[w] = "after" /\ lock = w)})

\* example.cpp:34 ("multiple instances of the function will never be run concurrently"):
\* an interval task is in one place at a time, and is never lost until its function
\* throws an exception; a one-shot task likewise, until it has run.
OneInstance ==
    \A id \in Created : kind[id] # "every" => Copies(id) + Count(id \in finished) = 1

\* example.cpp:51, ctpl_stl.h:62: the destructor waits until every function that was
\* handed to the pool has run, although workers leave while the managing function may
\* still push.
DestructorDrains == AllGone => q = <<>> /\ mgr = "ended"

\* A task that is due runs, whoever added it while the managing function was testing,
\* looking at the map, falling asleep or asleep, unless the scheduler is destroyed.
DueTaskRuns ==
    \A id \in 1 .. MaxTasks :
        (\E e \in tasks \ (batch \ due) : e.id = id /\ e.at <= now)
            ~> done \/ \E w \in Workers : cur[w] = id

\* The destructor returns.
DestructorReturns == main = "interrupt" ~> main = "destroyed"
=============================================================================
