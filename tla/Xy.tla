--------------------------------- MODULE Xy ---------------------------------
(***************************************************************************)
(* scheduler/my_scheduler.h, my_threadpool.h, my_interruptSleep.h: the     *)
(* scheduler of namespace xy.  Its loop occupies one thread of its pool,   *)
(* looks at the map without the lock, sleeps until the first task is due   *)
(* and pushes what is due to the queue of the pool.                        *)
(*                                                                         *)
(* The flag of the sleep changes under the mutex of the sleep, so a test   *)
(* of it and the sleep that follows are one step.  The flags of the pool   *)
(* and of its queue are stored without a mutex: a store and its            *)
(* notification may fall between the predicate of a wait and the sleep     *)
(* ("block").  push holds the mutex of the queue and so cannot.            *)
(***************************************************************************)
EXTENDS Naturals, Sequences, FiniteSets

CONSTANTS XyThreads,   \* threads of the pool
          XyDelays,    \* runAfter and runAt are called with now + one of these
          XyEvery,     \* the duration of runEvery
          MaxXyTasks,  \* bound: tasks created
          MaxXyTime    \* bound: the last instant

ASSUME XyAssumption == /\ XyDelays \subseteq Nat /\ XyEvery \in Nat \ {0}
                       /\ MaxXyTasks \in Nat /\ MaxXyTime \in Nat

VARIABLES xyNow,      \* Clock::now()
          bExit,      \* bExit_
          interrupt,  \* interrupt_
          mapTasks,   \* mapTasks_: a set of entries [at, id]
          emplacing,  \* the entry that addTask is emplacing, in a set
          xyKind,     \* the class of each task created: at, every
          sched,      \* where the scheduling loop is
          dues,       \* execNearestAndUpdate: due entries that are still to be pushed
          until,      \* the time it sleeps until
          queue,      \* queue_ of the pool
          poolStop,   \* stop_ of the pool
          queueStop,  \* stop_ of its queue
          thr,        \* where each thread is
          job,        \* the task it runs
          missed,     \* history: a thread fell asleep past the last notification
          user        \* what the thread that owns the scheduler is doing

poolXy == <<queue, poolStop, queueStop, thr, job, missed>>
xyVars == <<xyNow, bExit, interrupt, mapTasks, emplacing, xyKind, sched, dues, until, poolXy, user>>

SchedLoop == 0                          \* lb_schedule, as a task of the pool
NoXyJob == MaxXyTasks + 1
Forever == MaxXyTime + XyEvery + 1      \* sleep(): no time limit
XyTasks == DOMAIN xyKind
EntryAt(t, id) == [at |-> t, id |-> id]

\* The constructor queues lb_schedule and starts the threads.
XyInit == /\ xyNow = 0 /\ bExit = FALSE /\ interrupt = FALSE
          /\ mapTasks = {} /\ emplacing = {} /\ xyKind = <<>>
          /\ sched = "none" /\ dues = {} /\ until = Forever
          /\ queue = <<SchedLoop>> /\ poolStop = FALSE /\ queueStop = FALSE
          /\ thr = [t \in XyThreads |-> "test"] /\ job = [t \in XyThreads |-> NoXyJob]
          /\ missed = FALSE /\ user = "alive"

-----------------------------------------------------------------------------
(* runAfter, runAt and runEvery, by the owner or by a task.  addTask holds  *)
(* mtx_ while it emplaces the task and interrupts the sleep.                *)

\* mtx_ is free.
Mtx == emplacing = {} /\ sched # "push"

NewXyTask == /\ Mtx /\ Len(xyKind) < MaxXyTasks
             /\ \/ /\ xyKind' = Append(xyKind, "at")
                   /\ \E d \in XyDelays : emplacing' = {EntryAt(xyNow + d, Len(xyKind'))}
                \/ /\ xyKind' = Append(xyKind, "every")
                   /\ emplacing' = {EntryAt(xyNow + XyEvery, Len(xyKind'))}
             /\ UNCHANGED <<xyNow, bExit, interrupt, mapTasks, sched, dues, until, queue,
                            poolStop, queueStop, job, missed>>

AddTask == \/ /\ user = "alive" /\ NewXyTask
              /\ user' = "adding" /\ UNCHANGED thr
           \/ \E t \in XyThreads : /\ thr[t] = "run" /\ job[t] \in XyTasks /\ NewXyTask
                                   /\ thr' = [thr EXCEPT ![t] = "adding"] /\ UNCHANGED user

\* Mutant: the sleep is not interrupted.
XyInterrupt_Never == UNCHANGED <<interrupt, sched>>

\* interrupt(): the flag stays until a sleep ends.
XyInterrupt == /\ interrupt' = TRUE
               /\ sched' = IF sched = "asleep" THEN "sleep" ELSE sched

TaskAdded == /\ emplacing # {}
             /\ mapTasks' = mapTasks \cup emplacing /\ emplacing' = {}
             /\ XyInterrupt
             /\ user' = IF user = "adding" THEN "alive" ELSE user
             /\ thr' = [t \in XyThreads |-> IF thr[t] = "adding" THEN "run" ELSE thr[t]]
             /\ UNCHANGED <<xyNow, bExit, xyKind, dues, until, queue, poolStop, queueStop, job,
                            missed>>

-----------------------------------------------------------------------------
(* lb_schedule.                                                             *)

InPool == UNCHANGED <<xyNow, bExit, emplacing, xyKind, poolStop, queueStop, job, missed,
                      user>>

\* while(!bExit_)
SchedTest == /\ sched = "test"
             /\ sched' = IF bExit THEN "ended" ELSE "look"
             /\ InPool /\ UNCHANGED <<interrupt, mapTasks, dues, until, queue, thr>>

Earliest(T) == CHOOSE e \in T : \A f \in T : e.at <= f.at

\* mapTasks_.empty() and mapTasks_.begin(), without mtx_: what is being emplaced is
\* there already or not.
SchedLook == /\ sched = "look"
             /\ \E T \in {mapTasks, mapTasks \cup emplacing} :
                    until' = IF T = {} THEN Forever ELSE Earliest(T).at
             /\ sched' = "sleep"
             /\ InPool /\ UNCHANGED <<interrupt, mapTasks, dues, queue, thr>>

\* sleep() and sleep_until(): whatever ended the wait, the flag is cleared.
SchedSleep == /\ sched = "sleep"
              /\ IF interrupt \/ xyNow >= until
                 THEN sched' = "exec" /\ interrupt' = FALSE /\ until' = Forever
                 ELSE sched' = "asleep" /\ UNCHANGED <<interrupt, until>>
              /\ InPool /\ UNCHANGED <<mapTasks, dues, queue, thr>>

\* The wait ends: its time is over, or for no reason.
SchedWakes == /\ sched = "asleep"
              /\ sched' = "sleep"
              /\ InPool /\ UNCHANGED <<interrupt, mapTasks, dues, until, queue, thr>>

\* execNearestAndUpdate takes mtx_.
Exec == /\ sched = "exec" /\ Mtx
        /\ dues' = {e \in mapTasks : e.at <= xyNow}
        /\ sched' = "push"
        /\ InPool /\ UNCHANGED <<interrupt, mapTasks, until, queue, thr>>

\* The map without an entry that was pushed, and with its next one if it recurs.  The
\* code changes the map after the last push; nobody looks at it in between.
Requeued(e) == (mapTasks \ {e})
               \cup (IF xyKind[e.id] = "every" THEN {EntryAt(xyNow + XyEvery, e.id)} ELSE {})

QueueMutexFree == \A t \in XyThreads : thr[t] # "block"

\* threadPool_.addTask: the mutex of the queue is held from the push to the
\* notification.
ExecPush == /\ sched = "push" /\ QueueMutexFree
            /\ \E e \in dues : /\ \A f \in dues : e.at <= f.at
                               /\ queue' = Append(queue, e.id)
                               /\ dues' = dues \ {e}
                               /\ mapTasks' = Requeued(e)
            /\ LET S == {t \in XyThreads : thr[t] = "asleep"}
               IN IF S = {} THEN UNCHANGED thr
                  ELSE \E t \in S : thr' = [thr EXCEPT ![t] = "wait"]
            /\ InPool /\ UNCHANGED <<interrupt, sched, until>>

ExecDone == /\ sched = "push" /\ dues = {}
            /\ sched' = "test"
            /\ InPool /\ UNCHANGED <<interrupt, mapTasks, dues, until, queue, thr>>

SchedStep == SchedTest \/ SchedLook \/ SchedSleep \/ Exec \/ ExecPush \/ ExecDone

-----------------------------------------------------------------------------
(* The threads of the pool.                                                 *)

InSched == UNCHANGED <<xyNow, bExit, interrupt, mapTasks, emplacing, xyKind, dues, until,
                       poolStop, queueStop, missed, user>>

\* while (!stop_)
ThreadTest(t) == /\ thr[t] = "test"
                 /\ thr' = [thr EXCEPT ![t] = IF poolStop THEN "gone" ELSE "wait"]
                 /\ InSched /\ UNCHANGED <<sched, queue, job>>

\* pop_wait, under the mutex, before the first wait and after every wake-up: a task,
\* or an empty function when the queue was stopped, or a wait.
PopWait(t) ==
    /\ thr[t] = "wait" /\ QueueMutexFree
    /\ IF queue # <<>>
       THEN /\ job' = [job EXCEPT ![t] = Head(queue)] /\ queue' = Tail(queue)
            /\ thr' = [thr EXCEPT ![t] = "run"]
            /\ sched' = IF Head(queue) = SchedLoop THEN "test" ELSE sched
       ELSE /\ thr' = [thr EXCEPT ![t] = IF queueStop THEN "test" ELSE "block"]
            /\ UNCHANGED <<job, queue, sched>>
    /\ InSched

\* The wait releases the mutex and sleeps.
PopSleeps(t) == /\ thr[t] = "block"
                /\ thr' = [thr EXCEPT ![t] = "asleep"]
                /\ InSched /\ UNCHANGED <<sched, queue, job>>

PopWakes(t) == /\ thr[t] = "asleep"
               /\ thr' = [thr EXCEPT ![t] = "wait"]
               /\ InSched /\ UNCHANGED <<sched, queue, job>>

\* A function returns.
JobDone(t) == /\ thr[t] = "run" /\ (job[t] = SchedLoop => sched = "ended")
              /\ thr' = [thr EXCEPT ![t] = "test"] /\ job' = [job EXCEPT ![t] = NoXyJob]
              /\ InSched /\ UNCHANGED <<sched, queue>>

ThreadStep(t) == ThreadTest(t) \/ PopWait(t) \/ PopSleeps(t) \/ JobDone(t)

-----------------------------------------------------------------------------
(* The destructor.                                                          *)

OnlyOwner == UNCHANGED <<xyNow, mapTasks, emplacing, xyKind, dues, until, queue, job>>

\* bExit_ = true
XyDtor == /\ user = "alive"
          /\ bExit' = TRUE /\ user' = "interrupt"
          /\ OnlyOwner /\ UNCHANGED <<interrupt, sched, poolStop, queueStop, thr, missed>>

\* interrupt(), and the two flags of threadPool_.stop().
XyStops == \/ /\ user = "interrupt" /\ XyInterrupt /\ user' = "stop"
              /\ OnlyOwner /\ UNCHANGED <<bExit, poolStop, queueStop, thr, missed>>
           \/ /\ user = "stop" /\ poolStop' = TRUE /\ user' = "stopQueue"
              /\ OnlyOwner /\ UNCHANGED <<bExit, interrupt, sched, queueStop, thr, missed>>
           \/ /\ user = "stopQueue" /\ queueStop' = TRUE /\ user' = "notify"
              /\ OnlyOwner /\ UNCHANGED <<bExit, interrupt, sched, poolStop, thr, missed>>

\* cv_.notify_all(), without the mutex.
XyNotify == /\ user = "notify"
            /\ thr' = [t \in XyThreads |-> IF thr[t] = "asleep" THEN "wait" ELSE thr[t]]
            /\ missed' = ~QueueMutexFree
            /\ user' = "join"
            /\ OnlyOwner /\ UNCHANGED <<bExit, interrupt, sched, poolStop, queueStop>>

XyJoin == /\ user = "join" /\ \A t \in XyThreads : thr[t] = "gone"
          /\ user' = "destroyed"
          /\ OnlyOwner /\ UNCHANGED <<bExit, interrupt, sched, poolStop, queueStop, thr, missed>>

XyTick == /\ xyNow < MaxXyTime
          /\ xyNow' = xyNow + 1
          /\ UNCHANGED <<bExit, interrupt, mapTasks, emplacing, xyKind, sched, dues, until,
                         poolXy, user>>

XyNext == \/ AddTask \/ TaskAdded \/ SchedStep \/ SchedWakes
          \/ \E t \in XyThreads : ThreadStep(t) \/ PopWakes(t)
          \/ XyDtor \/ XyStops \/ XyNotify \/ XyJoin \/ XyTick

\* Every thread runs on, the functions of the tasks return, a mutex that is free again
\* and again is got (strong fairness), and a sleep whose time is over ends.  Nothing
\* promises a spurious wake-up, a further task, the passing of time or the destructor.
XySpec == /\ XyInit /\ [][XyNext]_xyVars
          /\ WF_xyVars(TaskAdded) /\ SF_xyVars(SchedStep)
          /\ WF_xyVars(xyNow >= until /\ SchedWakes)
          /\ \A t \in XyThreads : SF_xyVars(ThreadStep(t))
          /\ WF_xyVars(XyStops \/ XyNotify \/ XyJoin)

-----------------------------------------------------------------------------

\* Every variable has its type.
XyTypeOK == /\ xyNow \in 0 .. MaxXyTime /\ dues \subseteq mapTasks
            /\ sched \in {"none", "test", "look", "sleep", "asleep", "exec", "push", "ended"}
            /\ thr \in [XyThreads -> {"test", "wait", "block", "asleep", "run", "adding", "gone"}]

\* The loop never sleeps past a task: whatever was emplaced since it looked at the map,
\* without mtx_, the interrupt of addTask has been seen or ends the sleep.
SleepCoversTasks == sched = "asleep" => \A e \in mapTasks : until <= e.at

\* A task of runAfter or runAt runs once: execNearestAndUpdate erases its entry with
\* the push, and after that it is in the queue or in one thread.
XyRunsOnce == \A id \in XyTasks : xyKind[id] = "at" =>
    Cardinality({e \in mapTasks \cup emplacing : e.id = id})
        + Cardinality({k \in DOMAIN queue : queue[k] = id})
        + Cardinality({t \in XyThreads : job[t] = id}) <= 1

\* When the destructor has returned, no thread is in lb_schedule or in addTask, which
\* use the members that are gone.
XyQuietAtEnd == user = "destroyed" => sched \in {"none", "ended"} /\ emplacing = {}

\* A task that is due runs, whenever it was added, unless the scheduler is destroyed:
\* an interrupt that comes before the sleep is not lost.
XyDueRuns == \A id \in 1 .. MaxXyTasks :
    (\E e \in mapTasks : e.id = id /\ e.at <= xyNow)
        ~> bExit \/ \E t \in XyThreads : job[t] = id

\* The destructor returns, unless notify_all fell between the predicate of a thread's
\* wait and its sleep: stop() does not take the mutex of the queue.
XyDestructorReturns == user = "interrupt" ~> user = "destroyed" \/ missed
=============================================================================
