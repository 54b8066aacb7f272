----------------------------- MODULE ThreadPool -----------------------------
(***************************************************************************)
(* handy/threads.cc: ThreadPool, worker threads that take tasks from a     *)
(* SafeQueue.  Every access of a worker or of a client to the queue is an  *)
(* action of SafeQueue; this module adds the control of the workers'       *)
(* loop and of the thread that starts, stops and joins the pool.           *)
(*                                                                         *)
(* Tasks are numbered in the order in which addTask accepts them.          *)
(***************************************************************************)
EXTENDS SafeQueue

CONSTANTS Workers,  \* threads_
          Main      \* the client that owns the pool

ASSUME PoolAssumption == /\ Workers \subseteq Threads
                         /\ Main \in Threads \ Workers
                         /\ Values = 1 .. MaxPush

VARIABLES wpc,      \* where each worker is in its loop
          main,     \* how far the owner is
          ran       \* history: the tasks run to completion

poolVars == <<vars, wpc, main, ran>>

Clients == Threads \ Workers

\* unborn: not started; test: at while (!tasks_.exited()); pop: in pop_wait;
\* run: in task(); done: the thread has ended.
WorkerPlaces == {"unborn", "test", "call", "pop", "run", "done"}

PoolInit == /\ Init
            /\ wpc = [w \in Workers |-> "unborn"]
            /\ main = "ctor"
            /\ ran = {}

-----------------------------------------------------------------------------

\* start(): the owner creates the workers one after the other; a worker runs as
\* soon as it is created.
Start(w) == /\ main = "ctor" /\ wpc[w] = "unborn"
            /\ wpc' = [wpc EXCEPT ![w] = "test"]
            /\ UNCHANGED <<vars, main, ran>>

Started == /\ main = "ctor" /\ \A w \in Workers : wpc[w] # "unborn"
           /\ main' = "running"
           /\ UNCHANGED <<vars, wpc, ran>>

\* addTask by any client, the owner included unless it is in exit() or join(): tasks
\* may be added before start() and after exit().
AddTask(c) == /\ c = Main => main \in {"ctor", "running", "joined"}
              /\ Push(c, Len(pushed) + 1) \/ PushRefused(c)
              /\ UNCHANGED <<wpc, main, ran>>

\* while (!tasks_.exited())
WorkerTest(w) == /\ wpc[w] = "test"
                 /\ wpc' = [wpc EXCEPT ![w] = IF exit THEN "done" ELSE "call"]
                 /\ UNCHANGED <<vars, main, ran>>

\* pop_wait has returned when the worker is no longer inside the queue; only a
\* pop that returned true is followed by task().
Return(w) ==
    wpc' = [wpc EXCEPT ![w] = IF pc'[w] # "idle" THEN "pop"
                              ELSE IF ret'[w] = NoItem THEN "test" ELSE "run"]

WorkerPop(w) == \/ /\ wpc[w] = "call" /\ PopBegin(w, "infinite")
                   /\ Return(w) /\ UNCHANGED <<main, ran>>
                \/ /\ wpc[w] = "pop" /\ (Sleep(w) \/ Relock(w))
                   /\ Return(w) /\ UNCHANGED <<main, ran>>

WorkerSpurious(w) == /\ wpc[w] = "pop" /\ Spurious(w)
                     /\ UNCHANGED <<wpc, main, ran>>

\* task()
WorkerRun(w) == /\ wpc[w] = "run"
                /\ ran' = ran \cup {ret[w]}
                /\ wpc' = [wpc EXCEPT ![w] = "test"]
                /\ UNCHANGED <<vars, main>>

\* exit(): tasks_.exit(), the two steps of SafeQueue.
Exit == \/ /\ main = "running" /\ SetExit(Main)
           /\ main' = "exiting" /\ UNCHANGED <<wpc, ran>>
        \/ /\ main = "exiting" /\ ExitNotify(Main)
           /\ main' = "joining" /\ UNCHANGED <<wpc, ran>>

\* join() returns when every worker has ended.
Join == /\ main = "joining" /\ \A w \in Workers : wpc[w] = "done"
        /\ main' = "joined"
        /\ UNCHANGED <<vars, wpc, ran>>

WorkerStep(w) == WorkerTest(w) \/ WorkerPop(w) \/ WorkerRun(w)
MainStep == (\E w \in Workers : Start(w)) \/ Started \/ Exit \/ Join

PoolNext == \/ \E c \in Clients : AddTask(c)
            \/ \E w \in Workers : WorkerStep(w) \/ WorkerSpurious(w)
            \/ MainStep

PoolSpec == PoolInit /\ [][PoolNext]_poolVars

-----------------------------------------------------------------------------

\* Every variable of the pool has its type.
PoolTypeOK == /\ TypeOK
              /\ wpc \in [Workers -> WorkerPlaces]
              /\ main \in {"ctor", "running", "exiting", "joining", "joined"}
              /\ ran \subseteq Values
=============================================================================
