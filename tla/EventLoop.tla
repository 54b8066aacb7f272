----------------------------- MODULE EventLoop -----------------------------
(***************************************************************************)
(* handy/event_base.cc: the loop of an EventBase and the calls that other  *)
(* threads, and the callbacks run by the loop itself, make into it:        *)
(* safeCall (push a task, write a byte into the wake-up pipe), exit (store *)
(* exit_, write a byte) and the handler of the pipe, which reads and then  *)
(* runs tasks until the queue is empty.                                    *)
(*                                                                         *)
(* A task is a number, given out in the order of the safeCall's.  push and *)
(* pop_wait(.., 0) are atomic (see SafeQueue; nobody sleeps in this queue  *)
(* and nobody calls its exit()).  Epoll is level triggered: the pipe's     *)
(* channel is reported as long as there is a byte in the pipe.             *)
(***************************************************************************)
EXTENDS Naturals, Sequences

CONSTANTS Clients,   \* threads other than the one in loop()
          Loop,      \* the thread in loop()
          TaskCap,   \* taskCapacity: 0 means no limit
          PipeCap,   \* how many bytes the wake-up pipe holds
          ReadMax,   \* how many of them one read takes
          MaxPost    \* bound: calls of safeCall

ASSUME LoopAssumption == /\ Loop \notin Clients
                         /\ TaskCap \in Nat /\ MaxPost \in Nat
                         /\ PipeCap \in Nat \ {0} /\ ReadMax \in Nat \ {0}

VARIABLES tasks,     \* tasks_
          pipe,      \* bytes in the wake-up pipe
          exit,      \* exit_
          lpc,       \* where loop() is
          final,     \* the loop_once(0) at the end of loop()
          events,    \* events reported by the poller and not yet dispatched
          current,   \* the task being run, 0 if none
          call,      \* what each thread is inside of
          arg,       \* the task of the safeCall a thread is inside of
          posted,    \* how many times safeCall was called
          returned,  \* history: tasks whose safeCall queued them and returned
          owed,      \* history: returned, as it was when exit_ was first stored
          done       \* history: the tasks that were run

vars == <<tasks, pipe, exit, lpc, final, events, current, call, arg, posted, returned, owed,
          done>>
history == <<posted, returned, owed, done>>

Threads == Clients \cup {Loop}

\* A thread is in no call (idle), or in the wakeup() of one: of a safeCall that
\* queued its task, of one whose push was refused (lost), or of exit().
CallKinds == {"idle", "safeCall", "lost", "exit"}

Queued(s) == {s[i] : i \in DOMAIN s}

\* Where loop() runs callbacks of the program: a task, the handler of another
\* channel, a timer, the cleanup of the connections that wait to reconnect.
UserCode == {"run", "io", "timers", "clear"}

Init == /\ tasks = <<>> /\ pipe = 0 /\ exit = FALSE
        /\ lpc = "test" /\ final = FALSE /\ events = {} /\ current = 0
        /\ call = [t \in Threads |-> "idle"] /\ arg = [t \in Threads |-> 0]
        /\ posted = 0 /\ returned = {} /\ owed = {} /\ done = {}

-----------------------------------------------------------------------------
(* Calls into the base.                                                     *)

MayCall(t) == /\ call[t] = "idle"
              /\ t = Loop => lpc \in UserCode

Full == TaskCap # 0 /\ Len(tasks) >= TaskCap

\* safeCall: tasks_.push, whose result is not looked at.
SafeCall(t) ==
    /\ MayCall(t) /\ posted < MaxPost
    /\ posted' = posted + 1
    /\ arg' = [arg EXCEPT ![t] = posted + 1]
    /\ IF Full
       THEN /\ call' = [call EXCEPT ![t] = "lost"]
            /\ UNCHANGED tasks
       ELSE /\ call' = [call EXCEPT ![t] = "safeCall"]
            /\ tasks' = Append(tasks, posted + 1)
    /\ UNCHANGED <<pipe, exit, lpc, final, events, current, returned, owed, done>>

\* exit(): stores exit_, then wakes the loop up.
Exit(t) ==
    /\ MayCall(t) /\ ~exit
    /\ exit' = TRUE
    /\ call' = [call EXCEPT ![t] = "exit"] /\ arg' = arg
    /\ owed' = returned
    /\ UNCHANGED <<tasks, pipe, lpc, final, events, current, posted, returned, done>>

\* Mutant: safeCall does not write to the pipe.
Wakeup_Missing(t) ==
    /\ call[t] # "idle"
    /\ call' = [call EXCEPT ![t] = "idle"] /\ arg' = [arg EXCEPT ![t] = 0]
    /\ returned' = IF call[t] = "safeCall" THEN returned \cup {arg[t]} ELSE returned
    /\ UNCHANGED <<tasks, pipe, exit, lpc, final, events, current, posted, owed, done>>

\* wakeup(): a write of one byte, which blocks while the pipe is full; the call
\* that made it returns.
Wakeup(t) ==
    /\ call[t] # "idle" /\ pipe < PipeCap
    /\ pipe' = pipe + 1
    /\ call' = [call EXCEPT ![t] = "idle"] /\ arg' = [arg EXCEPT ![t] = 0]
    /\ returned' = IF call[t] = "safeCall" THEN returned \cup {arg[t]} ELSE returned
    /\ UNCHANGED <<tasks, exit, lpc, final, events, current, posted, owed, done>>

-----------------------------------------------------------------------------
(* loop().                                                                  *)

At(place) == lpc = place /\ call[Loop] = "idle"

\* while (!exit_) loop_once(10000)
Test == /\ At("test")
        /\ lpc' = IF exit THEN "clear" ELSE "poll"
        /\ UNCHANGED <<tasks, pipe, exit, final, events, current, call, arg, history>>

\* Mutant: loop() returns without the last loop_once.
Clear_NoLastRound == /\ At("clear")
                     /\ lpc' = "returned" /\ final' = TRUE
                     /\ UNCHANGED <<tasks, pipe, exit, events, current, call, arg, history>>

\* The timers, the idle lists and the reconnecting connections are cleared, then
\* the last loop_once(0) begins.
Clear == /\ At("clear")
         /\ lpc' = "poll" /\ final' = TRUE
         /\ UNCHANGED <<tasks, pipe, exit, events, current, call, arg, history>>

\* poller_->loop_once: some other channels may be ready as well.
PollEvents == /\ At("poll") /\ pipe > 0
              /\ \E other \in SUBSET {"other"} : events' = {"wakeup"} \cup other
              /\ lpc' = "dispatch"
              /\ UNCHANGED <<tasks, pipe, exit, final, current, call, arg, history>>

\* No byte in the pipe: another channel is ready, or the wait is over (a timer is
\* due, 10 seconds have passed, or a signal arrived).
PollOther == /\ At("poll") /\ pipe = 0
             /\ \E other \in SUBSET {"other"} : events' = other
             /\ lpc' = "dispatch"
             /\ UNCHANGED <<tasks, pipe, exit, final, current, call, arg, history>>

\* The events are dispatched one by one, then handleTimeouts is called.
Dispatch == /\ At("dispatch")
            /\ IF events = {}
               THEN lpc' = "timers" /\ events' = events
               ELSE \E e \in events : /\ events' = events \ {e}
                                      /\ lpc' = IF e = "wakeup" THEN "read" ELSE "io"
            /\ UNCHANGED <<tasks, pipe, exit, final, current, call, arg, history>>

\* The handler of another channel ends.
IoDone == /\ At("io")
          /\ lpc' = "dispatch"
          /\ UNCHANGED <<tasks, pipe, exit, final, events, current, call, arg, history>>

\* Mutant: the handler runs the tasks and leaves the bytes in the pipe.
Read_Missing == /\ At("read")
                /\ lpc' = "drain"
                /\ UNCHANGED <<tasks, pipe, exit, final, events, current, call, arg, history>>

\* The pipe's handler: one read, then the tasks.
Read == /\ At("read")
        /\ pipe' = IF pipe <= ReadMax THEN 0 ELSE pipe - ReadMax
        /\ lpc' = "drain"
        /\ UNCHANGED <<tasks, exit, final, events, current, call, arg, history>>

\* while (tasks_.pop_wait(&task, 0)) task()
Drain == /\ At("drain")
         /\ IF tasks = <<>>
            THEN lpc' = "dispatch" /\ UNCHANGED <<tasks, current>>
            ELSE lpc' = "run" /\ current' = Head(tasks) /\ tasks' = Tail(tasks)
         /\ UNCHANGED <<pipe, exit, final, events, call, arg, history>>

\* task() returns.
RunDone == /\ At("run")
           /\ done' = done \cup {current} /\ current' = 0
           /\ lpc' = "drain"
           /\ UNCHANGED <<tasks, pipe, exit, final, events, call, arg, posted, returned, owed>>

\* handleTimeouts has run the timers that are due.
TimersDone == /\ At("timers")
              /\ lpc' = IF final THEN "returned" ELSE "test"
              /\ UNCHANGED <<tasks, pipe, exit, final, events, current, call, arg, history>>

LoopStep == \/ Test \/ Clear \/ PollEvents \/ PollOther \/ Dispatch \/ IoDone
            \/ Read \/ Drain \/ RunDone \/ TimersDone

Next == (\E t \in Threads : SafeCall(t) \/ Exit(t) \/ Wakeup(t)) \/ LoopStep

Spec == Init /\ [][Next]_vars

\* The loop thread runs, its callbacks end, and a thread inside a call goes on.
\* A wait of the poller in the loop need not ever end by itself (PollOther): what
\* is promised to other threads is promised by the wake-up pipe alone.  The poll
\* of the last round does not wait.
Fairness == /\ WF_vars(Test \/ Clear \/ PollEvents \/ (final /\ PollOther) \/ Dispatch
                        \/ IoDone \/ Read \/ Drain \/ RunDone \/ TimersDone)
            /\ \A t \in Threads : WF_vars(Wakeup(t))

FairSpec == Spec /\ Fairness

-----------------------------------------------------------------------------

LoopPlaces == {"test", "poll", "dispatch", "read", "drain", "run", "io", "timers", "clear",
               "returned"}
\* Every variable has its type.
TypeOK == /\ tasks \in Seq(Nat \ {0}) /\ pipe \in 0 .. PipeCap /\ exit \in BOOLEAN
          /\ lpc \in LoopPlaces /\ final \in BOOLEAN
          /\ events \subseteq {"wakeup", "other"} /\ current \in Nat
          /\ call \in [Threads -> CallKinds] /\ arg \in [Threads -> Nat]
          /\ posted \in Nat
          /\ returned \subseteq Nat /\ owed \subseteq Nat /\ done \subseteq Nat

\* safeCall pushes before it writes, the pipe's handler reads before it drains, so
\* a task whose safeCall has returned never waits for somebody else's wake-up:
\* while the handler is not at work, there is a byte in the pipe for it.
TaskHasWakeup ==
    Queued(tasks) \cap returned # {} /\ lpc \notin {"drain", "run"} => pipe > 0

\* loop() ends with one more loop_once: a task whose safeCall had returned when
\* exit() was called has been run when loop() returns.
NoTaskLostAtExit == lpc = "returned" => owed \subseteq done

\* A callback of the loop waits for room in the pipe, which only the loop could make.
SelfBlocked == call[Loop] # "idle" /\ pipe = PipeCap

\* A thread that waits in wakeup() for room in the pipe gets it from the loop,
\* unless loop() has returned or the loop thread itself waits for room.
ClientReturns ==
    \A c \in Clients : call[c] # "idle" ~> call[c] = "idle" \/ lpc = "returned" \/ SelfBlocked

-----------------------------------------------------------------------------
(* The strengthening of TaskHasWakeup and NoTaskLostAtExit.                 *)

Known == done \cup Queued(tasks) \cup (IF lpc = "run" THEN {current} ELSE {})

\* A task that was queued is still queued, is being run or has been run.
QueuedIsKnown == /\ returned \subseteq Known
                 /\ \A t \in Threads : call[t] = "safeCall" => arg[t] \in Known

\* Tasks are numbered by the calls of safeCall.
Numbered == /\ returned \subseteq 1 .. posted
            /\ \A t \in Threads : arg[t] <= posted /\ (call[t] = "safeCall" => arg[t] > 0)

\* What is owed was returned, and is settled when the last round is past the pipe.
OwedIsReturned == owed \subseteq returned

LastRound ==
    /\ lpc = "clear" \/ final => exit
    /\ lpc = "returned" => final
    /\ final /\ (lpc \in {"timers", "returned"}
                 \/ (lpc \in {"dispatch", "io"} /\ "wakeup" \notin events))
       => owed \subseteq done

IInv == /\ TypeOK /\ Numbered /\ TaskHasWakeup /\ QueuedIsKnown /\ OwedIsReturned /\ LastRound
        /\ NoTaskLostAtExit
=============================================================================
