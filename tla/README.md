# A TLA+ model of handy

handy is a small C++ network library: event loops (`EventBase`), TCP and UDP
connections on top of them, thread pools, codecs, an HTTP layer, a logger and a
daemon helper, with two task schedulers beside it (`scheduler/`). This
directory models the parts that carry its concurrency and its state, checks them
with TLC on small instances, and proves the main invariants with TLAPS for every
value of the constants. All paths below are relative to `src/`.

## 1. The system

| component | state it keeps | operations | what is hard |
|---|---|---|---|
| `SafeQueue` (`handy/threads.h`) | items, capacity, `exit_`, a mutex and a condition variable | `push`, `pop_wait` with and without a limit, `exit` | lost wake-ups, `exit_` stored outside the mutex, time-outs that race with a push |
| `ThreadPool` (`handy/threads.cc`) | workers and a `SafeQueue` | `start`, `addTask`, `exit`, `join` | workers asleep at `exit`, tasks queued at `exit` |
| `EventBase` loop (`handy/event_base.cc`) | task queue, wake-up pipe, `exit_` | `safeCall`, `wakeup`, `exit`, `loop`, `loop_once` | push and wake-up are two steps; the pipe is finite and written with a blocking write; tasks accepted before `exit` |
| timers (`handy/event_base.cc`) | `timers_`, `timerReps_`, `nextTimeout_` | `runAt`, `runAfter`, `cancel`, `handleTimeouts` | callbacks that set and cancel timers, raw pointers into `timerReps_`, an interval that is stale when used |
| idle lists (`handy/event_base.cc`) | `idleConns_` and iterators into it | `registerIdle`, `updateIdle`, `unregisterIdle`, `callIdles` | callbacks that change the list that is being walked; iterators that outlive their nodes; the end of `loop()` |
| poller and channels (`handy/poller.cc`) | `liveChannels_`, `activeEvs_`, `lastActive_` | `addChannel`, `removeChannel`, `loop_once`, destructor | handlers that delete channels whose events are still to come |
| `TcpConn` output (`handy/conn.cc`) | `output_`, the write events of the channel | `send` (three forms), `handleWrite`, `handleHandshake` | partial writes, three ways to tell that data waits |
| `TcpConn` life (`handy/conn.cc`) | `state_`, `channel_`, `timeoutId_`, callbacks | `connect`, `handleRead`, `close`, `cleanup`, `reconnect` | handlers that nest, `close` and `exit` from other threads, timers of earlier attempts |
| `Buffer` (`handy/net.h`, `net.cc`) | an array and two positions | `append`, `makeRoom`, `consume`, `absorb`, `copyFrom` | overlapping moves, positions used after they changed |
| `TcpServer`, `MultiBase`, `UdpConn` (`handy/conn.cc`, `event_base.h`, `udp.cc`) | listening channel, bases, `id_` | `bind`, `handleAccept`, `allocBase`, `loop` and `exit` of all bases, `close` of a UDP connection | hand-over of a socket to another loop, which may be ending or have no room for tasks |
| `HSHA`, `HSHAU` (`handy/conn.cc`, `udp.cc`) | a `ThreadPool` between two events of a loop | `startServer`, `onMsg`, `exit` | answers that come back out of order, to a connection that is gone, to a loop that ends and joins the workers itself while they write to its pipe |
| codecs (`handy/codec.cc`) | input not yet decoded | `encode`, `tryDecode`, the loop of `onMsg` | messages cut anywhere, several at once, the last ones together with the end |
| HTTP (`handy/http.cc`, `http.h`, `stat-svr.cc`) | `scanned_`, `contentLen_`, `complete_`, one request and one response per connection | `tryDecode`, `clearData`, `handleRead`, `sendResponse`, `sendFile`, `sendRequest` | decoding that resumes, state kept from one message to the next |
| `Conf` (`handy/conf.cc`) | `values_` | `parse`, `get`, `getStrings` | where a value ends, whose continuation a line is, which names share a key |
| `Daemon` (`handy/daemon.cc`) | the pid file | `start`, `stop`, `restart` | failures and crashes between fork, truncation and write |
| `Logger` (`handy/logging.cc`) | `fd_`, `lastRotate_`, `realRotate_`, files by name | `logv`, `maybeRotate` | a rotation that several threads begin, while time passes |
| Bosma scheduler (`scheduler/Scheduler.h`, `InterruptableSleep.h`, `ctpl_stl.h`, `Cron.h`) | map of tasks, an interruptible sleep, a pool | `in`, `at`, `every`, `cron`, `interval`, destructor; `cron_to_next` | a managing function that reads the map without the lock; interrupts before the sleep; tasks that add tasks; workers that leave while others still push; a broken-down time that is not normalised |
| xy scheduler (`scheduler/my_*.h`) | the same, written again | `runAt`, `runAfter`, `runEvery`, destructor | the same, and a `stop` without the mutex |

Interaction: a program's threads reach a loop only through `safeCall` and
`exit`, i.e. through a `SafeQueue` and a pipe. The loop runs, on one thread,
the handlers of channels that the poller reports, then the timers that are due.
A connection owns a channel, sets timers in the base, is listed for idleness
and for reconnects there, and keeps data in two `Buffer`s. Everything that a
connection does happens on the thread of its loop; `close()` and `exit()` may
come from anywhere.

`PROJECT.json` lists what is hard to test in this code ("hazards"), each at its
line and with the properties that look for it.

## 2. The modules

| module | code | what an action is |
|---|---|---|
| `FifoChannel` | what a queue promises: put, take, refuse, close | one call |
| `SafeQueue` | `threads.h` 15-122 | one critical section, one sleep or wake-up, the unlocked store of `exit_` |
| `ThreadPool` | `threads.cc`, extends `SafeQueue` | one test, call or task of a worker, one step of the owner |
| `EventLoop` | `event_base.cc` 66-84, 129-168 | the push and the pipe write of `safeCall`, the store and the write of `exit`, one step of `loop()` |
| `Timers` | `event_base.cc` 132-142, 170-179, 225-280 | a call of `runAt` or `cancel`, the poll, one callback, the end of a round, one tick of the clock |
| `Poller` | `poller.cc` 22-108 and `Channel` | a channel is created, closed or deleted; `epoll_wait`; one event; a step of the destructor |
| `TcpSend` | `conn.cc` 142-239, 261-264 | one call of a form of `send`, `handleWrite`, the end of the handshake, loss and reconnect |
| `TcpConn` | `conn.cc` 13-164, 241-259, `event_base.cc` 339-390 | one handler with everything it calls |
| `Idle` | `event_base.cc` 186-223 | one registration, one read, one node of `callIdles` and its callback |
| `Buffer` | `net.h` 48-114, `net.cc` 82-125 | one member function |
| `Server` | `conn.cc` 266-343, `event_base.h` 52-69, `event_base.cc` 282-293, `udp.cc` 71-115 | one accepted socket, one task, one step of a loop, the start and each part of `MultiBase::exit` |
| `Hsha` | `conn.cc` 345-362, `conn.h` 152-162, `udp.cc` 10-69 and 137-148, extends `ThreadPool` | one message, the push and the pipe write of an answer, one step of the loop, each step of the handler that ends the program |
| `Codec` | `codec.cc`, `conn.cc` 112-140, 241-264 | one message sent, one piece that arrives, one turn of the decoding loop |
| `Http` | `http.cc`, `http.h`, `conn.cc` 84-87, the callback of `stat-svr.cc` | one message sent, one piece that arrives and the read that handles it, `cleanup` |
| `Conf` | `conf.cc` 10-164 | one line |
| `CtplPool` | `ctpl_stl.h` 31-44, 126-230 | the queueing and the notification of `push`, the two halves of `stop(true)`, one pop, test or sleep of a worker |
| `Scheduler` | `Scheduler.h`, `InterruptableSleep.h`, extends `CtplPool` | one step of the managing function between two shared accesses, one task pushed, one task run, the two halves of `add_task`, one step of the destructor |
| `Cron` | `Cron.h` 17-124 | the constructor, one turn of the search |
| `Xy` | `my_scheduler.h`, `my_threadpool.h`, `my_interruptSleep.h` | one step of the scheduling loop or of a pool thread between two shared accesses, one part of `addTask` or of the destructor |
| `Daemon` | `daemon.cc` 24-170 | one step of a command, of the daemon that starts, or of one that ends |
| `Logger` | `logging.cc` 21-141 | one system call or shared access of `maybeRotate`, one write, one tick of the clock |

`*Proofs` modules hold the theorems: `SafeQueueProofs` those of `SafeQueue` and
`Hsha`, `ServerProofs` those of `Server` and `Http`, `SchedulerProofs` those of
`Scheduler` with `CtplPool` and of `Xy`, `EventLoopProofs` those of `EventLoop` and `Idle`,
`PartsProofs` those of `Buffer`, `TcpSend`, `Codec`, `Daemon`, `Logger`, `Conf` and `Cron`;
`TimersProofs`, `PollerProofs` and `TcpConnProofs` those of the module in their name. `MC*` modules and `.cfg` files are the instances. Definitions named `Op_Something` are variants of `Op` with a
plausible mistake; they are not part of any specification and serve to show
that a property notices the mistake.

How the models relate to the code:

* `SafeQueue.pc` is where each thread is: `idle`, `block` (it has found nothing
  and is about to sleep; it owns the mutex), `asleep`, `awake` (notified, or woken
  spuriously) or `expired` (the limit is over), both about to take the mutex
  again, and `exiting` (between the two steps of `exit()`). The mutex is `owner`.
  `exit()` stores `exit_` first and takes the mutex to notify afterwards, in
  two actions, as in the code.
* `ThreadPool` extends `SafeQueue`: a worker's `pop_wait` consists of
  `SafeQueue`'s actions, so the wake-up protocol is not abstracted away.
* `EventLoop` and the others use the queue as an atomic FIFO, which is what
  `ImplementsChannel` justifies. Nobody sleeps in the task queue of a base
  (`pop_wait(.., 0)`).
* `Timers` and `EventLoop` are two views of the same `loop()`: one with a clock
  and without other threads, one with threads and without a clock.
* `TcpConn` writes each member function as an operator from the record of the
  connection to its outcome, because they nest (cleanup -> read callback ->
  `Channel::close` -> `handleRead` -> cleanup). `x` and `y` are what the two
  reads of `exit_` within one handler return. `idleIds_` is what its iterators name: nodes
  that are in their lists, or erased ones; the code never clears it.
* `TcpSend` counts units of data; the kernel takes any number of them, or breaks.
* The managing function of `Scheduler` is a job of the pool (`Manager`), so it takes
  a worker, and the worker that ran it drains the queue when it ends. It reads
  `tasks` without the lock: while an entry is being inserted, `Peek` sees the map
  with or without it. The two mutexes that are held across calls are `lock` and
  `mutex`; that of the sleep is never held across a step.
* Times in `Idle` are ticks, cut to seconds as the code does with `/ 1000`.
* `Server` and `Hsha` compose loops, pools and sockets. Their loops are `EventLoop`
  reduced to the queue, the wake-up pipe and the last `loop_once(0)`. `Server` has the
  push and the write of `safeCall` in one step; `EventLoop` takes these two apart
  and shows that a posted task has its wake-up all the same (`TaskHasWakeup`). `Hsha`, whose
  workers may wait for room in the pipe while the loop's thread waits for them, has them apart
  and a pipe of `PipeCap` bytes, and `ThreadPool` and `SafeQueue` in full.
* `Codec` and `Http` send messages byte by byte, so that every cut of a message, and
  every mix of two messages in one read, occurs. A byte of `Http` is the pair of its
  message and its place: what is decoded can be compared with what was sent.
* `Conf` works on lines of character classes: white space, the comment sign, the
  brackets, `=` and `:`, letters, the dot. `values` maps what `makeKey` returns, section,
  dot and name in lower case (`Lower`), to a list, as `values_` does. Each value carries the line that gave it, so that `ParseIsRight` can compare the table with a definition of the format that
  does not scan.
* `Cron` takes the calendar as a parameter (`Months` and `DaysBefore`, the days of the year
  before each month; days of a week, hours, minutes), because the search depends on where a day, month or year ends and not
  on their lengths.
* `Daemon` runs one command at a time; the process that starts, the running daemon
  and the command are interleaved. `Logger`'s clock moves between any two steps; an
  `Interval` of its ticks is a period, `LogMinute` of them share the name of a renamed file.
* `Buffer`, `TcpSend`, `Codec`, `Http`, `Conf`, `Cron`, `Daemon`, `Logger`, `Idle` and `Poller`
  share no state in these models. `MCParts` puts them into one instance: the variable `subject` chooses which of
  them a behaviour is about. `MCSafeQueue` does the same with `SafeQueue` and `Xy`.

## 3. What the runs check

All passing runs together take about nine minutes, `parts` and `scheduler` the longest (two each).

| run | question | instance |
|---|---|---|
| `queue` | Is no sleeper of a `SafeQueue` forgotten by `push` or `exit`, and does the queue implement `FifoChannel`? Does the xy scheduler never sleep past a task, does it run what is due, and does its destructor return? | 3 threads, 2 values, 3 pushes, capacity 2: the queue fills, two threads sleep while the third pushes or exits. xy: 2 pool threads, one of them taken by the scheduling loop, 2 tasks of either kind, added by the owner or by a task, two instants |
| `hsha` | Is every answer that was computed sent before `loop()` returns, is every message answered, and does a handler that joins the pool on the loop's thread return? | 2 workers, the loop, one TCP and one UDP peer, 2 messages, so that two answers are computed at once and overtake each other; a pipe of 2 bytes read one at a time, so that the two answers and `exit()` fill it |
| `server` | Is every socket that was handed to another loop attached there, is every client served, does `exit` end all loops? | 2 loops with unlimited queues, or one with room for one task; 2 TCP clients, 2 UDP connections |
| `loop` | Does a task whose `safeCall` returned always have a wake-up; does it run although `exit` races; do threads that wait for room in the pipe get through? | 2 clients and the callbacks of the loop, 4 posts, task capacity 2, a pipe of 3 bytes read 2 at a time, so that pipe and queue fill and a read leaves bytes |
| `timers` | Do repeating timers survive any mix of `runAt` and `cancel` from setup, handlers and callbacks, and make up for late rounds; is the poll neither too long nor too short? | offsets 1 and 3, intervals 0 and 2, poll limit 2, clock to 5, two calls of `runAt` |
| `conn` | Is one life of the connection ever entangled with the next; is everything released; does `close` close, and is a lost connection made again? | every combination of reconnect, connect timeout, idle callbacks, bad input and reference held by the program, except bad input together with reconnect or without a reference; 4 attempts, 3 `close`s |
| `scheduler` | Is a task ever in two places or in none; does what is due run whoever adds it when; does the destructor return with nothing left in the pool? | 2 workers, 2 tasks of any kind, delay and period 1, two instants, so that an interval task runs and is put back and both workers are busy; functions return or throw |
| `parts` | One question for each of ten parts, below | below |

The parts of `parts`:

* `Buffer` (`HoldsData`): the positions stay inside the array and the bytes where the
  positions say, whatever mix of `append`, reads, `consume`, `absorb` and assignment. 2 buffers, 2 bytes, capacity to 8.
* `TcpSend` (`OutputIntact`, `Flushes`): no mix of the forms of `send`, partial writes
  and reconnects loses, doubles or reorders data, and what waits is written.
  6 units in pieces of 1 and 2, 2 connections.
* `Codec` (`CodecRoundTrip`): what was encoded comes back, each message once and in order,
  whatever the cuts. Both codecs, 3 messages of up to 3 characters, with a limit
  of 2 for `LengthCodec`, so that one is too long, and a header that is no header.
* `Http` (`HttpExact`): each message reaches the callback once with its own body. 2 messages with heads of 1 and 2
  and bodies of 0, 1 and 3 bytes, all routes, server and client.
* `Poller` (`PendingIsLive`, `DestructorEnds`): no stale event reaches a channel, at a reused
  address too, and the destructor ends. 3 addresses, 5 channels created, 3 events per poll.
* `Conf` (`ParseIsRight`): the table and the number of the bad line agree with a
  definition of the format, and names of different sections do not meet unless a section has
  a dot. Files of 3 lines of 21 kinds, with capitals and dots.
* `Cron` (`NextMatch`): the search returns the first matching minute. Months of 2 and
  3 days, weeks of 3 days, days of 2 hours of 2 minutes, all expressions, seven starting
  points before and after each kind of boundary, 6 years.
* `Daemon` (`FileNamesDaemon`): between commands the file names the running daemon,
  and a stop that reports success left nothing. 3 daemons, 1 try of `stop`.
* `Logger` (`NoLineLost`): every line is in a file that has a name. 2 threads, 3 lines,
  3 periods of 2 minutes of one tick, failing `rename` and `open`.
* `Idle` (`NodesMatchIds`, `NoneMissed`): lists hold the nodes of open connections and no
  others while callbacks close connections, whose `idleIds_` stay, and no connection that is due is passed over. 2 connections, idle
  times 1 and 2 s, 2 ticks per second, 4 ticks.

Four runs show a disagreement between the code and what the repository says of it:

* `timers_cancel_twice`: `cancel` of a repeating timer that is gone is not
  ignored (`event_base.cc:266` uses `find`'s result without comparing it with
  `end()`), against `doc-en.md:92`.
* `conn_two_retries`: a reconnecting client that is lost with undecodable input
  runs the second half of `cleanup` twice and asks for two reconnects; the second
  meets the assertion of `conn.cc:29`.
* `conf_values`: a value ends at any comment sign and after the first white space
  (`conf.cc:106`); `test/files/normal.ini:16` and `:18` say that a comment sign
  inside a value needs white space before it to start a comment.
* `logger_rotates_twice`: a thread that read the time before a period ended and goes on when
  another has rotated stores the old time into `lastRotate_`, gets the newer one from
  `realRotate_` and rotates, against the comment of `logging.cc:76`; the next thread that
  logs rotates once more, and within the same minute its rename replaces the file of the
  first rotation.

The models reproduce other behaviours that a reader may not expect; the properties
of the passing runs name them as exceptions:

* `nextTimeout_` is an interval, and before the first round nothing refreshes it:
  the first poll may sleep beyond a timer by as long as the setup took
  (`FirstRound` in `WaitIsRight`).
* A difference of more than 2^31 ms is cut to `int` (`ToInt`); the loop then
  polls without waiting. The instance checked has no such timer.
* Data sent while handshaking, left in `output_` by a lost connection, or put
  there by `sendMsg` on a closed one, waits until the next `send` once the
  handshake has ended, because `handleHandshake` disables write events whatever
  is in `output_`; a `send(Buffer&)` then overtakes it (history variable `early`,
  `conn.cc:149`). Nothing is lost or doubled even then (the first two conjuncts of
  `OutputIntact`).
* With undecodable input, `cleanup` may use `channel_` when it is NULL
  (`conn.cc:250`, at the end of the loop while a reconnect is pending), or go on
  with a connection that its read callback has destroyed (`conn.cc:88`, when
  nothing but the channel holds it). `SafePrograms` in `MCTcpConn` leaves these
  programs out of `conn`; `fault` in `TcpConn` records them.
* `idleIds_` is never cleared. A cleanup within a cleanup, which undecodable input causes,
  and a read or a cleanup after the loop has cleared `idleConns_` (`event_base.cc:137`), use
  an iterator to an erased node (`event_base.cc:216`, `:221`). This is undefined: the
  behaviour ends there (`dangling` in `TcpConn` and `Idle`). `ReleasedAtEnd` excepts it for
  programs with idle callbacks, in these two situations and no others; `NodesMatchIds` speaks of the
  lists until then.
* At the end of the loop a connection that waits for its reconnect is told
  `Closed` again.
* Idle callbacks may come up to a second early, because times are cut to seconds.
* A callback of the loop that posts into a full pipe waits for itself
  (`SelfBlocked` in `EventLoop`).
* What `close()` posts from a task runs in the same event cycle, not in the next
  one (`conn.h:74`); `EventLoop.Drain` runs tasks until the queue is empty.
* `exit()` of an `HSHA` server on the loop's thread hangs when the wake-up pipe is full: a
  worker waits for room that only this thread could make, and it waits in `join()` for the
  worker, or in `base.exit()` for itself (`WakeupStuck` in `Hsha`; `LoopReturns` shows that this is the only
  way). With the default of Linux a pipe holds 65536 bytes, and a round reads 1024.
* A socket or the deletion of a UDP channel that is posted to a base after its `exit()`, or to
  a full task queue, is dropped with its descriptor (`PostedIsDone` speaks of what was
  queued before); so is a socket whose names cannot be read (`nameless` in `Server`).
* A message that reaches an `HSHA` server after the pool's `exit` is dropped, and a
  failing `bind` ends the process (`terminated` in `Hsha`).
* A second HTTP message in `input_` waits until another byte arrives, because a read
  handles one message (`piped`); `cleanup` gives a client its last message again
  (`Repeated`), and delivers a request whose URI was refused.
* A server's `HttpResponse` is not cleared between the requests of a connection: the
  status, body and file of an earlier answer remain unless the callback sets
  them (`resp` in `Http`). So `sendFile` after an answer 404 sends the file with that status, and
  the index page of a `StatServer` grows.
* `Continue100` is never returned: the names of headers are stored in lower case
  and `Expect` is looked up as it is written (`http.cc`).
* `LineCodec` takes a 0x04 for a message only when it is the one byte of the input, so
  what it decodes there depends on how the stream was cut.
* With a month and a day of the week, `cron_to_next` tests a stale `tm_wday` and may
  return a day that does not match (`NextMatch` excepts it); for a date that
  never comes it searches for ever (`MaxYear` ends it in the model).
* `stop()` of xy's queue stores its flag without the mutex: `notify_all` may fall
  between a thread's predicate and its sleep, and the destructor then waits for
  ever (`missed` in `Xy`; `XyDestructorReturns` shows that this is the only way).
* `daemonStart` tests and writes the file in separate steps, so two commands given at
  the same moment may leave two daemons; `Daemon` gives one command at a time.
* In `maybeRotate` a thread that stores, exchanges or tests with a time of a period that is
  over may set off a second rotation (`logger_rotates_twice`), which may cost the lines of the
  first (`late`, which `NoLineLost` excepts). So may an interval that is not of whole minutes: two
  rotations in a minute have one name (`WholeMinutes`).
* Sections and names are joined with a dot: `b.c` of section `a` and `c` of section `a.b`
  are one key, and their values one list (`SameName` in `Conf`).
* An interval task of the Bosma scheduler whose function throws is not added again; the
  exception stays in the `packaged_task` (`finished` in `Scheduler`).

Deadlock checking is off where the system may really stop: every model has a
bounded number of calls, and a pool that was joined, a loop that returned or a
poller that was destroyed does nothing any more. No run uses symmetry.

### Fairness

* `Hsha`: weak fairness of each worker (a running thread is scheduled and its tasks
  end, a write that has room returns), of the start of the server and of the loop's thread. Workers wait without
  a limit, so no wake-up comes from time passing; a poll ends only by an event.
* `Server`: each loop's thread goes on; `MultiBase::exit` goes on to the next base; a
  handler that accepts sockets comes to its end. The poller reports a listening socket that
  has waiting clients again and again (strong fairness, since other events may come first).
* `Xy`: the threads go on, those that wait for a mutex with strong fairness, and a
  sleep whose time is over ends. So `XyDueRuns` rests on the interrupt.
* `EventLoop`: the loop's thread goes on and its callbacks end; a thread inside
  `safeCall` or `exit` goes on when its write can. A poll without an event is
  *not* assumed to end, except the last one, which does not wait: so
  `ClientReturns` follows from the wake-up pipe alone.
* `Timers`: time passes, a poll whose time is over returns, rounds go on.
* `TcpSend`: the poller reports a writable socket whose write events are
  enabled. `TcpConn`: posted tasks are run and timers fire; nothing is assumed
  of the peer, of the program or of the handshake.
* `Scheduler`: every thread goes on, the functions of tasks end, and a thread that
  waits for a mutex which is free again and again gets it (strong fairness; with
  weak fairness alone, spurious wake-ups of one worker could keep the pool's mutex
  from everybody else). A sleep ends by itself only when its deadline has passed,
  so `DueTaskRuns` and `DestructorReturns` rest on `interrupt()`.
* `Poller`: the destructor goes on.

### Bounds

`MaxPush`, `MaxPost`, `MaxRunAt`, `MaxTime`, `MaxBirths`, `MaxSend`, `MaxConn`,
`MaxAttempts`, `MaxCloses`, `MaxTasks`, `MaxCap`, `MaxSize`, `MaxLen`, `MaxMsgs`, `MaxHttp`,
`MaxLines`, `MaxYear`, `MaxPid`, `MaxLogTime`, `MaxLog`, `MaxClock`, `MaxXyTasks` and `MaxXyTime` cap what the
environment does (`MaxText`, `MaxTries`, `PipeCap` and `ReadMax` are limits of the code and the system, made small), in the guards of its actions. Each is large enough that the
interesting limits of the code (capacity, pipe, array, a second attempt, a
second lap of a repeating timer) are passed at least once. The theorems do not
depend on their values.

## 4. What is proved

TLAPS checks these for every value of the constants that satisfies the
assumption named in the module that declares them (`SafeQueueAssumption`: finitely many
threads, the model values differ; the others likewise say that numbers are
numbers, that capacities and lengths of heads are positive, that model values differ, that
there are two bases or more and at least one worker; `CronAssumption` that every month has
a day, `ConfAssumption` that no line is empty, since `fgets` returns none, or holds the
mark of its end). Every safety property of every passing run is proved.

Four theorems have a hypothesis besides (the two about `TcpConn` the same one):

* `SafeOnly` (`TcpConn`): a program whose peer may send undecodable input does not
  reconnect and holds a reference. For the other programs the code is known to
  fail (section 3, `conn_two_retries` and `fault`).
* `TimesFit` (`WaitIsRight`): offsets, intervals and the time the program runs fit in an
  `int` of milliseconds. Beyond that `ToInt` wraps and the statement is false.
* `LinesOnly` (`CodecRoundTrip`): with `LineCodec` no message has a line feed or
  begins with 0x04, which that codec gives another meaning.

The inductive invariants, and what each needs besides its property:

* `SafeQueueProofs`: `IInv` is inductive. `NoLostWakeup` compares the number of
  queued items with the number of woken threads while somebody sleeps; for the
  step of a thread that goes to sleep it needs `BlockSeesEmpty` (what a thread
  saw under the mutex still holds) and `OwnerBlocks` (only the owner of the mutex
  is about to sleep), for that of a timed wait `ExpiredIsTimed`, and for
  `ExitWakesAll` that a notifier has stored `exit_` (`ExitingMeansExit`).
  From it follow `Fifo`, `WithinCapacity`, `NoLostWakeup`, `ExitWakesAll`,
  `EmptyHandedMeansExit`, and that the queue implements `FifoChannel`.
  For `Hsha`, every step of the server is first shown to be a step of the queue or to leave it
  alone, so `HshaSpec` implements the specification of `SafeQueue` (`HshaImplementsQueue`), and
  what is proved of a queue with arbitrary callers holds of the one in the server
  (`HshaQueueKeeps`). `NoAnswerLost` then needs `AnswersKept`
  (an answer that was computed is posted, sent, empty, or its peer is gone), `WillSend`
  (answers that wait have a worker about to write to the pipe, a byte in it, or a loop that
  is running them, and the last round has seen every byte) and `OwnerOrder` (the workers have ended before the loop leaves its `while`).
* `EventLoopProofs`: `TaskHasWakeup` and `NoTaskLostAtExit`. The second needs to
  know, in every place of the last round, whether the pipe's handler is still to
  come (`LastRound`), that a task is always queued, in hand or done
  (`QueuedIsKnown`), and that task numbers are not reused (`Numbered`). For `Idle`,
  `NodesMatchIds` and `NoneMissed` with `Lists`
  (a list has one node per open connection that is registered and is sorted by time; a
  connection that is closed is named by its `idleIds_` only) and
  `RoundInv` (in the list that is walked each node is dealt with or still in the copy, where those that
  are not due come last, so that stopping at the first of them passes over nobody).
* `TimersProofs`: repeating timers and their records match one to one
  (`RepeatingTimersIntact`), which rests on sequence numbers being unique in
  `timers_`, in `timerReps_` and among the ids handed out (`SeqsUnique`); then
  `CancelStops` and `QuietAfterExit` (with `ExitIsFinal`). `CatchesUp` needs that a record's time is
  `start` plus its runs times `interval` (`NoDrift`) and `RepsOnTime`: that time is the one of its
  entry, its last run was due, and a round leaves nothing due. `WaitIsRight` adds
  `TimesInRange`: no entry is further than an `int` from the clock in either direction.
* `PollerProofs`: `PendingIsLive` with `PendingDistinct` (the search of
  `removeChannel` stops at the first hit, which is enough because no channel has
  two pending events), and `AllClosed`.
* `ServerProofs`, `PostedIsDone`: `EarlyKept` says that a task accepted before `exit` is done
  or in the queue of a base that `WillRun` it: the base runs its tasks, or its batch of
  events holds the pipe's, or a further batch will. `LastIsExit` says that only a loop that
  was told to exit is in its last round, after which there is no further batch.
* `ServerProofs`, `HttpExact`: what waits in `input_` and on the wire is a
  suffix of the messages sent (`Stream`, `MsgAt`), `Decoding` ties `scanned_`,
  `contentLen_` and the body to the place reached in the first of them, and
  `HtTurns` says which message a complete one is for each role. A decoder that
  resumes is right because what it kept refers to the bytes that are first in the input.
* `TcpConnProofs`: `ConnInv` describes the connection between two handlers: a channel exactly
  while it is alive, a connect timer of this attempt only and only then, at most one reconnect
  timer and only while it waits, callbacks that outlive it only then, and no erased idle node while
  the loop runs unless it is over for good; or (`Broken`) an erased node was used. Since the handlers nest, there
  is a lemma for each operator, from the inner ones outwards. `TimeoutIsCurrent` and
  `ReleasedAtEnd` follow.
* `SchedulerProofs`, `OneInstance`: `Placed` says that a task is in exactly one of the map, the entry being
  added, the queue, a worker, or finished, and `Base` that the lock protects the
  entry and the batch of the round. `DestructorDrains`: `DrainInv` follows the managing function through
  `none`, queue, worker and `ended`, and says that the last worker to leave found the
  queue empty. For `Xy`, `XyInv`: an entry is in one place only (`XyOnePlace`); `SleepRight` says that
  from its look at the map on the loop has an `until` no later than any entry, or the
  flag of the sleep is up, and that it sleeps only with the flag down; `InThreads` that
  whoever is in the loop or in `addTask` is a thread that has not ended, or the owner; `PushAlone` that
  nobody adds an entry while the due ones are pushed. From it `SleepCoversTasks`,
  `XyRunsOnce` and `XyQuietAtEnd`; the last two are in no run.
* `PartsProofs`: `HoldsData` with the type invariant as its strengthening, and
  `RoomIsMade`. `OutputIntact` with `NothingWaits` (when write events are off nothing waits,
  the exception `early` aside). `CodecRoundTrip` with `Follows`, a function that gives
  for each message what comes after it on the wire: it stands for the
  recursive concatenation, which could not be reasoned about; and `NoneWhole`, by which
  the decoding loop stops only at less than a message. `FileNamesDaemon` with `OneStarts` (a
  daemon that is starting is the only one) and `FileOrWait` (the running
  daemon is in the file or a command waits for it). `NoLineLost` with
  `TimeIsFresh` (what a thread has stored stays of its period until that is over), `OwnName` and
  `LaterNamesFree`: two threads that rename have different periods, and periods of whole minutes
  have names of their own, so neither renames over the other's file.
* `PartsProofs`, `ParseIsRight`: `ConfInv` says that while `err` is 0 `section` and `key` are
  those of the last line that gives one, that no line so far is malformed, and (`Listed`) that
  the list of each key holds exactly the lines that give it a value, in the order of the file; that
  a key without a dot in its section determines section and name takes the place of the dot in it.
  The scan of a line needs no induction: what `ConsumeTill` and the others
  stop at is the least element of a set of places, which exists. What a file means is defined
  from its lines before a given one, so a further line changes nothing said of
  the earlier ones.
* `PartsProofs`, `NextMatch`: `SearchInv` says that `next` is a normal broken-down time after
  `from`, that no minute before it matches, and that `wday` is the weekday of that time
  whenever the expression leaves the month open. `MkTime` and `LocalTime` are shown to be inverse on normal
  times, so that each of the four moves is from one minute to a later one; every minute it
  passes over shares the field that differs.

Only model-checked:

* every liveness property: fairness and `ENABLED` are beyond this prover;
* what the four runs that end in a violation show;
* that the search of `Cron` ends when a date matches, which is liveness too;
* the part of `ThreadPool` that `Hsha` does not rest on.

## 5. Not modelled, and the plan

Not modelled because there is no state or only I/O: `file`, `util`, `slice`,
`status`, `port_posix`, protobuf messages, the examples and raw examples (programs
that use the library or the system calls). The kqueue poller has the structure
of the epoll one.

Left out of parts that are modelled: `changeTo` of the daemon and `Signal`; the integer, real
and boolean getters of `Conf`; format and levels of log
lines and `setFileName` at run time; `resize` and `stop(false)` of the `ctpl` pool, which
nothing calls; the parsing of `at()`; datagrams of a `UdpConn`, which are handed to a
callback; a `LengthCodec` header with a negative length, which `tryDecode` does not
refuse; HTTP answers that are sent after the callback returned, and the contents
of headers and arguments, and a negative `Content-Length`, which becomes a huge `size_t`
(`http.cc:63`); the nodes of a reconnecting client in the walk of `callIdles`; a clock that is
set back (`util.cc:49` reads the system's); more than `kMaxEvents` = 2000 events that are ready
at once (`poller.cc:88`), so the last round of a loop in `EventLoop`, `Server` and `Hsha` always reports
the pipe; errors of `accept` (`conn.cc:340`), which only end the round. Below the models:
the lifetime of `std::function` objects, allocation failure, the wording of log
messages.

Order of the work:

1. `SafeQueue`, `ThreadPool`, `FifoChannel` with proofs (done).
2. `EventLoop`, `Timers`, `Poller`, `Idle` with proofs (done).
3. `TcpSend`, `TcpConn`, `Buffer` with proofs (done).
4. `Server` and `Hsha` with proofs (done).
5. The Bosma and the xy scheduler with proofs (done; left is a common
   abstract scheduler that both should implement).
6. `Codec`, `Http`, `Conf`, `Cron` against reference definitions with proofs (done).
7. `Daemon` and `Logger` with proofs (done; left is a daemon with commands that overlap,
   which needs a statement of what the file then promises).
