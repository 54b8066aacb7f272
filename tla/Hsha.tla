-------------------------------- MODULE Hsha --------------------------------
(***************************************************************************)
(* handy/conn.cc and handy/udp.cc: HSHA and HSHAU, the half-synchronous    *)
(* half-asynchronous servers over TCP and over UDP.  The loop's thread     *)
(* (Main) turns each message into a task of the thread pool; a worker      *)
(* computes the answer and posts its sending back to the loop; the handler *)
(* that ends the program calls base.exit() and then exit(), which stops    *)
(* and joins the pool on the loop's thread.                                *)
(*                                                                         *)
(* The pool and its queue are ThreadPool and SafeQueue.  The loop is       *)
(* EventLoop reduced to what the workers see of it: the posted tasks, the  *)
(* wake-up pipe, whose writers wait when it is full, and the last          *)
(* loop_once(0).                                                           *)
(***************************************************************************)
EXTENDS ThreadPool

CONSTANTS Peers,    \* the clients
          Udp,      \* those that use the UDP server
          PipeCap,  \* how many bytes the wake-up pipe holds
          ReadMax   \* how many of them one read takes

ASSUME HshaAssumption == /\ Udp \subseteq Peers /\ Clients = {Main}
                         /\ PipeCap \in Nat \ {0} /\ ReadMax \in Nat \ {0}

VARIABLES loop,     \* where the loop's thread is
          last,     \* it is in the last loop_once(0)
          woken,    \* the pipe's event of this round is still to be handled
          pipe,     \* bytes in the wake-up pipe
          writing,  \* workers in the wakeup() of a safeCall
          stopping, \* exit_ of the base
          posted,   \* tasks_ of the base: answers to be sent
          asker,    \* the peer of each task
          open,     \* peers that can be answered
          empty,    \* history: tasks whose callback returned ""
          sent      \* history: answers sent

loopVars == <<loop, last, woken, pipe, writing, stopping, posted, asker, open, empty, sent>>
hshaVars == <<poolVars, loopVars>>

HshaInit == /\ PoolInit
            /\ loop = "ctor" /\ last = FALSE /\ woken = FALSE /\ pipe = 0 /\ writing = {}
            /\ stopping = FALSE /\ posted = <<>> /\ asker = <<>> /\ open = Peers
            /\ empty = {} /\ sent = {}

-----------------------------------------------------------------------------

\* What becomes of bind of the TcpServer or the UdpServer.
BindResults == {"bound", "failed"}

\* ~ThreadPool asserts exited(): threads that run end the process.
DestroyPool == IF exit THEN "over" ELSE "terminated"

\* startServer: the pool is started by its constructor, then the socket bound.  When
\* that fails the pool is destroyed, with its threads running.
StartServer ==
    /\ loop = "ctor"
    /\ \/ \E w \in Workers : Start(w) /\ UNCHANGED loopVars
       \/ /\ Started
          /\ \E r \in BindResults : loop' = IF r = "bound" THEN "poll" ELSE DestroyPool
          /\ UNCHANGED <<last, woken, pipe, writing, stopping, posted, asker, open, empty,
                         sent>>

\* A message of a connection or a datagram has come; one that recvfrom cannot read is
\* none.
Readable(p) == loop = "events" /\ p \in open

\* onMsg's callback for a message of a connection or a datagram.  The result of
\* addTask is ignored: a message that comes after the pool has exited is dropped.
OnMsg(p) == /\ Readable(p)
            /\ AddTask(Main)
            /\ asker' = IF pushed' = pushed THEN asker ELSE Append(asker, p)
            /\ UNCHANGED <<loop, last, woken, pipe, writing, stopping, posted, open,
                           empty, sent>>

\* A TCP peer goes away; the UDP server's socket stays.
PeerCloses(p) == /\ loop = "events" /\ p \in open \ Udp
                 /\ open' = open \ {p}
                 /\ UNCHANGED <<poolVars, loop, last, woken, pipe, writing, stopping,
                                posted, asker, empty, sent>>

\* The task of a worker: the callback's answer, which may be empty, and the push of
\* getBase()->safeCall.
Work(w) == /\ wpc[w] = "run" /\ w \notin writing
           /\ posted' = Append(posted, ret[w])
           /\ writing' = writing \cup {w}
           /\ empty' \in {empty, empty \cup {ret[w]}}
           /\ UNCHANGED <<poolVars, loop, last, woken, pipe, stopping, asker, open, sent>>

\* Mutant: the answer is queued without waking the loop.
Wakeup_Missing(w) == /\ w \in writing
                     /\ WorkerRun(w)
                     /\ writing' = writing \ {w}
                     /\ UNCHANGED <<loop, last, woken, pipe, stopping, posted, asker,
                                    open, empty, sent>>

\* wakeup(): a write of one byte, which waits while the pipe is full; then the task ends.
Wakeup(w) == /\ w \in writing /\ pipe < PipeCap
             /\ WorkerRun(w)
             /\ pipe' = pipe + 1 /\ writing' = writing \ {w}
             /\ UNCHANGED <<loop, last, woken, stopping, posted, asker, open, empty,
                            sent>>

PoolThread(w) == \/ (WorkerTest(w) \/ WorkerPop(w)) /\ UNCHANGED loopVars
                 \/ Work(w) \/ Wakeup(w)

-----------------------------------------------------------------------------

\* loop_once: the poller returns, after 10 s at the latest.
Poll == /\ loop = "poll"
        /\ loop' = "events" /\ woken' = (pipe > 0)
        /\ UNCHANGED <<poolVars, last, pipe, writing, stopping, posted, asker, open,
                       empty, sent>>

\* The handler of the wake-up pipe: one read, then the posted tasks.
HandleWakeup == /\ loop = "events" /\ woken
                /\ loop' = "tasks" /\ woken' = FALSE
                /\ pipe' = IF pipe <= ReadMax THEN 0 ELSE pipe - ReadMax
                /\ UNCHANGED <<poolVars, last, writing, stopping, posted, asker, open,
                               empty, sent>>

\* if (output.size()) con->sendMsg(output) or con->sendTo(output, addr): a closed
\* connection only warns, and so does a sendto that fails: sent is what was handed
\* to the connection or to the socket.
SendAnswer == /\ loop = "tasks" /\ posted # <<>>
              /\ LET t == Head(posted)
                 IN  sent' = IF t \notin empty /\ asker[t] \in open THEN sent \cup {t} ELSE sent
              /\ posted' = Tail(posted)
              /\ UNCHANGED <<poolVars, loop, last, woken, pipe, writing, stopping, asker,
                             open, empty>>

TasksDone == /\ loop = "tasks" /\ posted = <<>>
             /\ loop' = "events"
             /\ UNCHANGED <<poolVars, last, woken, pipe, writing, stopping, posted, asker,
                            open, empty, sent>>

\* loop(): while (!exit_) loop_once(10000); then loop_once(0).
RoundDone == /\ loop = "events" /\ ~woken
             /\ loop' = IF last THEN "over" ELSE "poll"
             /\ last' = (last \/ stopping)
             /\ UNCHANGED <<poolVars, woken, pipe, writing, stopping, posted, asker, open,
                            empty, sent>>

\* The handler that ends the program: base.exit() stores exit_ ...
BaseExit == /\ loop = "events" /\ ~stopping
            /\ stopping' = TRUE /\ loop' = "exiting"
            /\ UNCHANGED <<poolVars, last, woken, pipe, writing, posted, asker, open,
                           empty, sent>>

\* ... and calls wakeup(), whose write waits for room in the pipe too ...
ExitWakeup == /\ loop = "exiting" /\ pipe < PipeCap
              /\ pipe' = pipe + 1 /\ loop' = "stop"
              /\ UNCHANGED <<poolVars, last, woken, writing, stopping, posted, asker,
                             open, empty, sent>>

\* Mutant: exit() does not wait for the workers.
ServerExit_NoJoin == /\ loop = "stop"
                     /\ Exit \/ Join \/ (main = "joining" /\ UNCHANGED poolVars)
                     /\ loop' = IF main = "joining" THEN "events" ELSE "stop"
                     /\ UNCHANGED <<last, woken, pipe, writing, stopping, posted, asker,
                                    open, empty, sent>>

\* Mutant: exit() joins the pool without telling it to exit.
ServerExit_OnlyJoin == /\ loop = "stop"
                       /\ Join
                       /\ loop' = "events"
                       /\ UNCHANGED <<last, woken, pipe, writing, stopping, posted, asker,
                                      open, empty, sent>>

\* ... and exit(): threadPool_.exit(), threadPool_.join().
ServerExit == /\ loop = "stop"
              /\ Exit \/ Join
              /\ loop' = IF main' = "joined" THEN "events" ELSE "stop"
              /\ UNCHANGED <<last, woken, pipe, writing, stopping, posted, asker, open,
                             empty, sent>>

LoopStep == \/ Poll \/ HandleWakeup \/ SendAnswer \/ TasksDone \/ RoundDone
            \/ ExitWakeup \/ ServerExit

HshaNext == \/ StartServer \/ LoopStep \/ BaseExit
            \/ \E p \in Peers : OnMsg(p) \/ PeerCloses(p)
            \/ \E w \in Workers : loop # "terminated" /\ PoolThread(w)
            \/ \E w \in Workers : loop # "terminated" /\ WorkerSpurious(w) /\ UNCHANGED loopVars

\* The loop's thread and the workers run; peers and the handler that ends the
\* program owe nothing.
HshaSpec == /\ HshaInit /\ [][HshaNext]_hshaVars
            /\ WF_hshaVars(StartServer) /\ WF_hshaVars(LoopStep)
            /\ \A w \in Workers : WF_hshaVars(loop # "terminated" /\ PoolThread(w))

-----------------------------------------------------------------------------

\* Every variable of the server has its type.
HshaTypeOK == /\ loop \in {"ctor", "terminated", "poll", "events", "tasks", "exiting", "stop",
                          "over"}
              /\ {last, woken, stopping} \subseteq BOOLEAN
              /\ pipe \in 0 .. PipeCap /\ writing \subseteq Workers
              /\ posted \in Seq(Values) /\ asker \in Seq(Peers) /\ open \subseteq Peers
              /\ empty \subseteq Values /\ sent \subseteq Values

\* HSHA::exit() joins the workers before the loop leaves its while, and loop() ends
\* with a last loop_once(0): every answer a worker computed is sent before loop()
\* returns, unless it is empty or its connection has been closed.
NoAnswerLost ==
    loop = "over" => \A t \in ran : t \in sent \cup empty \/ asker[t] \notin open

\* A message the pool accepted is answered, unless its answer is empty, its
\* connection closes or the server is told to exit.
MessageAnswered ==
    \A t \in Values : t \in DOMAIN asker ~>
        t \in sent \cup empty \/ stopping \/ (t \in DOMAIN asker /\ asker[t] \notin open)

\* A writer waits for room in the pipe that only the loop's thread could make, and that
\* thread is the writer, or is in the join of the pool and waits for it.
WakeupStuck == pipe = PipeCap /\ (loop = "exiting" \/ (loop = "stop" /\ writing # {}))

\* The handler that calls base.exit() and exit() on the loop's thread returns, and so
\* does loop(), unless the wake-up pipe is full while it does: workers that post their
\* last answers write to the pipe and nobody reads it.  That is the only way to hang.
LoopReturns == stopping ~> loop = "over" \/ WakeupStuck
=============================================================================
