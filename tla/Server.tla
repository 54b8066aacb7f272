------------------------------- MODULE Server -------------------------------
(***************************************************************************)
(* handy/conn.cc: TcpServer; handy/event_base: MultiBase and the choice of *)
(* a base for each accepted socket; handy/udp.cc: UdpConn.                 *)
(*                                                                         *)
(* A program runs its server either on a MultiBase, several loops with a   *)
(* thread each and unlimited task queues, or on one EventBase whose queue  *)
(* may be limited.  Each loop is EventLoop reduced to its task queue, its  *)
(* wake-up pipe and its rounds; safeCall's push and its write to the pipe  *)
(* are one step here.  The server accepts on the first base.               *)
(***************************************************************************)
EXTENDS Naturals, Sequences, FiniteSets

CONSTANTS NBases,         \* size of the MultiBase
          TaskCapacity,   \* taskCapacity of the limited EventBase
          Socks,          \* TCP clients that connect
          Udps            \* UDP connections of the program, on the first base

ASSUME ServerAssumption == /\ NBases \in Nat \ {0, 1} /\ TaskCapacity \in Nat \ {0}
                           /\ Socks \cap Udps = {}

VARIABLES n,        \* bases_.size()
          cap,      \* capacity of the task queues, 0: unlimited
          nextId,   \* id_
          server,   \* the listening socket
          at,       \* where each loop is
          last,     \* it is in its last loop_once(0)
          woken,    \* the pipe's event is in this round's batch
          pipe,     \* its wake-up pipe holds a byte
          exiting,  \* its exit_
          queue,    \* its tasks_: sockets to add, channels to delete
          sock,     \* state of each client's socket
          udp,      \* state of each UDP connection's channel
          early     \* history: what was posted to a base before its exit()

serverVars == <<n, cap, nextId, server, at, last, woken, pipe, exiting, queue, sock, udp, early>>
loopPart == <<at, last, woken, exiting>>

Bases == 1 .. n
Acceptor == 1

\* MultiBase(sz), or EventBase(taskCapacity); the server's constructor has taken
\* the first base.
ServerInit ==
    /\ \/ n = NBases /\ cap = 0
       \/ n = 1 /\ cap = TaskCapacity
    /\ nextId = 1 /\ server = "new"
    /\ at = [b \in Bases |-> "new"]
    /\ last = [b \in Bases |-> FALSE] /\ woken = [b \in Bases |-> FALSE]
    /\ pipe = [b \in Bases |-> FALSE] /\ exiting = [b \in Bases |-> FALSE]
    /\ queue = [b \in Bases |-> <<>>]
    /\ sock = [c \in Socks |-> "none"] /\ udp = [u \in Udps |-> "none"]
    /\ early = {}

-----------------------------------------------------------------------------

\* startServer: bind fails and nothing is left, or the socket listens.
StartServer == /\ server = "new"
               /\ server' \in {"listening", "failed"}
               /\ UNCHANGED <<n, cap, nextId, loopPart, pipe, queue, sock, udp, early>>

\* A client connects; the kernel queues it.
Connect(c) == /\ server = "listening" /\ sock[c] = "none"
              /\ sock' = [sock EXCEPT ![c] = "backlog"]
              /\ UNCHANGED <<n, cap, nextId, server, loopPart, pipe, queue, udp, early>>

Backlog == {c \in Socks : sock[c] = "backlog"}

\* Mutant: the loop is not woken.
SafeCall_NoWakeup(b, x) ==
    /\ queue' = [queue EXCEPT ![b] = Append(@, x)]
    /\ early' = IF exiting[b] THEN early ELSE early \cup {x}
    /\ UNCHANGED pipe

\* safeCall: the result of push is ignored, the loop is woken in any case.
SafeCall(b, x) ==
    /\ IF cap # 0 /\ Len(queue[b]) >= cap
       THEN UNCHANGED <<queue, early>>
       ELSE /\ queue' = [queue EXCEPT ![b] = Append(@, x)]
            /\ early' = IF exiting[b] THEN early ELSE early \cup {x}
    /\ pipe' = [pipe EXCEPT ![b] = TRUE]

\* handleAccept starts: the listening channel is readable.
AcceptEvent == /\ at[Acceptor] = "events" /\ Backlog # {}
               /\ at' = [at EXCEPT ![Acceptor] = "accept"]
               /\ UNCHANGED <<n, cap, nextId, server, last, woken, exiting, pipe, queue, sock, udp,
                              early>>

\* One turn of its loop.  A socket whose names cannot be read is skipped and not
\* closed.  allocBase chooses the base: on the acceptor's own base the connection
\* is attached at once, on another one it is posted.
Accept(c) ==
    /\ at[Acceptor] = "accept" /\ c \in Backlog
    /\ \/ /\ sock' = [sock EXCEPT ![c] = "nameless"]
          /\ UNCHANGED <<nextId, pipe, queue, early>>
       \/ LET b == 1 + (nextId % n)
          IN  /\ nextId' = nextId + 1
              /\ IF b = Acceptor
                 THEN /\ sock' = [sock EXCEPT ![c] = "attached"]
                      /\ UNCHANGED <<pipe, queue, early>>
                 ELSE /\ sock' = [sock EXCEPT ![c] = "posted"]
                      /\ SafeCall(b, c)
    /\ UNCHANGED <<n, cap, server, loopPart, udp>>

\* accept has returned EAGAIN.
AcceptDone == /\ at[Acceptor] = "accept" /\ Backlog = {}
              /\ at' = [at EXCEPT ![Acceptor] = "events"]
              /\ UNCHANGED <<n, cap, nextId, server, last, woken, exiting, pipe, queue, sock, udp,
                              early>>

\* UdpConn::createConnection, by code of the program on the first base's thread, before
\* its loop runs too: socket or connect fails, or there is a channel.
UdpCreate(u) == /\ at[Acceptor] \in {"new", "events"} /\ udp[u] = "none"
                /\ udp' \in {[udp EXCEPT ![u] = r] : r \in {"live", "failed"}}
                /\ UNCHANGED <<n, cap, nextId, server, loopPart, pipe, queue, sock, early>>

\* UdpConn::close on the loop's thread, by the program or by the read callback:
\* the channel is forgotten and its deletion posted.  The read callback of a
\* connection without a channel calls close, which does nothing.
UdpClose(u) == /\ at[Acceptor] \in {"new", "events"} /\ udp[u] = "live"
               /\ udp' = [udp EXCEPT ![u] = "forgotten"]
               /\ SafeCall(Acceptor, u)
               /\ UNCHANGED <<n, cap, nextId, server, loopPart, sock>>

-----------------------------------------------------------------------------

\* MultiBase::loop starts a thread for every base but the last, which it runs itself.
StartLoop(b) == /\ at[b] = "new"
                /\ b = n => \A a \in Bases \ {n} : at[a] # "new"
                /\ at' = [at EXCEPT ![b] = "events"]
                /\ last' = [last EXCEPT ![b] = exiting[b]]
                /\ woken' = [woken EXCEPT ![b] = pipe[b]]
                /\ UNCHANGED <<n, cap, nextId, server, exiting, pipe, queue, sock, udp, early>>

\* The handler of the wake-up pipe reads it empty and runs the tasks.
HandleWakeup(b) == /\ at[b] = "events" /\ woken[b]
                   /\ at' = [at EXCEPT ![b] = "tasks"]
                   /\ woken' = [woken EXCEPT ![b] = FALSE]
                   /\ pipe' = [pipe EXCEPT ![b] = FALSE]
                   /\ UNCHANGED <<n, cap, nextId, server, last, exiting, queue, sock, udp, early>>

\* addcon attaches the socket to this base; the other task deletes a channel.
RunTask(b) == /\ at[b] = "tasks" /\ queue[b] # <<>>
              /\ LET x == Head(queue[b])
                 IN  IF x \in Socks
                     THEN sock' = [sock EXCEPT ![x] = "attached"] /\ UNCHANGED udp
                     ELSE udp' = [udp EXCEPT ![x] = "deleted"] /\ UNCHANGED sock
              /\ queue' = [queue EXCEPT ![b] = Tail(@)]
              /\ UNCHANGED <<n, cap, nextId, server, loopPart, pipe, early>>

TasksDone(b) == /\ at[b] = "tasks" /\ queue[b] = <<>>
                /\ at' = [at EXCEPT ![b] = "events"]
                /\ UNCHANGED <<n, cap, nextId, server, last, woken, exiting, pipe, queue, sock, udp,
                              early>>

\* Mutant: the loop ends without the last loop_once(0).
RoundDone_NoLast(b) ==
    /\ at[b] = "events" /\ ~woken[b]
    /\ at' = [at EXCEPT ![b] = IF exiting[b] THEN "over" ELSE "events"]
    /\ woken' = [woken EXCEPT ![b] = pipe[b]]
    /\ UNCHANGED <<n, cap, nextId, server, last, exiting, pipe, queue, sock, udp, early>>

\* while (!exit_) loop_once(10000); then loop_once(0): the next round's batch is
\* what the pipe holds now.
RoundDone(b) == /\ at[b] = "events" /\ ~woken[b]
                /\ at' = [at EXCEPT ![b] = IF last[b] THEN "over" ELSE "events"]
                /\ last' = [last EXCEPT ![b] = @ \/ exiting[b]]
                /\ woken' = [woken EXCEPT ![b] = ~last[b] /\ pipe[b]]
                /\ UNCHANGED <<n, cap, nextId, server, exiting, pipe, queue, sock, udp, early>>

ExitFrom(b) == /\ \A a \in 1 .. (b - 1) : exiting[a]
               /\ ~exiting[b]
               /\ exiting' = [exiting EXCEPT ![b] = TRUE]
               /\ pipe' = [pipe EXCEPT ![b] = TRUE]
               /\ UNCHANGED <<n, cap, nextId, server, at, last, woken, queue, sock, udp, early>>

\* Mutant: exit() stops before the last base.
ExitBase_OneShort(b) == b \in 1 .. (n - 1) /\ ExitFrom(b)

\* MultiBase::exit exits the bases in order; a caller may be anywhere.
ExitBase(b) == ExitFrom(b)

LoopStep(b) == StartLoop(b) \/ HandleWakeup(b) \/ RunTask(b) \/ TasksDone(b) \/ RoundDone(b)
AcceptStep == AcceptEvent \/ AcceptDone \/ \E c \in Socks : Accept(c)

ServerNext == \/ StartServer \/ AcceptStep
              \/ \E c \in Socks : Connect(c)
              \/ \E u \in Udps : UdpCreate(u) \/ UdpClose(u)
              \/ \E b \in Bases : LoopStep(b) \/ ExitBase(b)

\* The threads run, the listening channel's event is dispatched in some round (the
\* poller reports it as long as a client waits), and a call of exit() is finished
\* once begun; clients owe nothing.
ServerSpec == /\ ServerInit /\ [][ServerNext]_serverVars
              /\ \A b \in 1 .. NBases : /\ WF_serverVars(b \in Bases /\ LoopStep(b))
                                        /\ WF_serverVars(b \in Bases \ {1} /\ ExitBase(b))
              /\ SF_serverVars(AcceptEvent)
              /\ WF_serverVars(AcceptDone \/ \E c \in Socks : Accept(c))

-----------------------------------------------------------------------------

\* Every variable has its type.
ServerTypeOK ==
    /\ at \in [Bases -> {"new", "events", "accept", "tasks", "over"}]
    /\ queue \in [Bases -> Seq(Socks \cup Udps)]
    /\ sock \in [Socks -> {"none", "backlog", "nameless", "posted", "attached"}]
    /\ udp \in [Udps -> {"none", "failed", "live", "forgotten", "deleted"}]

\* handleAccept hands a socket to a base of another thread, UdpConn::close posts the
\* deletion of its channel: what was queued before that base was told to exit is done
\* when its loop has returned, whatever else happens meanwhile.  (What is posted
\* later may be lost, with its descriptor.)
PostedIsDone ==
    (\A b \in Bases : at[b] = "over") =>
        \A x \in early : IF x \in Socks THEN sock[x] = "attached" ELSE udp[x] = "deleted"

\* A client that connects is attached to a base, unless its names could not be read
\* or the program is ending, whichever thread accepted it.
ClientServed ==
    \A c \in Socks : sock[c] = "backlog" ~> sock[c] \in {"attached", "nameless"} \/ exiting[1]

\* MultiBase::loop returns after exit(): every base's thread ends.
ServerReturns == exiting[1] ~> \A b \in Bases : at[b] = "over"
=============================================================================
