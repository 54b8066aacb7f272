------------------------------ MODULE TcpConn ------------------------------
(***************************************************************************)
(* handy/conn.cc, handy/event_base.cc: the life of one client TcpConn on   *)
(* one EventBase: connect with a timeout, handshake, input, close from any *)
(* thread, cleanup, reconnect, and the end of the loop and of the base.    *)
(*                                                                         *)
(* Handlers nest: cleanup calls the read callback, which closes the        *)
(* channel when the input cannot be decoded, which calls handleRead of the *)
(* connection, which calls cleanup.  So every function of the code is an   *)
(* operator from the record of the connection to its outcome, and every    *)
(* action runs the function that the event loop calls.  Output is the      *)
(* subject of TcpSend, the timer queue of Timers, the task queue of        *)
(* EventLoop: here a timer that was set is pending until it fires or is    *)
(* cancelled, and a task that was posted is run.  The lists of idle        *)
(* connections are the subject of Idle: here is what their nodes are to a  *)
(* connection, whose idleIds_ are iterators into them and never cleared.   *)
(***************************************************************************)
EXTENDS Naturals, FiniteSets

CONSTANTS Programs,     \* how the connection is used, see Program
          MaxAttempts,  \* bound: calls of connect
          MaxCloses     \* bound: calls of close()

\* reconnect: reconnectInterval_ >= 0; timeout: connectTimeout_ > 0; badData: the peer
\* may send what the codec rejects; held: the program keeps a TcpConnPtr; idle: it
\* adds idle callbacks.
Program == [reconnect : BOOLEAN, timeout : BOOLEAN, badData : BOOLEAN, held : BOOLEAN,
            idle : BOOLEAN]

ASSUME TcpConnAssumption == /\ Programs \subseteq Program
                            /\ MaxAttempts \in Nat /\ MaxCloses \in Nat

VARIABLES c,        \* the connection, see Conn
          exited,   \* exit_ of the base
          phase,    \* loop, then last (the last loop_once), then destroyed
          calls,    \* how often the program has called close()
          prog      \* the program, which does not change

vars == <<c, exited, phase, calls, prog>>

States == {"Invalid", "Handshaking", "Connected", "Closed", "Failed"}

\* What is in input_ after the complete messages have been consumed.
Inputs == {"empty", "partial", "bad"}

\* chan is none when channel_ is NULL and shut when its fd is -1; cbs says that the
\* callbacks are set; waiting that the connection is in reconnectConns_; timeouts
\* holds the attempts whose connect timer is pending (timeoutId_ names the one of
\* the last attempt), retries counts the pending reconnect timers, closes the posted
\* close tasks; idles says what idleIds_ names, nodes that are in their list (live) or
\* that are erased (gone); fault is how the process died, or went wrong: dangling is
\* the use of an iterator to an erased node, after which anything may happen.
Conn == [state : States, chan : {"none", "open", "shut"}, input : Inputs,
         cbs : BOOLEAN, waiting : BOOLEAN, attempt : Nat,
         timeouts : SUBSET (1 .. MaxAttempts), retries : Nat, closes : Nat,
         idles : SUBSET {"live", "gone"},
         fault : {"none", "fatalif", "null", "freed", "dangling"}]

Init == /\ c = [state |-> "Invalid", chan |-> "none", input |-> "empty", cbs |-> TRUE,
                waiting |-> FALSE, attempt |-> 0, timeouts |-> {}, retries |-> 0,
                closes |-> 0, idles |-> {}, fault |-> "none"]
        /\ exited = FALSE /\ phase = "loop" /\ calls = 0 /\ prog \in Programs

Alive == c.fault = "none" /\ phase # "destroyed"

-----------------------------------------------------------------------------
(* cleanup and what it calls.  x says that the base has exited.            *)

\* Mutant: the connect timer survives the attempt.
CancelTimeout_Missing(r) == r

\* getBase()->cancel(timeoutId_)
CancelTimeout(r) == [r EXCEPT !.timeouts = @ \ {r.attempt}]

\* Mutant: reconnect sets no timer.
Retry_NoTimer(r, y) == [r EXCEPT !.waiting = TRUE, !.chan = "none"]

\* TcpConn::reconnect.  The base ignores the timer when it has exited meanwhile (y).
Retry(r, y) == [r EXCEPT !.waiting = TRUE, !.chan = "none",
                         !.retries = IF y THEN @ ELSE @ + 1]

\* Nodes that were in the lists are erased from them.
Erased(idles) == IF idles = {} THEN {} ELSE {"gone"}

\* The end of cleanup without a reconnect: every node of idleIds_ is unregistered, the
\* callbacks are reset and the channel deleted.
Release(r) == IF "gone" \in r.idles THEN [r EXCEPT !.fault = "dangling"]
              ELSE [r EXCEPT !.idles = Erased(@), !.cbs = FALSE, !.chan = "none"]

\* Mutant: cleanup reconnects although the base has exited.
CleanupTail_AlwaysRetries(r, x, y) ==
    LET s == [r EXCEPT !.state = IF @ = "Handshaking" THEN "Failed" ELSE "Closed"]
        t == CancelTimeout(s)
    IN IF prog.reconnect THEN Retry(t, y) ELSE Release(t)

\* cleanup after the read callback has returned.
CleanupTail(r, x, y) ==
    LET s == [r EXCEPT !.state = IF @ = "Handshaking" THEN "Failed" ELSE "Closed"]
        t == CancelTimeout(s)
    IN IF prog.reconnect /\ ~x THEN Retry(t, y) ELSE Release(t)

\* Channel::close and the handleRead it calls.  With the fd gone a Handshaking
\* connection fails in handleHandshake and a Connected one is cleaned up in the read
\* loop; any other ignores the call.  The read callback of this cleanup finds the
\* channel shut, so its own close does nothing.
ChannelClose(r, x, y) ==
    IF r.chan # "open" THEN r
    ELSE LET s == [r EXCEPT !.chan = "shut"]
         IN IF r.state \in {"Handshaking", "Connected"} THEN CleanupTail(s, x, y) ELSE s

\* The callback that onMsg installs: input that cannot be decoded closes the channel,
\* through a channel_ that is not tested for NULL.
ReadCallback(r, x, y) ==
    IF ~r.cbs \/ r.input # "bad" THEN r
    ELSE IF r.chan = "none" THEN [r EXCEPT !.fault = "null"]
    ELSE ChannelClose(r, x, y)

\* Nothing refers to the connection: its channel is gone, and no timer, task, idle node
\* or reconnectConns_ holds it.
Unreferenced(r) == /\ ~prog.held /\ r.chan = "none" /\ ~r.waiting
                   /\ r.closes = 0 /\ r.timeouts = {} /\ "live" \notin r.idles

\* TcpConn::cleanup.  When it was called through the channel, the read callback may
\* have destroyed the connection before the rest of cleanup uses it.
Cleanup(r, x, y) ==
    LET s == ReadCallback(r, x, y)
    IN CASE s.fault # "none" -> s
         [] s.fault = "none" /\ r.chan # "none" /\ Unreferenced(s) -> [s EXCEPT !.fault = "freed"]
         [] OTHER -> CleanupTail(s, x, y)

\* TcpConn::connect and attach: channel_ is NULL here, and input_ is kept.
ConnectTo(r, x) ==
    IF r.state \notin {"Invalid", "Closed", "Failed"} THEN [r EXCEPT !.fault = "fatalif"]
    ELSE [r EXCEPT !.state = "Handshaking", !.chan = "open", !.attempt = @ + 1,
                   !.timeouts = IF prog.timeout /\ ~x THEN @ \cup {r.attempt + 1} ELSE @]

\* A function of the connection runs on the loop's thread while another thread may
\* call exit() between its test of exited() and its call of runAfter.
Runs(F(_, _)) == /\ Alive
                 /\ \E y \in {exited, TRUE} : c' = F(exited, y) /\ exited' = y

-----------------------------------------------------------------------------

\* createConnection
Connect == /\ Alive /\ phase = "loop" /\ c.attempt = 0 /\ MaxAttempts > 0
           /\ c' = ConnectTo(c, exited)
           /\ UNCHANGED <<exited, phase, calls, prog>>

\* The socket became writable while Handshaking and poll says POLLOUT alone.
Handshake == /\ Alive /\ c.state = "Handshaking" /\ c.chan = "open"
             /\ c' = [c EXCEPT !.state = "Connected"]
             /\ UNCHANGED <<exited, phase, calls, prog>>

\* ... or anything else.
HandshakeFails == /\ c.state = "Handshaking" /\ c.chan = "open"
                  /\ Runs(LAMBDA x, y : Cleanup(c, x, y))
                  /\ UNCHANGED <<phase, calls, prog>>

\* What a read adds to input_: a partial message may be completed or not, and what
\* the codec rejects stays at the front.
Arrives(old) == IF old = "bad" THEN {"bad"}
                ELSE {"empty", "partial"} \cup (IF prog.badData THEN {"bad"} ELSE {})

\* handleRead: the socket has no more for now (EAGAIN): the idle nodes are updated, and
\* the callback is called.
HandleRead == /\ c.state = "Connected" /\ c.chan = "open"
              /\ \E i \in Arrives(c.input) :
                     Runs(LAMBDA x, y :
                              IF "gone" \in c.idles THEN [c EXCEPT !.fault = "dangling"]
                              ELSE ReadCallback([c EXCEPT !.input = i], x, y))
              /\ UNCHANGED <<phase, calls, prog>>

\* handleRead: end of file or an error, perhaps after more input.
HandleReadEnds == /\ c.state = "Connected" /\ c.chan = "open"
                  /\ \E i \in Arrives(c.input) \cup {c.input} :
                         Runs(LAMBDA x, y : Cleanup([c EXCEPT !.input = i], x, y))
                  /\ UNCHANGED <<phase, calls, prog>>

\* A connect timer fires: it closes a connection that is still Handshaking.
TimeoutFires ==
    /\ phase = "loop"
    /\ \E a \in c.timeouts :
           LET r == [c EXCEPT !.timeouts = @ \ {a}]
           IN Runs(LAMBDA x, y : IF r.state = "Handshaking" THEN ChannelClose(r, x, y) ELSE r)
    /\ UNCHANGED <<phase, calls, prog>>

\* A reconnect timer fires.
RetryFires == /\ Alive /\ phase = "loop" /\ c.retries > 0 /\ c.attempt < MaxAttempts
              /\ c' = ConnectTo([c EXCEPT !.retries = @ - 1, !.waiting = FALSE], exited)
              /\ UNCHANGED <<exited, phase, calls, prog>>

\* addIdleCB, by a callback or before the loop runs.
AddIdle == /\ Alive /\ prog.idle /\ c.chan # "none"
           /\ c' = [c EXCEPT !.idles = @ \cup {"live"}]
           /\ UNCHANGED <<exited, phase, calls, prog>>

\* close(), by any thread: a task is posted when there is a channel.
Close == /\ Alive /\ calls < MaxCloses
         /\ calls' = calls + 1
         /\ c' = IF c.chan = "none" THEN c ELSE [c EXCEPT !.closes = @ + 1]
         /\ UNCHANGED <<exited, phase, prog>>

\* Mutant: the task closes only a Connected connection.
CloseTask_ConnectedOnly ==
    /\ c.closes > 0
    /\ Runs(LAMBDA x, y : IF c.state = "Connected"
                          THEN ChannelClose([c EXCEPT !.closes = @ - 1], x, y)
                          ELSE [c EXCEPT !.closes = @ - 1])
    /\ UNCHANGED <<phase, calls, prog>>

\* The task that close() posted; closeNow() is its body called at once.
CloseTask ==
    /\ c.closes > 0
    /\ Runs(LAMBDA x, y : ChannelClose([c EXCEPT !.closes = @ - 1], x, y))
    /\ UNCHANGED <<phase, calls, prog>>

-----------------------------------------------------------------------------

\* EventBase::exit
Exit == /\ Alive /\ ~exited
        /\ exited' = TRUE
        /\ UNCHANGED <<c, phase, calls, prog>>

\* loop() after its while: the timers and the idle lists are dropped, and connections
\* that wait for a reconnect are cleaned up.
LoopEnds == /\ phase = "loop" /\ exited
            /\ LET r == [c EXCEPT !.timeouts = {}, !.retries = 0, !.idles = Erased(@)]
               IN Runs(LAMBDA x, y : IF r.waiting THEN Cleanup(r, x, y) ELSE r)
            /\ phase' = "last"
            /\ UNCHANGED <<calls, prog>>

\* The base is destroyed after the last loop_once: the poller closes every channel
\* that it still knows, and posted tasks are dropped.
Destroy == /\ phase = "last"
           /\ Runs(LAMBDA x, y : ChannelClose([c EXCEPT !.closes = 0], x, y))
           /\ phase' = "destroyed"
           /\ UNCHANGED <<calls, prog>>

Next == \/ Connect \/ Handshake \/ HandshakeFails \/ HandleRead \/ HandleReadEnds
        \/ TimeoutFires \/ RetryFires \/ AddIdle \/ Close \/ CloseTask
        \/ Exit \/ LoopEnds \/ Destroy

Spec == Init /\ [][Next]_vars

\* The loop runs its tasks and its timers, leaves when it was told to, and the
\* program destroys the base after the loop.
FairSpec == /\ Spec
            /\ WF_vars(CloseTask) /\ WF_vars(RetryFires) /\ WF_vars(TimeoutFires)
            /\ WF_vars(LoopEnds) /\ WF_vars(Destroy)

-----------------------------------------------------------------------------

\* Every variable has its type.
TypeOK == /\ c \in Conn /\ exited \in BOOLEAN
          /\ phase \in {"loop", "last", "destroyed"} /\ calls \in 0 .. MaxCloses
          /\ prog \in Programs

\* A connect timer that is pending belongs to the current attempt, and to an attempt
\* that is not over: the timeout of an earlier attempt never fails a later one,
\* although the timer is left running when the handshake succeeds.
TimeoutIsCurrent == c.timeouts \subseteq {c.attempt}
                    /\ (c.state \notin {"Handshaking", "Connected"} => c.timeouts = {})

\* The process does not die, and when the base is gone the connection has neither a
\* channel nor callbacks that may hold it, whichever of peer, program, timeout and
\* exit came first, unless it was never used.  The exception is a program with idle
\* callbacks: its cleanup uses nodes that are erased when input that cannot be decoded
\* makes cleanup nest, and in all that loop() does after it has dropped the idle lists.
ReleasedAtEnd ==
    \/ c.fault = "dangling" /\ prog.idle /\ (prog.badData \/ phase # "loop")
    \/ /\ c.fault = "none"
       /\ phase = "destroyed" => /\ c.attempt > 0 => c.chan = "none" /\ ~c.cbs
                                 /\ c.state \in {"Invalid", "Closed", "Failed"}

\* The assertion of connect (conn.cc:29): connect is only called in a state in which
\* there is no connection.
ConnectIsLegal == c.fault # "fatalif"

\* A close() that was posted closes the channel it saw, or that channel is gone
\* already, or the process went wrong first (see ReleasedAtEnd).
CloseCloses == \A a \in 1 .. MaxAttempts :
    c.closes > 0 /\ c.attempt = a /\ c.chan = "open"
        ~> c.attempt > a \/ c.chan # "open" \/ c.fault # "none"

\* A lost connection of a reconnecting client is made again, unless the base exits.
Reconnects == c.state \in {"Closed", "Failed"} /\ c.attempt < MaxAttempts /\ prog.reconnect
                  ~> c.state = "Handshaking" \/ exited
=============================================================================
