------------------------------ MODULE TcpSend ------------------------------
(***************************************************************************)
(* handy/conn.cc: the output side of a TcpConn.  send writes to the socket *)
(* what the kernel takes at once and keeps the rest in output_; the rest   *)
(* is written by handleWrite when the poller reports the socket writable,  *)
(* which it does only while the channel's write events are enabled.        *)
(*                                                                         *)
(* Data are units numbered in the order in which the program sends them; a *)
(* call sends one or two of them.  The connection is made (Handshaking),   *)
(* established, lost, and made again by a client that reconnects.          *)
(***************************************************************************)
EXTENDS Naturals, Sequences

CONSTANTS MaxSend,      \* bound: units sent by the program
          MaxConn       \* bound: connections made

ASSUME TcpSendAssumption == /\ MaxSend \in Nat /\ MaxConn \in Nat \ {0}

VARIABLES state,         \* state_
          writeEnabled,  \* channel_->writeEnabled()
          output,        \* output_
          kernel,        \* the socket: connecting, open, broken (a write error occurred)
          wire,          \* what was written to the current socket
          sent,          \* what the program has sent that this connection is to carry
          posted,        \* how many units the program has sent
          conns,         \* how many connections were made
          early          \* history: the handshake left data in output_

sendVars == <<state, writeEnabled, output, kernel, wire, sent, posted, conns, early>>

\* attach: a new channel waits for both kinds of events.
SendInit == /\ state = "Handshaking" /\ writeEnabled = TRUE
            /\ output = <<>> /\ wire = <<>> /\ sent = <<>>
            /\ kernel = "connecting" /\ posted = 0 /\ conns = 1 /\ early = FALSE

-----------------------------------------------------------------------------

First(data, k) == SubSeq(data, 1, k)
Rest(data, k) == SubSeq(data, k + 1, Len(data))

\* isend(data): the kernel takes the first k units.  When it takes no more for now
\* (EAGAIN) the write events are enabled; any other error only ends the loop.
\* While the connection is being made the kernel takes nothing.
ISend(data, k, w) ==
    /\ k \in 0 .. Len(data)
    /\ kernel # "open" => k = 0
    /\ wire' = wire \o First(data, k)
    /\ \/ /\ k = Len(data) \/ kernel # "broken"
          /\ w = (writeEnabled \/ k < Len(data))
          /\ kernel' = kernel
       \/ /\ k < Len(data) /\ kernel # "connecting"
          /\ w = writeEnabled
          /\ kernel' = "broken"

NewData(n) == [i \in 1 .. n |-> posted + i]

\* What every call of send that finds a channel does to the history.
Sending(n) == /\ state # "Closed" /\ posted + n <= MaxSend
              /\ posted' = posted + n
              /\ sent' = sent \o NewData(n)
              /\ UNCHANGED <<state, conns, early>>

\* Mutant: send(const char *) writes to the socket although output_ is not empty.
SendBytes_Overtakes(n) ==
    /\ Sending(n)
    /\ \E k \in 0 .. n, w \in BOOLEAN :
           /\ ISend(NewData(n), k, w)
           /\ output' = output \o Rest(NewData(n), k)
           /\ writeEnabled' = w

\* send(const char *, len): when output_ is empty the socket is tried first; what is
\* left is appended to output_.
SendBytes(n) ==
    /\ Sending(n)
    /\ IF output = <<>>
       THEN \E k \in 0 .. n, w \in BOOLEAN :
                /\ ISend(NewData(n), k, w)
                /\ output' = Rest(NewData(n), k)
                /\ writeEnabled' = w
       ELSE /\ output' = output \o NewData(n)
            /\ UNCHANGED <<writeEnabled, kernel, wire>>

\* send(Buffer &) of a buffer other than output_: enabled write events stand for
\* "output_ is waiting"; the rest of what the socket did not take is absorbed.
SendBuffer(n) ==
    /\ Sending(n)
    /\ IF writeEnabled
       THEN /\ output' = output \o NewData(n)
            /\ UNCHANGED <<writeEnabled, kernel, wire>>
       ELSE \E k \in 0 .. n, w \in BOOLEAN :
                /\ ISend(NewData(n), k, w)
                /\ output' = output \o Rest(NewData(n), k)
                /\ writeEnabled' = (w \/ k < n)

\* sendMsg: the message is encoded into output_, then send(output_), where absorb
\* of a buffer into itself does nothing.
SendMsg(n) ==
    /\ Sending(n)
    /\ LET data == output \o NewData(n)
       IN \E k \in 0 .. Len(data), w \in BOOLEAN :
              /\ ISend(data, k, w)
              /\ output' = Rest(data, k)
              /\ writeEnabled' = (w \/ k < Len(data))

\* sendMsg without a channel: the message is in output_ when send finds that out.  The
\* other forms drop their data.
SendMsgClosed(n) == /\ state = "Closed" /\ posted + n <= MaxSend
                    /\ posted' = posted + n
                    /\ output' = output \o NewData(n) /\ sent' = sent \o NewData(n)
                    /\ UNCHANGED <<state, writeEnabled, kernel, wire, conns, early>>

\* handleHandshake when the socket has become writable: the channel is told to wait
\* for read events only, whatever is in output_.
Handshake == /\ state = "Handshaking" /\ kernel = "open"
             /\ state' = "Connected"
             /\ writeEnabled' = FALSE
             /\ early' = (output # <<>>)
             /\ UNCHANGED <<output, kernel, wire, sent, posted, conns>>

\* The write events stay enabled while output_ is not empty.
Disable(out, w) == w /\ out # <<>>

\* Mutant: handleWrite leaves output_ to the next send.
HandleWrite_NoWrite ==
    /\ state = "Connected" /\ writeEnabled /\ kernel = "open"
    /\ writeEnabled' = Disable(output, writeEnabled)
    /\ UNCHANGED <<state, output, kernel, wire, sent, posted, conns, early>>

\* handleWrite: a writable socket takes at least one unit.  When output_ has become
\* empty writablecb_ may send more, and what it leaves keeps the write events on.
HandleWrite ==
    /\ state = "Connected" /\ writeEnabled /\ kernel = "open"
    /\ \E k \in 0 .. Len(output), w \in BOOLEAN :
           /\ output # <<>> => k > 0
           /\ ISend(output, k, w)
           /\ output' = Rest(output, k)
           /\ writeEnabled' = Disable(output', w)
    /\ UNCHANGED <<state, sent, posted, conns, early>>

\* The same with a writablecb_ that calls send(const char *).
HandleWritable(n) ==
    /\ state = "Connected" /\ writeEnabled /\ kernel = "open"
    /\ posted + n <= MaxSend
    /\ posted' = posted + n
    /\ sent' = sent \o NewData(n)
    /\ \E k \in 0 .. n :
           /\ wire' = wire \o output \o First(NewData(n), k)
           /\ output' = Rest(NewData(n), k)
           /\ kernel' \in IF k < n THEN {"open", "broken"} ELSE {"open"}
    /\ writeEnabled' = Disable(output', writeEnabled)
    /\ UNCHANGED <<state, conns, early>>

-----------------------------------------------------------------------------

\* The kernel completes the connection.
Established == /\ kernel = "connecting"
               /\ kernel' = "open"
               /\ UNCHANGED <<state, writeEnabled, output, wire, sent, posted, conns, early>>

\* cleanup: the connection failed, the peer closed it, or the program did.
LoseConnection == /\ state \in {"Handshaking", "Connected"}
                  /\ state' = "Closed"
                  /\ UNCHANGED <<writeEnabled, output, kernel, wire, sent, posted, conns, early>>

\* reconnect and connect: a new socket and a new channel; output_ is kept, so what
\* is in it is to be carried by the new connection.
ReConnect == /\ state = "Closed" /\ conns < MaxConn
             /\ state' = "Handshaking" /\ writeEnabled' = TRUE
             /\ kernel' = "connecting" /\ wire' = <<>>
             /\ sent' = output
             /\ conns' = conns + 1 /\ early' = FALSE
             /\ UNCHANGED <<output, posted>>

SendNext == \/ \E n \in 1 .. 2 : SendBytes(n) \/ SendBuffer(n) \/ SendMsg(n) \/ SendMsgClosed(n)
                                 \/ HandleWritable(n)
            \/ Handshake \/ HandleWrite \/ Established \/ LoseConnection \/ ReConnect

SendSpec == SendInit /\ [][SendNext]_sendVars

\* The poller reports a writable socket whose write events are enabled.
FairSendSpec == SendSpec /\ WF_sendVars(HandleWrite)

-----------------------------------------------------------------------------

\* Every variable has its type.
SendTypeOK == /\ state \in {"Handshaking", "Connected", "Closed"}
              /\ writeEnabled \in BOOLEAN /\ kernel \in {"connecting", "open", "broken"}
              /\ output \in Seq(Nat) /\ wire \in Seq(Nat) /\ sent \in Seq(Nat)
              /\ posted \in Nat /\ conns \in Nat /\ early \in BOOLEAN

Units(s) == {s[i] : i \in DOMAIN s}

\* Whatever forms of send are mixed, however little the kernel takes and whenever the
\* connection is established or made again: each unit that a connection is to carry was
\* written once or waits once in output_, and in the order of the calls.  The order
\* fails only when the handshake leaves data in output_ without write events:
\* send(Buffer &) then overtakes it.
OutputIntact == /\ Units(wire) \cup Units(output) = Units(sent)
                /\ Len(wire) + Len(output) = Len(sent)
                /\ ~early => sent = wire \o output

\* What waits in output_ of an established connection is written, or the connection
\* is lost, unless the handshake left it there.
Flushes == state = "Connected" /\ output # <<>> /\ ~early
               ~> output = <<>> \/ state # "Connected" \/ kernel = "broken"
=============================================================================
