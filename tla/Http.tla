-------------------------------- MODULE Http --------------------------------
(***************************************************************************)
(* handy/http.cc: HttpConnPtr and HttpServer.  One end of a keep-alive     *)
(* connection, a server that answers in its callback or a client that      *)
(* sends a request when it has the answer to the one before, decodes what  *)
(* it reads; tryDecode_ goes on where it stopped, in scanned_, contentLen_ *)
(* and complete_, and clearData consumes what was decoded.                 *)
(*                                                                         *)
(* A message has Head bytes of header, the four of the blank line, and     *)
(* its body.  Its k-th byte is the cell [msg, k]: what a byte is worth is  *)
(* only whether the blank line starts there.                               *)
(***************************************************************************)
EXTENDS Naturals, Sequences

CONSTANTS Heads,       \* header lengths
          Bodies,      \* body lengths (content-length)
          MaxHttp      \* bound: messages on the connection

ASSUME HttpAssumption == /\ Heads \subseteq Nat \ {0} /\ Bodies \subseteq Nat
                         /\ MaxHttp \in Nat

VARIABLES role,        \* server or client
          htMsgs,      \* history: the messages the other end has sent
          htWire,      \* their bytes under way
          htInput,     \* input_
          msg,         \* the HttpMsg that is being decoded
          resp,        \* the server's HttpResponse of this connection
          htGot,       \* history: what the callback was called with
          asked,       \* requests the client has sent
          htConn,      \* open, closing (close() was called), or closed (cleanup)
          piped        \* history: bytes of two messages were in input_ together

httpVars == <<role, htMsgs, htWire, htInput, msg, resp, htGot, asked, htConn, piped>>

\* How the server's callback for a message answers: with a response of its own, with
\* the connection's after setting its body, with setNotFound (the default callback, or
\* sendFile of a missing file), with sendFile of a file, or of one that cannot be read,
\* or with the index page of a StatServer.  The other pages of a StatServer are shared
\* or missing.  With badUri and badLine the first line or a header line is malformed.
Routes == {"own", "shared", "missing", "file", "unreadable", "index", "badUri", "badLine"}
StatusOf(route) == CASE route = "missing" -> 404 [] route = "unreadable" -> 500 [] OTHER -> 200

\* HttpMsg::clear
Clear_ == [scanned |-> 0, contentLen |-> 0, complete |-> FALSE, body |-> <<>>]

\* HttpResponse::clear
NewResponse == [status |-> 200, body |-> 0, body2 |-> FALSE]

HttpInit == /\ role \in {"server", "client"}
            /\ htMsgs = <<>> /\ htWire = <<>> /\ htInput = <<>> /\ msg = Clear_
            /\ resp = NewResponse
            /\ htGot = <<>> /\ asked = 0 /\ htConn = "open" /\ piped = FALSE

-----------------------------------------------------------------------------

Cells(i, from, to) == [k \in 1 .. (to + 1 - from) |-> [msg |-> i, k |-> from + k - 1]]
BlankLine(cell) == cell.k = htMsgs[cell.msg].head + 1
BodyOf(i) == Cells(i, htMsgs[i].head + 5, htMsgs[i].head + 4 + htMsgs[i].body)

\* The other end sends its next message: a client any time, a server when it was asked.
HttpPeerSends == /\ Len(htMsgs) < MaxHttp
                 /\ role = "client" => Len(htMsgs) < asked
                 /\ \E h \in Heads, b \in Bodies,
                       r \in IF role = "server" THEN Routes ELSE {"own", "badLine"} :
                        LET i == Len(htMsgs) + 1
                        IN  /\ htMsgs' = Append(htMsgs, [head |-> h, body |-> b, route |-> r])
                            /\ htWire' = htWire \o Cells(i, 1, h + 4 + b)
                 /\ UNCHANGED <<role, htInput, msg, resp, htGot, asked, htConn, piped>>

\* The search for the blank line, from scanned_ on: where it is, or where to go on.
Scan(in, from) ==
    LET hits == {p \in from .. (Len(in) - 4) : Len(in) >= 4 /\ BlankLine(in[p + 1])}
    IN  IF hits # {} THEN [found |-> TRUE, at |-> CHOOSE p \in hits : \A q \in hits : p <= q]
        ELSE [found |-> FALSE, at |-> IF Len(in) >= from + 4 THEN Len(in) - 3 ELSE from]

\* The end of tryDecode_: the body is complete or not.
WithBody(in, m) ==
    IF Len(in) >= m.contentLen + m.scanned
    THEN [scanned |-> m.scanned + m.contentLen, contentLen |-> m.contentLen, complete |-> TRUE,
          body |-> SubSeq(in, m.scanned + 1, m.scanned + m.contentLen)]
    ELSE m

\* HttpRequest::tryDecode looks at the first line when tryDecode_ has just read it; a
\* URI it refuses is not seen again.
BadUri(m) == m.route = "badUri"

\* tryDecode: what becomes of the message, and Error.  getHeader("Expect") finds
\* nothing, since the names were put into headers in lower case: Continue100 is never
\* returned.
TryDecode_(in, m) ==
    LET s == Scan(in, m.scanned)
        first == htMsgs[in[1].msg]
    IN  IF m.complete THEN [m |-> m, err |-> FALSE]
        ELSE IF m.contentLen # 0 THEN [m |-> WithBody(in, m), err |-> FALSE]
        ELSE IF ~s.found THEN [m |-> [m EXCEPT !.scanned = s.at], err |-> FALSE]
        ELSE IF first.route = "badLine" THEN [m |-> [m EXCEPT !.scanned = s.at], err |-> TRUE]
        ELSE [m |-> WithBody(in, [m EXCEPT !.scanned = s.at + 4, !.contentLen = first.body]),
              err |-> BadUri(first)]

\* Mutant: clear() leaves contentLen_.
ClearData_KeepsLength(in, m) ==
    /\ htInput' = SubSeq(in, m.scanned + 1, Len(in))
    /\ msg' = [Clear_ EXCEPT !.contentLen = m.contentLen]

\* clearData: the decoded bytes are consumed and the message cleared.
ClearData(in, m) == /\ htInput' = SubSeq(in, m.scanned + 1, Len(in))
                    /\ msg' = Clear_

\* What the callback does to the response it uses; body counts the texts it is made of.
\* The index page of a StatServer appends the body that it finds.
Filled(r, route) ==
    CASE route \in {"missing", "unreadable"} -> [r EXCEPT !.status = StatusOf(route), !.body = 1]
      [] route = "file"                      -> [r EXCEPT !.body2 = TRUE]
      [] route = "index"                     -> [r EXCEPT !.body = @ + 1]
      [] OTHER                               -> [r EXCEPT !.body = 1]

\* The callback answers, with a response of its own or with the connection's, which the
\* server never clears: its status, body and body2 stay for the next callback that uses it.
Respond(route) == resp' = IF route = "own" THEN resp ELSE Filled(resp, route)

\* handleRead: an error closes the connection, which happens in a later step; a complete
\* message is given to the callback, where the server answers and clears the data.  A
\* client's message stays until its next request.
HandleRead(in, r) ==
    LET given == r.m.complete /\ ~r.err
    IN  /\ htGot' = IF given THEN Append(htGot, [msg |-> in[1].msg, body |-> r.m.body]) ELSE htGot
        /\ IF given /\ role = "server"
           THEN ClearData(in, r.m) /\ Respond(htMsgs[in[1].msg].route)
           ELSE htInput' = in /\ msg' = r.m /\ UNCHANGED resp

\* TcpConn has read k more bytes and calls the read callback.
HttpRead(k) ==
    LET in == htInput \o SubSeq(htWire, 1, k)
    IN  /\ htConn # "closed" /\ k \in 1 .. Len(htWire)
        /\ htWire' = SubSeq(htWire, k + 1, Len(htWire))
        /\ piped' = (piped \/ in[1].msg # in[Len(in)].msg)
        /\ LET r == TryDecode_(in, msg)
           IN  HandleRead(in, r) /\ htConn' = IF r.err THEN "closing" ELSE htConn
        /\ UNCHANGED <<role, htMsgs, asked>>

\* The connection ends, after k more bytes: cleanup calls the read callback once more
\* if there is input.
HttpCleanup(k) ==
    LET in == htInput \o SubSeq(htWire, 1, k)
    IN  /\ htConn # "closed" /\ k \in 0 .. Len(htWire)
        /\ htConn' = "closed"
        /\ htWire' = SubSeq(htWire, k + 1, Len(htWire))
        /\ IF in = <<>> THEN UNCHANGED <<htGot, htInput, msg, resp>>
           ELSE HandleRead(in, TryDecode_(in, msg))
        /\ UNCHANGED <<role, htMsgs, asked, piped>>

\* sendRequest of a client whose last request has been answered.
SendRequest == /\ role = "client" /\ htConn = "open" /\ asked < MaxHttp
               /\ asked = Len(htGot)
               /\ asked' = asked + 1
               /\ ClearData(htInput, msg)
               /\ UNCHANGED <<role, htMsgs, htWire, resp, htGot, htConn, piped>>

HttpNext == \/ HttpPeerSends \/ SendRequest
            \/ \E k \in 0 .. Len(htWire) : HttpRead(k) \/ HttpCleanup(k)

HttpSpec == HttpInit /\ [][HttpNext]_httpVars

-----------------------------------------------------------------------------

\* The last call of a client's callback came from cleanup, with the message it has had.
Repeated(j) == /\ role = "client" /\ htConn = "closed" /\ j = Len(htGot) /\ j > 1
               /\ htGot[j] = htGot[j - 1]

\* tryDecode_ and clearData over a keep-alive connection: the callback gets each message
\* that was sent once, in order, with its own body, however its bytes are cut, but for a
\* client's last one, which cleanup gives it again; none with a malformed line, and none
\* with a refused URI but while the connection closes.  When all bytes have come, all
\* messages have been given to it, unless the other end did not wait for an answer (a
\* second message in input_ waits for a byte more).
HttpExact == /\ \A j \in DOMAIN htGot :
                    /\ Repeated(j) \/ htGot[j] = [msg |-> j, body |-> BodyOf(j)]
                    /\ htMsgs[htGot[j].msg].route # "badLine"
                    /\ htMsgs[htGot[j].msg].route = "badUri" => htConn # "open"
             /\ htWire = <<>> /\ ~piped /\ htConn = "open" => Len(htGot) = Len(htMsgs)
=============================================================================
