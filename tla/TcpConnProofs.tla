--------------------------- MODULE TcpConnProofs ---------------------------
(***************************************************************************)
(* Proofs about TcpConn for any number of attempts and of close() calls,   *)
(* and for every program of the kind the code serves: the timeout of an    *)
(* attempt never outlives it, the process does not die but where erased    *)
(* idle nodes are used, and the end of the base leaves neither a channel   *)
(* nor callbacks.                                                          *)
(***************************************************************************)
EXTENDS TcpConn, TLAPS

\* A peer whose data cannot be decoded comes only with a connection that is not to be
\* made again and that the program holds; for other programs the code is known to
\* fail (ConnectIsLegal is violated).
SafeOnly == \A p \in Programs : p.badData => ~p.reconnect /\ p.held

Live == {"Handshaking", "Connected"}
Over == {"Closed", "Failed"}

\* The connection between two handlers, when its program is p and the loop in phase ph:
\* a channel exactly while it is alive, one reconnect timer at most and only while it
\* waits, callbacks that outlive it only while it waits for a reconnect, and while the
\* loop runs no erased idle node unless it is over for good.
ConnOK(r, p, ph) ==
    /\ r \in Conn /\ r.fault = "none" /\ r.attempt <= MaxAttempts
    /\ r.chan # "shut" /\ (r.chan = "open" <=> r.state \in Live)
    /\ r.attempt = 0 <=> r.state = "Invalid"
    /\ r.input = "bad" => p.badData
    /\ r.timeouts \subseteq {r.attempt} /\ (r.state \notin Live => r.timeouts = {})
    /\ r.waiting => r.state \in Over /\ p.reconnect
    /\ r.retries > 0 => r.waiting /\ r.retries = 1
    /\ r.state \in Over => (r.waiting /\ ph = "loop") \/ ~r.cbs
    /\ r.idles # {} => p.idle
    /\ "gone" \in r.idles /\ ph = "loop" => r.state \in Over /\ ~r.waiting

\* An erased idle node was used: the connection stays as it is.
Broken(r, p, ph) ==
    /\ r \in Conn /\ r.fault = "dangling" /\ p.idle /\ (p.badData \/ ph # "loop")
    /\ r.timeouts \subseteq {r.attempt} /\ (r.state \notin Live => r.timeouts = {})

ConnInv == /\ prog \in Programs /\ exited \in BOOLEAN
           /\ phase \in {"loop", "last", "destroyed"}
           /\ phase # "loop" => exited
           /\ \/ Broken(c, prog, phase)
              \/ ConnOK(c, prog, phase) /\ (phase = "destroyed" => c.chan = "none")

\* cleanup after the read callback leaves a connection that is over, or uses an erased
\* node.
LEMMA TailOK ==
    ASSUME NEW r \in Conn, NEW x \in BOOLEAN, NEW y \in BOOLEAN, NEW ph, prog \in Program,
           r.fault = "none", r.attempt \in 1 .. MaxAttempts, r.timeouts \subseteq {r.attempt},
           r.input = "bad" => prog.badData, r.waiting => prog.reconnect,
           r.retries > 0 => r.waiting /\ r.retries = 1,
           prog.reconnect /\ ~x => ph = "loop" /\ r.retries = 0 /\ "gone" \notin r.idles,
           r.waiting => ph # "loop",
           r.idles # {} => prog.idle, "gone" \in r.idles => prog.badData \/ ph # "loop"
    PROVE  \/ Broken(CleanupTail(r, x, y), prog, ph)
           \/ ConnOK(CleanupTail(r, x, y), prog, ph) /\ CleanupTail(r, x, y).chan = "none"
<1> DEFINE st == IF r.state = "Handshaking" THEN "Failed" ELSE "Closed"
           t  == [r EXCEPT !.state = st, !.timeouts = {}]
<1>1. st \in Over /\ st \in States
  BY DEF Over, States
<1>2. CancelTimeout([r EXCEPT !.state = st]) = t
  BY DEF CancelTimeout, Conn
<1>3. t \in Conn
  BY <1>1 DEF Conn
<1>4. CleanupTail(r, x, y) = IF prog.reconnect /\ ~x THEN Retry(t, y) ELSE Release(t)
  BY <1>2 DEF CleanupTail, Conn
<1>5. /\ t.state = st /\ t.chan = r.chan /\ t.input = r.input /\ t.cbs = r.cbs
      /\ t.waiting = r.waiting /\ t.attempt = r.attempt /\ t.timeouts = {}
      /\ t.retries = r.retries /\ t.closes = r.closes /\ t.fault = "none"
      /\ t.idles = r.idles
  BY DEF Conn
<1>6. r.attempt \in Nat \ {0} /\ r.retries \in Nat
  BY TcpConnAssumption DEF Conn
<1> HIDE DEF t, st
<1>7. CASE prog.reconnect /\ ~x
  <2> DEFINE n == Retry(t, y)
  <2>1. /\ n \in Conn /\ n.state = st /\ n.chan = "none" /\ n.input = r.input
        /\ n.waiting = TRUE /\ n.attempt = r.attempt /\ n.timeouts = {}
        /\ n.retries = (IF y THEN 0 ELSE 1) /\ n.fault = "none" /\ n.idles = r.idles
    <3> DEFINE k == IF y THEN t.retries ELSE t.retries + 1
    <3>1. k \in Nat /\ k = IF y THEN 0 ELSE 1
      BY <1>5, <1>7
    <3>2. n = [t EXCEPT !.waiting = TRUE, !.chan = "none", !.retries = k]
      BY <1>3 DEF Retry, Conn
    <3> HIDE DEF k, n
    <3> QED BY <1>3, <1>5, <3>1, <3>2 DEF Conn
  <2>2. CleanupTail(r, x, y) = n
    BY <1>4, <1>7
  <2> HIDE DEF n
  <2>3. n.state \in Over /\ n.state \notin Live /\ n.state # "Invalid"
    BY <1>1, <2>1 DEF Over, Live
  <2>4. ConnOK(n, prog, ph)
    BY <1>6, <1>7, <2>1, <2>3 DEF ConnOK
  <2> QED BY <2>1, <2>2, <2>4
<1>8. CASE ~(prog.reconnect /\ ~x) /\ "gone" \in r.idles
  <2> DEFINE n == [t EXCEPT !.fault = "dangling"]
  <2>1. n \in Conn /\ n.fault = "dangling" /\ n.timeouts = {}
    BY <1>3, <1>5 DEF Conn
  <2>2. CleanupTail(r, x, y) = n
    BY <1>4, <1>5, <1>8 DEF Release
  <2> HIDE DEF n
  <2> QED BY <1>8, <2>1, <2>2 DEF Broken
<1>9. CASE ~(prog.reconnect /\ ~x) /\ "gone" \notin r.idles
  <2> DEFINE ids == Erased(t.idles)
             n == [t EXCEPT !.idles = ids, !.cbs = FALSE, !.chan = "none"]
  <2>0. ids \in SUBSET {"live", "gone"} /\ (ids # {} => prog.idle)
    BY <1>5 DEF Erased
  <2>2. CleanupTail(r, x, y) = n
    BY <1>3, <1>4, <1>5, <1>9 DEF Release, Conn
  <2> HIDE DEF ids
  <2>1. /\ n \in Conn /\ n.state = st /\ n.chan = "none" /\ n.input = r.input
        /\ n.waiting = r.waiting /\ n.attempt = r.attempt /\ n.timeouts = {}
        /\ n.retries = r.retries /\ n.fault = "none" /\ n.cbs = FALSE /\ n.idles = ids
    BY <1>3, <1>5, <2>0 DEF Conn
  <2> HIDE DEF n
  <2>3. n.state \in Over /\ n.state \notin Live /\ n.state # "Invalid"
    BY <1>1, <2>1 DEF Over, Live
  <2>4. ConnOK(n, prog, ph)
    BY <1>6, <2>0, <2>1, <2>3 DEF ConnOK
  <2> QED BY <2>1, <2>2, <2>4
<1> QED BY <1>7, <1>8, <1>9

\* What a handler may be given: the connection of the invariant after a counter or the
\* input has changed, in the phase the handler leaves behind.
Given(r, x, ph) ==
    /\ ConnOK(r, prog, ph) /\ prog \in Program /\ x \in BOOLEAN
    /\ prog.badData => ~prog.reconnect /\ prog.held
    /\ ph # "loop" => x

\* Channel::close.
LEMMA ChannelCloseOK ==
    ASSUME NEW r, NEW x, NEW y \in BOOLEAN, NEW ph, Given(r, x, ph)
    PROVE  \/ Broken(ChannelClose(r, x, y), prog, ph)
           \/ ConnOK(ChannelClose(r, x, y), prog, ph) /\ ChannelClose(r, x, y).chan = "none"
<1>1. r \in Conn /\ r.attempt \in Nat
  BY DEF Given, ConnOK, Conn
<1>2. CASE r.chan # "open"
  <2>1. ChannelClose(r, x, y) = r
    BY <1>2 DEF ChannelClose
  <2>2. r.chan = "none"
    BY <1>1, <1>2 DEF Given, ConnOK, Conn
  <2> QED BY <2>1, <2>2 DEF Given
<1>3. CASE r.chan = "open"
  <2> DEFINE s == [r EXCEPT !.chan = "shut"]
  <2>1. /\ s \in Conn /\ s.state = r.state /\ s.input = r.input /\ s.waiting = r.waiting
        /\ s.attempt = r.attempt /\ s.timeouts = r.timeouts /\ s.retries = r.retries
        /\ s.fault = r.fault /\ s.idles = r.idles
    BY <1>1 DEF Conn
  <2>2. ChannelClose(r, x, y) = CleanupTail(s, x, y)
    BY <1>3 DEF ChannelClose, Given, ConnOK, Live
  <2>3. /\ r.state \in Live /\ r.state # "Invalid" /\ r.state \notin Over
    BY <1>3 DEF Given, ConnOK, Live, Over
  <2>4. r.attempt \in 1 .. MaxAttempts /\ ~r.waiting
    BY <1>1, <2>3, TcpConnAssumption DEF Given, ConnOK
  <2>5. r.retries = 0
    BY <1>1, <2>4 DEF Given, ConnOK, Conn
  <2> HIDE DEF s
  <2>6. /\ s.fault = "none" /\ s.attempt \in 1 .. MaxAttempts /\ s.timeouts \subseteq {s.attempt}
        /\ s.input = "bad" => prog.badData
        /\ ~s.waiting /\ s.retries = 0
        /\ prog.reconnect /\ ~x => ph = "loop"
        /\ s.idles # {} => prog.idle
        /\ "gone" \in s.idles => ph # "loop"
    BY <2>1, <2>3, <2>4, <2>5 DEF Given, ConnOK
  <2>7. prog \in Program /\ x \in BOOLEAN
    BY DEF Given
  <2> QED BY <2>1, <2>2, <2>6, <2>7, TailOK
<1> QED BY <1>2, <1>3

\* The callback that onMsg installs, with the channel open or nothing to reject.
LEMMA ReadCallbackOK ==
    ASSUME NEW r, NEW x, NEW y \in BOOLEAN, NEW ph, Given(r, x, ph),
           r.chan = "open" \/ r.input # "bad"
    PROVE  Broken(ReadCallback(r, x, y), prog, ph) \/ ConnOK(ReadCallback(r, x, y), prog, ph)
<1>1. CASE ~r.cbs \/ r.input # "bad"
  <2>1. ReadCallback(r, x, y) = r
    BY <1>1 DEF ReadCallback
  <2> QED BY <2>1 DEF Given
<1>2. CASE ~(~r.cbs \/ r.input # "bad")
  <2>1. ReadCallback(r, x, y) = ChannelClose(r, x, y)
    BY <1>2 DEF ReadCallback
  <2> QED BY <2>1, ChannelCloseOK
<1> QED BY <1>1, <1>2

\* cleanup: the read callback has not destroyed the connection, and a connection that it
\* has closed is not to be made again; its idle nodes are erased a second time.
LEMMA CleanupOK ==
    ASSUME NEW r, NEW x, NEW y \in BOOLEAN, NEW ph, Given(r, x, ph), r.attempt > 0,
           r.chan = "open"
    PROVE  Broken(Cleanup(r, x, y), prog, ph) \/ ConnOK(Cleanup(r, x, y), prog, ph)
<1> DEFINE s == ReadCallback(r, x, y)
<1>0. CASE Broken(s, prog, ph)
  BY <1>0 DEF Cleanup, Broken
<1> SUFFICES ASSUME ConnOK(s, prog, ph)
             PROVE  Broken(Cleanup(r, x, y), prog, ph) \/ ConnOK(Cleanup(r, x, y), prog, ph)
  BY <1>0, ReadCallbackOK
<1>1. ConnOK(s, prog, ph)
  OBVIOUS
<1>2. r \in Conn /\ r.attempt \in Nat /\ prog \in Program /\ x \in BOOLEAN
  BY DEF Given, ConnOK, Conn
<1>3. \/ s = r
      \/ r.chan = "open" /\ r.input = "bad" /\ s = ChannelClose(r, x, y)
  BY DEF ReadCallback
<1>4. ~(r.chan # "none" /\ Unreferenced(s))
  <2>1. CASE s = r
    BY <2>1 DEF Unreferenced
  <2>2. CASE r.input = "bad"
    BY <2>2 DEF Given, ConnOK, Unreferenced
  <2> QED BY <1>3, <2>1, <2>2
<1> HIDE DEF s
<1>5. Cleanup(r, x, y) = CleanupTail(s, x, y)
  <2>1. s.fault = "none"
    BY <1>1 DEF ConnOK
  <2> QED BY <1>4, <2>1 DEF Cleanup, s
<1>6. /\ s \in Conn /\ s.fault = "none" /\ s.timeouts \subseteq {s.attempt}
      /\ s.input = "bad" => prog.badData
      /\ s.waiting => prog.reconnect
      /\ s.retries > 0 => s.waiting /\ s.retries = 1
      /\ s.attempt <= MaxAttempts /\ s.attempt \in Nat /\ s.retries \in Nat
      /\ s.idles # {} => prog.idle
  BY <1>1 DEF ConnOK, Conn
<1>7. s.attempt # 0
  <2>1. CASE s = r
    BY <2>1, <1>2
  <2>2. CASE r.chan = "open" /\ r.input = "bad" /\ s = ChannelClose(r, x, y)
    <3>1. r.state \in {"Handshaking", "Connected"} /\ r.attempt # 0
      BY <2>2, <1>2 DEF Given, ConnOK, Live
    <3>2. s = CleanupTail([r EXCEPT !.chan = "shut"], x, y)
      BY <2>2, <3>1 DEF ChannelClose
    <3>3. s.state # "Invalid"
      BY <1>2, <3>1, <3>2 DEF CleanupTail, CancelTimeout, Retry, Release, Conn
    <3> QED BY <1>1, <3>3 DEF ConnOK
  <2> QED BY <1>3, <2>1, <2>2
<1>8. prog.reconnect /\ ~x => ph = "loop" /\ s.retries = 0 /\ "gone" \notin s.idles
  <2> SUFFICES ASSUME prog.reconnect, ~x
               PROVE  ph = "loop" /\ s.retries = 0 /\ "gone" \notin s.idles
    OBVIOUS
  <2>1. ph = "loop"
    BY DEF Given
  <2>2. ~prog.badData
    BY DEF Given
  <2>3. r.input # "bad" /\ r.chan = "open"
    BY <2>2 DEF Given, ConnOK
  <2>4. s = r /\ r.state \in Live
    BY <1>3, <2>3 DEF Given, ConnOK
  <2>5. ~r.waiting
    BY <2>4 DEF Given, ConnOK, Live, Over
  <2>6. "gone" \notin r.idles
    BY <2>1, <2>4 DEF Given, ConnOK, Live, Over
  <2> QED BY <1>6, <2>1, <2>4, <2>5, <2>6
<1>9. s.attempt \in 1 .. MaxAttempts
  BY <1>6, <1>7, TcpConnAssumption
<1>10. s.waiting => ph # "loop"
  <2> SUFFICES ASSUME s.waiting, ph = "loop" PROVE FALSE
    OBVIOUS
  <2>1. prog.reconnect /\ ~prog.badData
    BY <1>1 DEF ConnOK, Given
  <2>2. s = r /\ r.state \in Over
    BY <1>1, <1>3, <2>1 DEF ConnOK, Given
  <2> QED BY <2>2 DEF Given, ConnOK, Live, Over
<1>11. "gone" \in s.idles => prog.badData \/ ph # "loop"
  <2> SUFFICES ASSUME "gone" \in s.idles, ~prog.badData, ph = "loop" PROVE FALSE
    OBVIOUS
  <2>1. s = r /\ r.state \in Over
    BY <1>1, <1>3 DEF ConnOK, Given
  <2> QED BY <2>1 DEF Given, ConnOK, Live, Over
<1> QED BY <1>2, <1>5, <1>6, <1>8, <1>9, <1>10, <1>11, TailOK

\* connect of a connection that is not connected, and for which no timer is pending.
LEMMA ConnectToOK ==
    ASSUME NEW r \in Conn, NEW x \in BOOLEAN, NEW ph, prog \in Program,
           r.state \in {"Invalid", "Closed", "Failed"}, r.fault = "none",
           r.attempt + 1 <= MaxAttempts, r.timeouts = {}, ~r.waiting, r.retries = 0,
           r.input = "bad" => prog.badData, r.idles # {} => prog.idle,
           ph = "loop" => "gone" \notin r.idles
    PROVE  ConnOK(ConnectTo(r, x), prog, ph)
<1> DEFINE ts == IF prog.timeout /\ ~x THEN r.timeouts \cup {r.attempt + 1} ELSE r.timeouts
           n  == [r EXCEPT !.state = "Handshaking", !.chan = "open", !.attempt = r.attempt + 1,
                           !.timeouts = ts]
<1>1. ConnectTo(r, x) = n
  BY DEF ConnectTo, Conn
<1>2. r.attempt \in Nat /\ r.attempt + 1 \in 1 .. MaxAttempts
  BY TcpConnAssumption DEF Conn
<1>3. ts \subseteq {r.attempt + 1} /\ ts \in SUBSET (1 .. MaxAttempts)
  BY <1>2
<1> HIDE DEF ts
<1> DEFINE k == r.attempt + 1
<1> HIDE DEF k
<1>4. k \in Nat /\ n = [r EXCEPT !.state = "Handshaking", !.chan = "open", !.attempt = k,
                                 !.timeouts = ts]
  BY <1>2 DEF k
<1>5. /\ n \in Conn /\ n.state = "Handshaking" /\ n.chan = "open" /\ n.attempt = r.attempt + 1
      /\ n.timeouts = ts /\ n.waiting = r.waiting /\ n.retries = r.retries
      /\ n.fault = r.fault /\ n.input = r.input /\ n.idles = r.idles
  <2> HIDE DEF n
  <2>1. n \in Conn
    BY <1>3, <1>4 DEF Conn, States
  <2> QED BY <1>4, <2>1 DEF Conn, k
<1> HIDE DEF n
<1> QED BY <1>1, <1>2, <1>3, <1>5 DEF ConnOK, Live, Over

\* A handler that leaves a connection as it should be keeps the invariant.
LEMMA ConnStep ==
    ASSUME SafeOnly, ConnInv, [Next]_vars
    PROVE  ConnInv'
<1> USE DEF SafeOnly
<1>0. CASE Broken(c, prog, phase)
  BY <1>0 DEF Broken, Next, vars, ConnInv, Connect, Handshake, HandshakeFails, HandleRead,
              HandleReadEnds, TimeoutFires, RetryFires, AddIdle, Close, CloseTask, Exit, LoopEnds,
              Destroy, Runs, Alive
<1> SUFFICES ASSUME ConnOK(c, prog, phase) PROVE ConnInv'
  BY <1>0 DEF ConnInv
<1>1. /\ prog \in Program
      /\ prog.badData => ~prog.reconnect /\ prog.held
      /\ c \in Conn /\ exited \in BOOLEAN /\ c.attempt \in Nat /\ c.retries \in Nat
      /\ c.closes \in Nat
  BY TcpConnAssumption DEF ConnInv, ConnOK, Conn
<1>2. Given(c, exited, phase)
  BY <1>1 DEF Given, ConnInv
<1>3. ASSUME NEW ph \in {"loop", "last", "destroyed"}, NEW y \in BOOLEAN, exited' = y,
             exited => y, ph # "loop" => exited, phase' = ph, prog' = prog,
             \/ Broken(c', prog, ph)
             \/ ConnOK(c', prog, ph) /\ (ph = "destroyed" => c'.chan = "none")
      PROVE  ConnInv'
  BY <1>3 DEF ConnInv
<1>4. ASSUME UNCHANGED <<exited, phase, prog>>, Alive,
             Broken(c', prog, phase) \/ ConnOK(c', prog, phase)
      PROVE  ConnInv'
  BY <1>4 DEF ConnInv, Alive
<1>5. ASSUME UNCHANGED <<phase, prog>>, Alive, NEW y \in {exited, TRUE}, exited' = y,
             Broken(c', prog, phase) \/ ConnOK(c', prog, phase)
      PROVE  ConnInv'
  BY <1>1, <1>5 DEF ConnInv, Alive
<1>6. CASE Connect
  <2>1. c.state = "Invalid" /\ c.timeouts = {} /\ ~c.waiting /\ c.retries = 0
        /\ c.chan = "none" /\ c.attempt = 0 /\ MaxAttempts >= 1
        /\ (c.idles # {} => prog.idle) /\ (phase = "loop" => "gone" \notin c.idles)
    BY <1>1, <1>6, TcpConnAssumption DEF Connect, ConnInv, ConnOK, Live, Over, Conn
  <2>2. ConnOK(ConnectTo(c, exited), prog, phase)
    <3>1. c.input = "bad" => prog.badData
      BY DEF ConnInv, ConnOK
    <3>2. c.fault = "none"
      BY DEF ConnInv, ConnOK
    <3> QED BY <1>1, <2>1, <3>1, <3>2, ConnectToOK
  <2> QED BY <1>4, <1>6, <2>2 DEF Connect
<1>7. CASE Handshake
  <2>1. ConnOK([c EXCEPT !.state = "Connected"], prog, phase)
    BY <1>1, <1>7 DEF Handshake, ConnInv, ConnOK, Conn, Live, Over, States
  <2> QED BY <1>4, <1>7, <2>1 DEF Handshake
<1>8. CASE HandshakeFails
  <2>1. PICK y \in {exited, TRUE} : c' = Cleanup(c, exited, y) /\ exited' = y
    BY <1>8 DEF HandshakeFails, Runs
  <2>2. c.chan = "open" /\ c.attempt > 0
    <3>1. c.chan = "open" /\ c.state # "Invalid"
      BY <1>8 DEF HandshakeFails
    <3>2. c.attempt # 0
      BY <3>1 DEF ConnInv, ConnOK
    <3> QED BY <1>1, <3>1, <3>2
  <2>3. Broken(c', prog, phase) \/ ConnOK(c', prog, phase)
    BY <1>1, <1>2, <2>1, <2>2, CleanupOK
  <2> QED BY <1>5, <1>8, <2>1, <2>3 DEF HandshakeFails, Runs
<1>9. ASSUME NEW i \in Inputs, i = "bad" => prog.badData
      PROVE  /\ Given([c EXCEPT !.input = i], exited, phase)
             /\ [c EXCEPT !.input = i].chan = c.chan /\ [c EXCEPT !.input = i].attempt = c.attempt
  BY <1>1, <1>2, <1>9 DEF Given, ConnOK, Conn
<1>10. \A i \in Arrives(c.input) \cup {c.input} : i \in Inputs /\ (i = "bad" => prog.badData)
  BY <1>1 DEF Arrives, ConnInv, ConnOK, Conn, Inputs
<1>11. CASE HandleRead
  <2>1. PICK i \in Arrives(c.input), y \in {exited, TRUE} :
            /\ exited' = y
            /\ c' = IF "gone" \in c.idles THEN [c EXCEPT !.fault = "dangling"]
                    ELSE ReadCallback([c EXCEPT !.input = i], exited, y)
    BY <1>11 DEF HandleRead, Runs
  <2>2. Broken(c', prog, phase) \/ ConnOK(c', prog, phase)
    <3>1. CASE "gone" \in c.idles
      <4>1. c' = [c EXCEPT !.fault = "dangling"] /\ c.state = "Connected"
        BY <1>11, <2>1, <3>1 DEF HandleRead
      <4>2. prog.idle /\ phase # "loop"
        BY <1>11, <3>1 DEF ConnOK, HandleRead, Over
      <4>3. c.timeouts \subseteq {c.attempt}
        BY DEF ConnOK
      <4>4. /\ c' \in Conn /\ c'.fault = "dangling" /\ c'.timeouts = c.timeouts
            /\ c'.attempt = c.attempt /\ c'.state = c.state
        BY <1>1, <4>1 DEF Conn
      <4> QED BY <4>1, <4>2, <4>3, <4>4 DEF Broken, Live
    <3>2. CASE "gone" \notin c.idles
      BY <1>1, <1>9, <1>10, <1>11, <2>1, <3>2, ReadCallbackOK DEF HandleRead
    <3> QED BY <3>1, <3>2
  <2> QED BY <1>5, <1>11, <2>1, <2>2 DEF HandleRead, Runs
<1>12. CASE HandleReadEnds
  <2>1. PICK i \in Arrives(c.input) \cup {c.input}, y \in {exited, TRUE} :
            c' = Cleanup([c EXCEPT !.input = i], exited, y) /\ exited' = y
    BY <1>12 DEF HandleReadEnds, Runs
  <2>2. c.chan = "open" /\ c.attempt > 0
    <3>1. c.chan = "open" /\ c.state # "Invalid"
      BY <1>12 DEF HandleReadEnds
    <3>2. c.attempt # 0
      BY <3>1 DEF ConnInv, ConnOK
    <3> QED BY <1>1, <3>1, <3>2
  <2>3. Broken(c', prog, phase) \/ ConnOK(c', prog, phase)
    BY <1>1, <1>9, <1>10, <2>1, <2>2, CleanupOK
  <2> QED BY <1>5, <1>12, <2>1, <2>3 DEF HandleReadEnds, Runs
<1>13. CASE TimeoutFires
  <2>1. PICK a \in c.timeouts, y \in {exited, TRUE} :
            /\ exited' = y
            /\ LET r == [c EXCEPT !.timeouts = @ \ {a}]
               IN c' = IF r.state = "Handshaking" THEN ChannelClose(r, exited, y) ELSE r
    BY <1>13 DEF TimeoutFires, Runs
  <2> DEFINE r == [c EXCEPT !.timeouts = @ \ {a}]
  <2>2. Given(r, exited, phase)
    BY <1>1, <1>2 DEF Given, ConnOK, Conn
  <2>3. Broken(c', prog, phase) \/ ConnOK(c', prog, phase)
    BY <1>1, <2>1, <2>2, ChannelCloseOK DEF Given
  <2> QED BY <1>5, <1>13, <2>1, <2>3 DEF TimeoutFires, Runs
<1>14. CASE RetryFires
  <2> DEFINE r == [c EXCEPT !.retries = @ - 1, !.waiting = FALSE]
  <2>1. /\ c.waiting /\ c.retries = 1 /\ c.state \in Over /\ c.timeouts = {}
        /\ c.chan = "none" /\ c.attempt + 1 <= MaxAttempts /\ c.attempt # 0
        /\ c.fault = "none" /\ (c.idles # {} => prog.idle) /\ "gone" \notin c.idles
    BY <1>1, <1>14, TcpConnAssumption DEF RetryFires, ConnInv, ConnOK, Live, Over, Conn
  <2>2. /\ r \in Conn /\ r.state = c.state /\ r.timeouts = {} /\ ~r.waiting /\ r.retries = 0
        /\ r.attempt = c.attempt /\ r.fault = c.fault /\ r.input = c.input
        /\ r.idles = c.idles
    <3> DEFINE k == c.retries - 1
    <3>1. k = 0 /\ k \in Nat
      BY <2>1
    <3>2. r = [c EXCEPT !.retries = k, !.waiting = FALSE]
      BY <1>1 DEF Conn
    <3> HIDE DEF k, r
    <3> QED BY <1>1, <2>1, <3>1, <3>2 DEF Conn
  <2> HIDE DEF r
  <2>3. ConnOK(ConnectTo(r, exited), prog, phase)
    <3>1. r.state \in {"Invalid", "Closed", "Failed"} /\ (c.input = "bad" => prog.badData)
      BY <2>1, <2>2 DEF Over, ConnInv, ConnOK
    <3> QED BY <1>1, <2>1, <2>2, <3>1, ConnectToOK
  <2> QED BY <1>4, <1>14, <2>3 DEF RetryFires, r
<1>15. CASE Close
  <2>1. ConnOK(IF c.chan = "none" THEN c ELSE [c EXCEPT !.closes = @ + 1], prog, phase)
    BY <1>1 DEF ConnInv, ConnOK, Conn
  <2> QED BY <1>4, <1>15, <2>1 DEF Close
<1>16. CASE CloseTask
  <2>1. PICK y \in {exited, TRUE} :
            c' = ChannelClose([c EXCEPT !.closes = @ - 1], exited, y) /\ exited' = y
    BY <1>16 DEF CloseTask, Runs
  <2>2. Given([c EXCEPT !.closes = @ - 1], exited, phase)
    <3> DEFINE k == c.closes - 1
    <3>1. k \in Nat
      <4>1. c.closes > 0
        BY <1>16 DEF CloseTask
      <4> QED BY <1>1, <4>1
    <3>2. [c EXCEPT !.closes = @ - 1] = [c EXCEPT !.closes = k]
      BY <1>1 DEF Conn
    <3> HIDE DEF k
    <3>3. Given([c EXCEPT !.closes = k], exited, phase)
      BY <1>1, <1>2, <3>1 DEF Given, ConnOK, Conn
    <3> QED BY <3>2, <3>3
  <2>3. Broken(c', prog, phase) \/ ConnOK(c', prog, phase)
    BY <1>1, <2>1, <2>2, ChannelCloseOK
  <2> QED BY <1>5, <1>16, <2>1, <2>3 DEF CloseTask, Runs
<1>17. CASE Exit
  BY <1>17 DEF Exit, ConnInv
<1>18. CASE LoopEnds
  <2> DEFINE ids == Erased(c.idles)
             r == [c EXCEPT !.timeouts = {}, !.retries = 0, !.idles = ids]
  <2>0. ids \in SUBSET {"live", "gone"} /\ (ids # {} => prog.idle)
    BY DEF Erased, ConnOK
  <2>1. PICK y \in {exited, TRUE} :
            /\ exited' = y
            /\ c' = IF r.waiting THEN Cleanup(r, exited, y) ELSE r
    BY <1>1, <1>18 DEF LoopEnds, Runs, Conn
  <2>2. exited /\ y = TRUE /\ phase' = "last" /\ prog' = prog /\ phase = "loop"
    BY <1>1, <1>18, <2>1 DEF LoopEnds
  <2>3. /\ r \in Conn /\ r.waiting = c.waiting /\ r.chan = c.chan /\ r.input = c.input
        /\ r.attempt = c.attempt /\ r.state = c.state /\ r.fault = c.fault /\ r.cbs = c.cbs
        /\ r.timeouts = {} /\ r.retries = 0 /\ r.idles = ids
    <3> HIDE DEF ids
    <3> QED BY <1>1, <2>0 DEF Conn
  <2> HIDE DEF r, ids
  <2>4. CASE c.waiting
    <3>1. c.state \in Over /\ prog.reconnect /\ ~prog.badData
      BY <1>1, <2>4 DEF ConnInv, ConnOK
    <3>2. c.chan = "none" /\ c.input # "bad" /\ c.attempt > 0
      BY <1>1, <3>1 DEF ConnInv, ConnOK, Over, Live, Conn
    <3>3. Cleanup(r, exited, y) = CleanupTail(r, exited, y)
      BY <2>3, <3>2 DEF Cleanup, ReadCallback, ConnInv, ConnOK
    <3>4. /\ r.fault = "none" /\ r.attempt \in 1 .. MaxAttempts /\ r.timeouts \subseteq {r.attempt}
          /\ r.input = "bad" => prog.badData
          /\ r.waiting => prog.reconnect
          /\ r.retries > 0 => r.waiting /\ r.retries = 1
          /\ ~(prog.reconnect /\ ~exited)
          /\ r.idles # {} => prog.idle
      BY <1>1, <2>0, <2>2, <2>3, <3>1, <3>2, TcpConnAssumption DEF ConnInv, ConnOK
    <3>5. Broken(c', prog, "last") \/ ConnOK(c', prog, "last")
      BY <1>1, <2>1, <2>2, <2>3, <2>4, <3>3, <3>4, TailOK
    <3> QED BY <1>3, <2>1, <2>2, <3>5
  <2>5. CASE ~c.waiting
    <3>1. ConnOK(r, prog, "last")
      BY <2>0, <2>3, <2>5 DEF ConnInv, ConnOK
    <3> QED BY <1>3, <2>1, <2>2, <2>3, <2>5, <3>1
  <2> QED BY <2>4, <2>5
<1>19. CASE Destroy
  <2>1. PICK y \in {exited, TRUE} :
            c' = ChannelClose([c EXCEPT !.closes = 0], exited, y) /\ exited' = y
    BY <1>19 DEF Destroy, Runs
  <2>2. exited /\ y = TRUE /\ phase' = "destroyed" /\ prog' = prog /\ phase = "last"
    BY <1>1, <1>19, <2>1 DEF Destroy, ConnInv
  <2>3. Given([c EXCEPT !.closes = 0], exited, "destroyed")
    BY <1>1, <1>2, <2>2 DEF Given, ConnOK, Conn
  <2>4. \/ Broken(c', prog, "destroyed")
        \/ ConnOK(c', prog, "destroyed") /\ c'.chan = "none"
    BY <1>1, <2>1, <2>3, ChannelCloseOK
  <2> QED BY <1>3, <2>1, <2>2, <2>4
<1>20. CASE UNCHANGED vars
  BY <1>20 DEF vars, ConnInv
<1>21. CASE AddIdle
  <2>1. ConnOK([c EXCEPT !.idles = @ \cup {"live"}], prog, phase)
    BY <1>1, <1>21 DEF AddIdle, ConnOK, Conn
  <2> QED BY <1>4, <1>21, <2>1 DEF AddIdle
<1> QED BY <1>6, <1>7, <1>8, <1>11, <1>12, <1>13, <1>14, <1>15, <1>16, <1>17, <1>18, <1>19,
           <1>20, <1>21 DEF Next

\* The connection has not been used yet.
LEMMA ConnStart == Init => ConnInv
<1> SUFFICES ASSUME Init PROVE ConnInv
  OBVIOUS
<1>1. c \in Conn
  BY DEF Init, Conn, States, Inputs
<1>2. ConnOK(c, prog, phase)
  BY <1>1, TcpConnAssumption DEF Init, ConnOK, Live, Over
<1> QED BY <1>2 DEF Init, ConnInv

\* For every program of the kind the code serves the invariant holds throughout.
LEMMA ConnInvariant == SafeOnly /\ Spec => []ConnInv
<1> DEFINE Inv == SafeOnly /\ ConnInv
<1>1. SafeOnly /\ Init => Inv
  BY ConnStart
<1>2. Inv /\ [Next]_vars => Inv'
  BY ConnStep DEF SafeOnly
<1>3. Inv => ConnInv
  OBVIOUS
<1> QED BY <1>1, <1>2, <1>3, PTL DEF Spec

\* cleanup cancels the connect timer: a timeout that is pending belongs to the current
\* attempt, and to one that is not over.
THEOREM ConnTimeoutIsCurrent == SafeOnly /\ Spec => []TimeoutIsCurrent
<1>1. ConnInv => TimeoutIsCurrent
  BY DEF ConnInv, ConnOK, Broken, TimeoutIsCurrent, Live
<1> QED BY <1>1, ConnInvariant, PTL

\* Whatever the order of peer, program, timeouts and exit, no assertion fails, no freed
\* or missing object is used, and the end of the base releases the connection; only the
\* idle nodes of a program that adds idle callbacks may be used after they are erased,
\* by a cleanup in a cleanup or after the loop has dropped them.
THEOREM ConnReleasedAtEnd == SafeOnly /\ Spec => []ReleasedAtEnd
<1>1. ConnInv => ReleasedAtEnd
  <2> SUFFICES ASSUME ConnInv, ConnOK(c, prog, phase), phase = "destroyed" => c.chan = "none"
               PROVE  ReleasedAtEnd
    BY DEF ConnInv, Broken, ReleasedAtEnd
  <2>1. c.fault = "none"
    BY DEF ConnOK
  <2>2. ASSUME phase = "destroyed"  PROVE c.chan = "none" /\ c.state \notin Live
    BY <2>2 DEF ConnOK
  <2>3. c.state \in States /\ c.attempt \in Nat
    BY DEF ConnOK, Conn
  <2>4. ASSUME phase = "destroyed", c.attempt > 0  PROVE ~c.cbs
    <3>1. c.state # "Invalid"
      BY <2>3, <2>4 DEF ConnOK
    <3>2. c.state \in Over
      BY <2>2, <2>3, <2>4, <3>1 DEF States, Over, Live
    <3> QED BY <2>4, <3>2 DEF ConnOK
  <2> QED BY <2>1, <2>2, <2>3, <2>4 DEF ReleasedAtEnd, States, Live
<1> QED BY <1>1, ConnInvariant, PTL
=============================================================================
