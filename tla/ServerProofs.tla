---------------------------- MODULE ServerProofs ----------------------------
(***************************************************************************)
(* Proofs about Server: for any number of bases, clients and UDP           *)
(* connections and any task capacity, what was posted to a base before its *)
(* exit() is done when the loops have returned; and about Http: for any    *)
(* messages and any cut of their bytes, each is given once with its own    *)
(* body and answered with its own answer.                                  *)
(***************************************************************************)
EXTENDS Server, Http, SequenceTheorems, TLAPS

\* The types that the proof needs besides ServerTypeOK.
LoopsType == /\ n \in Nat \ {0} /\ nextId \in Nat /\ cap \in Nat
             /\ last \in [Bases -> BOOLEAN] /\ woken \in [Bases -> BOOLEAN]
             /\ pipe \in [Bases -> BOOLEAN] /\ exiting \in [Bases -> BOOLEAN]
             /\ early \subseteq Socks \cup Udps

\* A loop that is in its last round, or has returned, was told to exit.
LastIsExit == \A b \in Bases : /\ last[b] => exiting[b]
                               /\ at[b] = "over" => last[b]

\* The tasks of base b will still be run: it runs them, or its batch holds the pipe's
\* event, or a further batch will.
WillRun(b) == \/ at[b] = "tasks"
              \/ at[b] = "new" /\ pipe[b]
              \/ at[b] \in {"events", "accept"} /\ (woken[b] \/ (~last[b] /\ pipe[b]))

Finished(x) == IF x \in Socks THEN sock[x] = "attached" ELSE udp[x] = "deleted"

\* Each early task is done, or in the queue of a base that will run it.
Waiting(x) == \E b \in Bases : WillRun(b) /\ \E k \in 1 .. Len(queue[b]) : queue[b][k] = x
EarlyKept == \A x \in early : Finished(x) \/ Waiting(x)

ServerInv == ServerTypeOK /\ LoopsType /\ LastIsExit /\ EarlyKept

\* allocBase chooses a base.
LEMMA AllocBase == \A i \in Nat : \A m \in Nat \ {0} : 1 + (i % m) \in 1 .. m
OBVIOUS

\* Steps that leave the queues, the early tasks and what is finished alone keep every
\* task that waits, when no loop stops being one that will run its tasks.
LEMMA EarlyStays ==
    ASSUME EarlyKept, early' = early, queue' = queue, n' = n,
           \A x \in early : Finished(x) => Finished(x)',
           \A b \in Bases : WillRun(b) => WillRun(b)' \/ queue[b] = <<>>
    PROVE  EarlyKept'
<1> SUFFICES ASSUME NEW x \in early, ~Finished(x)' PROVE Waiting(x)'
  BY DEF EarlyKept
<1>1. PICK b \in Bases : WillRun(b) /\ \E k \in 1 .. Len(queue[b]) : queue[b][k] = x
  BY DEF EarlyKept, Waiting
<1>2. PICK k \in 1 .. Len(queue[b]) : queue[b][k] = x
  BY <1>1
<1>3. queue[b] # <<>>
  BY <1>2
<1>4. WillRun(b)'
  BY <1>1, <1>3
<1> QED BY <1>2, <1>4 DEF Waiting, Bases

\* safeCall to a base of the server.
LEMMA SafeCallKeeps ==
    ASSUME ServerInv, NEW b \in Bases, NEW x \in Socks \cup Udps, SafeCall(b, x),
           UNCHANGED <<n, cap, loopPart>>,
           \A y \in early : Finished(y) => Finished(y)'
    PROVE  /\ EarlyKept' /\ LastIsExit'
           /\ queue' \in [Bases -> Seq(Socks \cup Udps)] /\ pipe' \in [Bases -> BOOLEAN]
<1> DEFINE V == Socks \cup Udps
<1>1. /\ at' = at /\ last' = last /\ woken' = woken /\ exiting' = exiting /\ n' = n
      /\ Bases' = Bases
  BY DEF loopPart, Bases
<1>2. pipe' = [pipe EXCEPT ![b] = TRUE] /\ pipe \in [Bases -> BOOLEAN]
      /\ queue \in [Bases -> Seq(V)]
  BY DEF SafeCall, ServerInv, LoopsType, ServerTypeOK
<1>3. LastIsExit'
  BY <1>1 DEF ServerInv, LastIsExit
<1>4. pipe' \in [Bases -> BOOLEAN] /\ pipe'[b] = TRUE /\ \A a \in Bases : pipe[a] => pipe'[a]
  BY <1>2
<1>5. \A a \in Bases : WillRun(a) => WillRun(a)'
  BY <1>1, <1>4 DEF WillRun
<1>6. CASE cap # 0 /\ Len(queue[b]) >= cap
  <2>1. queue' = queue /\ early' = early
    BY <1>6 DEF SafeCall
  <2>2. EarlyKept'
    BY <1>1, <1>5, <2>1, EarlyStays DEF ServerInv
  <2> QED BY <1>2, <1>3, <1>4, <2>1, <2>2
<1>7. CASE ~(cap # 0 /\ Len(queue[b]) >= cap)
  <2>1. /\ queue' = [queue EXCEPT ![b] = Append(@, x)]
        /\ early' = IF exiting[b] THEN early ELSE early \cup {x}
    BY <1>7 DEF SafeCall
  <2> DEFINE q == queue[b]
  <2>2. /\ q \in Seq(V) /\ Len(q) \in Nat
        /\ Append(q, x) \in Seq(V) /\ Len(Append(q, x)) = Len(q) + 1
        /\ \A k \in 1 .. Len(q) : Append(q, x)[k] = q[k]
        /\ Append(q, x)[Len(q) + 1] = x
    BY <1>2, AppendProperties, LenProperties
  <2>3. /\ queue' \in [Bases -> Seq(V)] /\ queue'[b] = Append(q, x)
        /\ \A a \in Bases \ {b} : queue'[a] = queue[a]
    BY <1>2, <2>1, <2>2
  <2> HIDE DEF q
  <2>4. Len(q) + 1 \in 1 .. Len(queue'[b]) /\ queue'[b][Len(q) + 1] = x
    BY <2>2, <2>3
  <2>5. ASSUME NEW y, Waiting(y) PROVE Waiting(y)'
    <3>1. PICK a \in Bases : WillRun(a) /\ \E k \in 1 .. Len(queue[a]) : queue[a][k] = y
      BY <2>5 DEF Waiting
    <3>2. PICK k \in 1 .. Len(queue[a]) : queue[a][k] = y
      BY <3>1
    <3>3. WillRun(a)'
      BY <1>5, <3>1
    <3>4. k \in 1 .. Len(queue'[a]) /\ queue'[a][k] = y
      <4>1. CASE a = b
        BY <2>2, <2>3, <3>2, <4>1 DEF q
      <4>2. CASE a # b
        BY <2>3, <3>2, <4>2
      <4> QED BY <4>1, <4>2
    <3> QED BY <1>1, <3>3, <3>4 DEF Waiting
  <2>6. ASSUME ~exiting[b] PROVE Waiting(x)'
    <3>1. ~last[b] /\ at[b] # "over"
      BY <2>6 DEF ServerInv, LastIsExit
    <3>2. at[b] \in {"new", "events", "accept", "tasks"}
      BY <3>1 DEF ServerInv, ServerTypeOK
    <3>3. WillRun(b)'
      BY <1>1, <1>4, <3>1, <3>2 DEF WillRun
    <3> QED BY <1>1, <2>4, <3>3 DEF Waiting
  <2>7. EarlyKept'
    <3> SUFFICES ASSUME NEW y \in early' PROVE Finished(y)' \/ Waiting(y)'
      BY DEF EarlyKept
    <3>1. CASE y \in early
      BY <2>5, <3>1 DEF ServerInv, EarlyKept
    <3>2. CASE y \notin early
      <4>1. ~exiting[b] /\ y = x
        BY <2>1, <3>2
      <4> QED BY <2>6, <4>1
    <3> QED BY <3>1, <3>2
  <2> QED BY <1>3, <1>4, <2>3, <2>7
<1> QED BY <1>6, <1>7

\* What a connection or a channel has come to stays.
LEMMA FinishedStays ==
    ASSUME ServerTypeOK, NEW x \in Socks \cup Udps, Finished(x),
           \/ UNCHANGED <<sock, udp>>
           \/ \E c \in Socks : \E s : /\ sock' = [sock EXCEPT ![c] = s] /\ udp' = udp
                                      /\ (sock[c] = "attached" => s = "attached")
           \/ \E u \in Udps : \E s : /\ udp' = [udp EXCEPT ![u] = s] /\ sock' = sock
                                     /\ (udp[u] = "deleted" => s = "deleted")
    PROVE  Finished(x)'
<1>1. sock \in [Socks -> {"none", "backlog", "nameless", "posted", "attached"}]
      /\ udp \in [Udps -> {"none", "failed", "live", "forgotten", "deleted"}]
  BY DEF ServerTypeOK
<1> QED BY <1>1 DEF Finished

\* The steps of the acceptor, the clients and the UDP connections.
LEMMA AcceptKeeps ==
    ASSUME ServerInv,
           \/ StartServer \/ AcceptEvent \/ AcceptDone
           \/ \E c \in Socks : Connect(c) \/ Accept(c)
           \/ \E u \in Udps : UdpCreate(u) \/ UdpClose(u)
    PROVE  ServerInv'
<1> USE DEF ServerInv
<1>1. Acceptor \in Bases
  BY DEF Acceptor, Bases, LoopsType
<1>2. sock \in [Socks -> {"none", "backlog", "nameless", "posted", "attached"}]
      /\ udp \in [Udps -> {"none", "failed", "live", "forgotten", "deleted"}]
  BY DEF ServerTypeOK
\* Nothing but the sockets and the channels changes.
<1>3. ASSUME UNCHANGED <<n, cap, loopPart, pipe, queue, early>>, nextId' \in Nat,
             sock' \in [Socks -> {"none", "backlog", "nameless", "posted", "attached"}],
             udp' \in [Udps -> {"none", "failed", "live", "forgotten", "deleted"}],
             \A x \in early : Finished(x) => Finished(x)'
      PROVE  ServerInv'
  <2>1. Bases' = Bases /\ at' = at /\ last' = last /\ woken' = woken /\ exiting' = exiting
    BY <1>3 DEF Bases, loopPart
  <2>2. ServerTypeOK' /\ LoopsType'
    BY <1>3, <2>1 DEF ServerTypeOK, LoopsType
  <2>3. LastIsExit'
    BY <2>1 DEF LastIsExit
  <2>4. EarlyKept'
    BY <1>3, <2>1, EarlyStays DEF WillRun
  <2> QED BY <2>2, <2>3, <2>4
<1>4. CASE StartServer
  BY <1>2, <1>3, <1>4 DEF StartServer, LoopsType, Finished
<1>5. ASSUME NEW c \in Socks, Connect(c) PROVE ServerInv'
  <2>1. sock' = [sock EXCEPT ![c] = "backlog"] /\ udp' = udp /\ sock[c] = "none" /\ nextId' = nextId
        /\ UNCHANGED <<n, cap, loopPart, pipe, queue, early>>
    BY <1>5 DEF Connect
  <2>2. \A x \in early : Finished(x) => Finished(x)'
    BY <2>1, FinishedStays DEF LoopsType
  <2> QED BY <1>2, <1>3, <2>1, <2>2 DEF LoopsType
<1>6. ASSUME NEW u \in Udps, UdpCreate(u) PROVE ServerInv'
  <2>1. PICK r \in {"live", "failed"} : udp' = [udp EXCEPT ![u] = r]
    BY <1>6 DEF UdpCreate
  <2>2. sock' = sock /\ udp[u] = "none" /\ UNCHANGED <<n, cap, nextId, loopPart, pipe, queue, early>>
    BY <1>6 DEF UdpCreate
  <2>3. \A x \in early : Finished(x) => Finished(x)'
    BY <2>1, <2>2, FinishedStays DEF LoopsType
  <2> QED BY <1>2, <1>3, <2>1, <2>2, <2>3 DEF LoopsType
<1>7. CASE AcceptEvent \/ AcceptDone
  <2>1. /\ UNCHANGED <<n, cap, nextId, server, last, woken, exiting, pipe, queue, sock, udp, early>>
        /\ Bases' = Bases
    BY <1>7 DEF AcceptEvent, AcceptDone, Bases
  <2>2. PICK p \in {"events", "accept"} :
            at' = [at EXCEPT ![Acceptor] = p] /\ at[Acceptor] \in {"events", "accept"}
    BY <1>7 DEF AcceptEvent, AcceptDone
  <2>3. at \in [Bases -> {"new", "events", "accept", "tasks", "over"}]
    BY DEF ServerTypeOK
  <2>4. /\ at'[Acceptor] = p /\ \A b \in Bases \ {Acceptor} : at'[b] = at[b]
        /\ at' \in [Bases -> {"new", "events", "accept", "tasks", "over"}]
    BY <1>1, <2>2, <2>3
  <2>5. ServerTypeOK' /\ LoopsType'
    BY <2>1, <2>4 DEF ServerTypeOK, LoopsType
  <2>6. LastIsExit'
    BY <2>1, <2>2, <2>4 DEF LastIsExit
  <2>7. \A b \in Bases : WillRun(b) => WillRun(b)'
    BY <2>1, <2>2, <2>4 DEF WillRun
  <2>8. EarlyKept'
    BY <2>1, <2>7, EarlyStays DEF Finished
  <2> QED BY <2>5, <2>6, <2>8
\* A task is posted.
<1>8. ASSUME NEW b \in Bases, NEW x \in Socks \cup Udps, SafeCall(b, x),
             UNCHANGED <<n, cap, server, loopPart>>, nextId' \in Nat,
             sock' \in [Socks -> {"none", "backlog", "nameless", "posted", "attached"}],
             udp' \in [Udps -> {"none", "failed", "live", "forgotten", "deleted"}],
             \A y \in early : Finished(y) => Finished(y)'
      PROVE  ServerInv'
  <2>1. /\ EarlyKept' /\ LastIsExit'
        /\ queue' \in [Bases -> Seq(Socks \cup Udps)] /\ pipe' \in [Bases -> BOOLEAN]
    BY <1>8, SafeCallKeeps
  <2>2. Bases' = Bases /\ at' = at /\ last' = last /\ woken' = woken /\ exiting' = exiting
    BY <1>8 DEF Bases, loopPart
  <2>3. early' \subseteq Socks \cup Udps
    BY <1>8 DEF SafeCall, LoopsType
  <2>4. ServerTypeOK' /\ LoopsType'
    BY <1>8, <2>1, <2>2, <2>3 DEF ServerTypeOK, LoopsType
  <2> QED BY <2>1, <2>4
<1>9. ASSUME NEW u \in Udps, UdpClose(u) PROVE ServerInv'
  <2>1. /\ udp' = [udp EXCEPT ![u] = "forgotten"] /\ sock' = sock /\ udp[u] = "live"
        /\ SafeCall(Acceptor, u) /\ UNCHANGED <<n, cap, nextId, server, loopPart>>
    BY <1>9 DEF UdpClose
  <2>2. \A x \in early : Finished(x) => Finished(x)'
    BY <2>1, FinishedStays DEF LoopsType
  <2> QED BY <1>1, <1>2, <1>8, <2>1, <2>2 DEF LoopsType
<1>10. ASSUME NEW c \in Socks, Accept(c) PROVE ServerInv'
  <2>1. sock[c] = "backlog" /\ udp' = udp /\ UNCHANGED <<n, cap, server, loopPart>>
    BY <1>10 DEF Accept, Backlog
  <2>2. ASSUME NEW t \in {"nameless", "posted", "attached"}, sock' = [sock EXCEPT ![c] = t]
        PROVE  /\ sock' \in [Socks -> {"none", "backlog", "nameless", "posted", "attached"}]
               /\ \A x \in early : Finished(x) => Finished(x)'
    BY <1>2, <2>1, <2>2, FinishedStays DEF LoopsType
  <2> DEFINE b == 1 + (nextId % n)
  <2>3. b \in Bases /\ nextId \in Nat /\ nextId + 1 \in Nat
    BY AllocBase DEF LoopsType, Bases
  <2>4. CASE sock' = [sock EXCEPT ![c] = "nameless"] /\ UNCHANGED <<nextId, pipe, queue, early>>
    BY <1>2, <1>3, <2>1, <2>2, <2>3, <2>4
  <2>5. CASE nextId' = nextId + 1 /\ sock' = [sock EXCEPT ![c] = "attached"]
             /\ UNCHANGED <<pipe, queue, early>>
    BY <1>2, <1>3, <2>1, <2>2, <2>3, <2>5
  <2>6. CASE nextId' = nextId + 1 /\ sock' = [sock EXCEPT ![c] = "posted"] /\ SafeCall(b, c)
    <3> HIDE DEF b
    <3> QED BY <1>2, <1>8, <2>1, <2>2, <2>3, <2>6
  <2> QED BY <1>10, <2>4, <2>5, <2>6 DEF Accept
<1> QED BY <1>4, <1>5, <1>6, <1>7, <1>9, <1>10

\* The steps of the loops.
LEMMA LoopKeeps ==
    ASSUME ServerInv, NEW b \in Bases,
           StartLoop(b) \/ HandleWakeup(b) \/ TasksDone(b) \/ RoundDone(b) \/ ExitBase(b)
    PROVE  ServerInv'
<1> USE DEF ServerInv
<1>1. /\ UNCHANGED <<n, cap, nextId, server, queue, sock, udp, early>> /\ Bases' = Bases
  BY DEF StartLoop, HandleWakeup, TasksDone, RoundDone, ExitBase, ExitFrom, Bases
<1>2. /\ at \in [Bases -> {"new", "events", "accept", "tasks", "over"}]
      /\ last \in [Bases -> BOOLEAN] /\ woken \in [Bases -> BOOLEAN]
      /\ pipe \in [Bases -> BOOLEAN] /\ exiting \in [Bases -> BOOLEAN]
  BY DEF ServerTypeOK, LoopsType
<1>3. /\ at' \in [Bases -> {"new", "events", "accept", "tasks", "over"}]
      /\ last' \in [Bases -> BOOLEAN] /\ woken' \in [Bases -> BOOLEAN]
      /\ pipe' \in [Bases -> BOOLEAN] /\ exiting' \in [Bases -> BOOLEAN]
      /\ \A a \in Bases \ {b} : /\ at'[a] = at[a] /\ last'[a] = last[a] /\ woken'[a] = woken[a]
                               /\ pipe'[a] = pipe[a] /\ exiting'[a] = exiting[a]
  <2>1. CASE StartLoop(b)
    BY <1>2, <2>1 DEF StartLoop
  <2>2. CASE HandleWakeup(b)
    BY <1>2, <2>2 DEF HandleWakeup
  <2>3. CASE TasksDone(b)
    BY <1>2, <2>3 DEF TasksDone
  <2>4. CASE RoundDone(b)
    BY <1>2, <2>4 DEF RoundDone
  <2>5. CASE ExitBase(b)
    BY <1>2, <2>5 DEF ExitBase, ExitFrom
  <2> QED BY <2>1, <2>2, <2>3, <2>4, <2>5
<1>4. ServerTypeOK' /\ LoopsType'
  BY <1>1, <1>3 DEF ServerTypeOK, LoopsType
<1>5. /\ last'[b] => exiting'[b]
      /\ at'[b] = "over" => last'[b]
      /\ WillRun(b) => WillRun(b)' \/ queue[b] = <<>>
  <2>1. (last[b] => exiting[b]) /\ (at[b] = "over" => last[b])
    BY DEF LastIsExit
  <2>2. CASE StartLoop(b)
    BY <1>2, <2>1, <2>2 DEF StartLoop, WillRun
  <2>3. CASE HandleWakeup(b)
    BY <1>2, <2>1, <2>3 DEF HandleWakeup, WillRun
  <2>4. CASE TasksDone(b)
    BY <1>2, <2>1, <2>4 DEF TasksDone, WillRun
  <2>5. CASE RoundDone(b)
    BY <1>2, <2>1, <2>5 DEF RoundDone, WillRun
  <2>6. CASE ExitBase(b)
    BY <1>2, <2>1, <2>6 DEF ExitBase, ExitFrom, WillRun
  <2> QED BY <2>2, <2>3, <2>4, <2>5, <2>6
<1>6. LastIsExit'
  BY <1>1, <1>3, <1>5 DEF LastIsExit
<1>7. \A a \in Bases : WillRun(a) => WillRun(a)' \/ queue[a] = <<>>
  BY <1>3, <1>5 DEF WillRun
<1>8. EarlyKept'
  BY <1>1, <1>7, EarlyStays DEF Finished
<1> QED BY <1>4, <1>6, <1>8

\* A loop runs a task.
LEMMA RunTaskKeeps == ASSUME ServerInv, NEW b \in Bases, RunTask(b) PROVE ServerInv'
<1> USE DEF ServerInv
<1> DEFINE q == queue[b]
           h == Head(queue[b])
           V == Socks \cup Udps
<1>1. /\ UNCHANGED <<n, cap, nextId, server, loopPart, pipe, early>> /\ Bases' = Bases
      /\ q # <<>> /\ queue' = [queue EXCEPT ![b] = Tail(@)]
      /\ IF h \in Socks THEN sock' = [sock EXCEPT ![h] = "attached"] /\ udp' = udp
         ELSE udp' = [udp EXCEPT ![h] = "deleted"] /\ sock' = sock
  BY DEF RunTask, Bases
<1>2. at' = at /\ last' = last /\ woken' = woken /\ exiting' = exiting
  BY <1>1 DEF loopPart
<1>3. /\ queue \in [Bases -> Seq(V)]
      /\ sock \in [Socks -> {"none", "backlog", "nameless", "posted", "attached"}]
      /\ udp \in [Udps -> {"none", "failed", "live", "forgotten", "deleted"}]
  BY DEF ServerTypeOK
<1>4. /\ h \in V /\ h = q[1] /\ Tail(q) \in Seq(V) /\ Len(q) \in Nat /\ Len(Tail(q)) = Len(q) - 1
      /\ \A k \in 1 .. Len(q) - 1 : Tail(q)[k] = q[k + 1]
  BY <1>1, <1>3, HeadTailProperties, LenProperties
<1>5. /\ queue' \in [Bases -> Seq(V)] /\ queue'[b] = Tail(q)
      /\ \A a \in Bases \ {b} : queue'[a] = queue[a]
  BY <1>1, <1>3, <1>4
<1> HIDE DEF q, h
<1>6. /\ sock' \in [Socks -> {"none", "backlog", "nameless", "posted", "attached"}]
      /\ udp' \in [Udps -> {"none", "failed", "live", "forgotten", "deleted"}]
  BY <1>1, <1>3, <1>4
<1>7. ServerTypeOK' /\ LoopsType' /\ LastIsExit'
  BY <1>1, <1>2, <1>5, <1>6 DEF ServerTypeOK, LoopsType, LastIsExit
<1>8. \A x \in early : Finished(x) => Finished(x)'
  <2>1. CASE h \in Socks
    BY <1>1, <2>1, FinishedStays DEF LoopsType
  <2>2. CASE h \notin Socks
    <3>1. h \in Udps
      BY <1>4, <2>2
    <3> QED BY <1>1, <2>2, <3>1, FinishedStays DEF LoopsType
  <2> QED BY <2>1, <2>2
<1>9. ASSUME NEW x \in early, x = h PROVE Finished(x)'
  BY <1>1, <1>3, <1>4, <1>9 DEF Finished
<1>10. \A a \in Bases : WillRun(a) => WillRun(a)'
  BY <1>1, <1>2 DEF WillRun
<1>11. EarlyKept'
  <2> SUFFICES ASSUME NEW x \in early, ~Finished(x)' PROVE Waiting(x)'
    BY <1>1 DEF EarlyKept
  <2>1. PICK a \in Bases : WillRun(a) /\ \E k \in 1 .. Len(queue[a]) : queue[a][k] = x
    BY <1>8 DEF EarlyKept, Waiting
  <2>2. PICK k \in 1 .. Len(queue[a]) : queue[a][k] = x
    BY <2>1
  <2>3. WillRun(a)'
    BY <1>10, <2>1
  <2>4. CASE a # b
    BY <1>1, <1>5, <2>2, <2>3, <2>4 DEF Waiting
  <2>5. CASE a = b
    <3>1. k # 1
      BY <1>4, <1>9, <2>2, <2>5 DEF q
    <3>2. k - 1 \in 1 .. Len(q) - 1 /\ (k - 1) + 1 = k
      BY <1>4, <2>5, <3>1 DEF q
    <3>3. queue'[a][k - 1] = x /\ k - 1 \in 1 .. Len(queue'[a])
      BY <1>4, <1>5, <2>2, <2>5, <3>2 DEF q
    <3> QED BY <1>1, <2>3, <3>3 DEF Waiting
  <2> QED BY <2>4, <2>5
<1> QED BY <1>7, <1>11

\* Every step keeps the invariant.
LEMMA ServerStep == ServerInv /\ [ServerNext]_serverVars => ServerInv'
<1> SUFFICES ASSUME ServerInv, [ServerNext]_serverVars PROVE ServerInv'
  OBVIOUS
<1>1. CASE UNCHANGED serverVars
  <2>1. /\ n' = n /\ cap' = cap /\ nextId' = nextId /\ at' = at /\ last' = last /\ woken' = woken
        /\ pipe' = pipe /\ exiting' = exiting /\ queue' = queue /\ sock' = sock /\ udp' = udp
        /\ early' = early /\ Bases' = Bases
    BY <1>1 DEF serverVars, Bases
  <2> QED BY <2>1 DEF ServerInv, ServerTypeOK, LoopsType, LastIsExit, EarlyKept, Waiting, WillRun,
                      Finished
<1> QED BY <1>1, AcceptKeeps, LoopKeeps, RunTaskKeeps DEF ServerNext, AcceptStep, LoopStep

\* Every task posted to a base before its exit() is done when all loops have returned,
\* for a MultiBase of any size, a limited EventBase of any capacity and any number of
\* clients and UDP connections.
THEOREM ServerPostedIsDone == ServerSpec => []PostedIsDone
<1>1. ServerInit => ServerInv
  <2> SUFFICES ASSUME ServerInit PROVE ServerInv
    OBVIOUS
  <2>1. n \in Nat \ {0} /\ cap \in Nat /\ nextId \in Nat
    BY ServerAssumption DEF ServerInit
  <2>2. ServerTypeOK /\ LoopsType
    BY <2>1 DEF ServerInit, ServerTypeOK, LoopsType
  <2>3. LastIsExit /\ EarlyKept
    BY DEF ServerInit, LastIsExit, EarlyKept
  <2> QED BY <2>2, <2>3 DEF ServerInv
<1>2. ServerInv => PostedIsDone
  BY DEF ServerInv, EarlyKept, Waiting, WillRun, PostedIsDone, Finished
<1> QED BY <1>1, <1>2, ServerStep, PTL DEF ServerSpec

-----------------------------------------------------------------------------
(* Http: each message is given once, with its own body.                     *)

\* The bytes of a message, the messages, what tryDecode keeps and what a callback gets.
HtCell == [msg : Nat, k : Nat]
HtMsg == [head : Heads, body : Bodies, route : Routes]
HtState == [scanned : Nat, contentLen : Nat, complete : BOOLEAN, body : Seq(HtCell)]
HtCall == [msg : Nat, body : Seq(HtCell)]
HtSize(ms, i) == ms[i].head + 4 + ms[i].body
HtBody(ms, i) == Cells(i, ms[i].head + 5, ms[i].head + 4 + ms[i].body)

\* At place p of s a message begins, all of it is there, and the next one follows it.
MsgAt(s, ms, p) ==
    LET i == s[p].msg
        size == HtSize(ms, i)
    IN  /\ p + size - 1 <= Len(s)
        /\ \A k \in 1 .. size : s[p + k - 1] = [msg |-> i, k |-> k]
        /\ \A q \in p + size .. Len(s) : s[q].msg > i
        /\ IF p + size - 1 = Len(s) THEN i = Len(ms) ELSE s[p + size] = [msg |-> i + 1, k |-> 1]

\* s is the messages after the d-th, one after the other.
Stream(s, ms, d) ==
    /\ \A p \in 1 .. Len(s) : s[p].msg \in 1 .. Len(ms)
    /\ IF s = <<>> THEN d = Len(ms) ELSE s[1] = [msg |-> d + 1, k |-> 1]
    /\ \A p \in 1 .. Len(s) : s[p].k = 1 => MsgAt(s, ms, p)

\* What tryDecode knows of message i when it has seen len bytes: it is searching and has
\* not passed the blank line, it has the head and waits for the body, or it is complete.
Decoding(len, m, i, ms, conn) ==
    /\ ~m.complete /\ m.contentLen = 0 =>
           IF len = 0 THEN m.scanned = 0 ELSE m.scanned <= ms[i].head
    /\ m.complete \/ m.contentLen # 0 =>
           /\ i \in 1 .. Len(ms) /\ len >= ms[i].head + 4
           /\ m.contentLen = ms[i].body /\ ms[i].route # "badLine"
           /\ ms[i].route = "badUri" => conn # "open"
    /\ ~m.complete /\ m.contentLen # 0 => m.scanned = ms[i].head + 4
    /\ m.complete => m.scanned = HtSize(ms, i) /\ len >= m.scanned /\ m.body = HtBody(ms, i)

\* The messages that were consumed: a client keeps the last one until its next request.
HtDone == IF role = "client" /\ msg.complete THEN Len(htGot) - 1 ELSE Len(htGot)

\* Call j of the callback was with message j; it was with a message that may be given.
Given(got, ms, j) == got[j] = [msg |-> j, body |-> HtBody(ms, j)]
CallOK(got, ms, conn, j) == /\ got[j].msg \in 1 .. Len(ms)
                            /\ ms[got[j].msg].route # "badLine"
                            /\ ms[got[j].msg].route = "badUri" => conn # "open"

HtCalls == \A j \in 1 .. Len(htGot) :
               /\ CallOK(htGot, htMsgs, htConn, j)
               /\ (htConn = "closed" /\ Repeated(j)) \/ Given(htGot, htMsgs, j)

\* A server keeps a complete message only if it was refused; a client has one request
\* under way at most, and none when it has the answer.
HtTurns == /\ role = "server" => (msg.complete => htConn = "closing")
           /\ role = "client" =>
                  /\ Len(htMsgs) <= asked /\ asked <= Len(htGot) + 1
                  /\ msg.complete => asked = Len(htGot)
                  /\ \A i \in 1 .. Len(htMsgs) : htMsgs[i].route # "badUri"

\* Until cleanup, the input and the wire are the messages that were not consumed.
HtOpen == htConn # "closed" =>
              /\ Stream(htInput \o htWire, htMsgs, HtDone)
              /\ Decoding(Len(htInput), msg, HtDone + 1, htMsgs, htConn)
              /\ HtTurns

HtAllCame == htWire = <<>> /\ ~piped /\ htConn = "open" => Len(htGot) = Len(htMsgs)

HtTypeOK == /\ role \in {"server", "client"} /\ htConn \in {"open", "closing", "closed"}
            /\ htMsgs \in Seq(HtMsg) /\ htWire \in Seq(HtCell) /\ htInput \in Seq(HtCell)
            /\ msg \in HtState /\ htGot \in Seq(HtCall) /\ asked \in Nat

\* The inductive invariant of the decoding.
HtInv == HtTypeOK /\ HtCalls /\ HtOpen /\ HtAllCame

\* The cells of a part of a message.
LEMMA CellsProps ==
    ASSUME NEW i \in Nat, NEW f \in Nat, NEW t \in Nat, f <= t + 1
    PROVE  /\ Cells(i, f, t) \in Seq(HtCell) /\ Len(Cells(i, f, t)) = t + 1 - f
           /\ \A k \in 1 .. t + 1 - f : Cells(i, f, t)[k] = [msg |-> i, k |-> f + k - 1]
<1> DEFINE size == t + 1 - f
<1>1. size \in Nat /\ \A k \in 1 .. size : f + k - 1 \in Nat
  OBVIOUS
<1>2. Cells(i, f, t) \in [1 .. size -> HtCell]
  BY <1>1 DEF Cells, HtCell
<1>3. Cells(i, f, t) \in Seq(HtCell)
  BY <1>1, <1>2
<1>4. Len(Cells(i, f, t)) = size
  BY <1>1, <1>2, <1>3
<1> QED BY <1>1, <1>3, <1>4 DEF Cells

\* A message has at least the five bytes of its header and the blank line.
LEMMA MsgProps ==
    ASSUME NEW ms \in Seq(HtMsg), NEW i \in 1 .. Len(ms)
    PROVE  /\ ms[i] \in HtMsg /\ ms[i].head \in Nat \ {0} /\ ms[i].body \in Nat
           /\ HtSize(ms, i) \in Nat /\ HtSize(ms, i) = ms[i].head + 4 + ms[i].body
           /\ HtBody(ms, i) \in Seq(HtCell) /\ Len(HtBody(ms, i)) = ms[i].body
           /\ \A k \in 1 .. ms[i].body : HtBody(ms, i)[k] = [msg |-> i, k |-> ms[i].head + 4 + k]
<1>1. Len(ms) \in Nat /\ i \in Nat
  BY LenProperties
<1>2. ms[i] \in HtMsg
  BY ElementOfSeq
<1>3. ms[i].head \in Nat \ {0} /\ ms[i].body \in Nat
  BY <1>2, HttpAssumption DEF HtMsg
<1> DEFINE f == ms[i].head + 5
           t == ms[i].head + 4 + ms[i].body
<1>4. f \in Nat /\ t \in Nat /\ f <= t + 1 /\ t + 1 - f = ms[i].body
  <2>1. \A h, b \in Nat : /\ h + 5 \in Nat /\ h + 4 + b \in Nat /\ h + 5 <= h + 4 + b + 1
                         /\ h + 4 + b + 1 - (h + 5) = b
    OBVIOUS
  <2> QED BY <1>3, <2>1
<1> HIDE DEF f, t
<1>5. /\ Cells(i, f, t) \in Seq(HtCell) /\ Len(Cells(i, f, t)) = ms[i].body
      /\ \A k \in 1 .. ms[i].body : Cells(i, f, t)[k] = [msg |-> i, k |-> f + k - 1]
  <2>1. /\ Cells(i, f, t) \in Seq(HtCell) /\ Len(Cells(i, f, t)) = t + 1 - f
        /\ \A k \in 1 .. t + 1 - f : Cells(i, f, t)[k] = [msg |-> i, k |-> f + k - 1]
    BY <1>1, <1>4, CellsProps, Zenon
  <2> QED BY <1>4, <2>1, Zenon
<1>6. HtBody(ms, i) = Cells(i, f, t)
  BY DEF HtBody, f, t
<1>7. \A k \in 1 .. ms[i].body : f + k - 1 = ms[i].head + 4 + k
  BY <1>3 DEF f
<1> QED BY <1>2, <1>3, <1>5, <1>6, <1>7 DEF HtSize

\* The first message of a stream that is not empty.
LEMMA StreamFirst ==
    ASSUME NEW ms \in Seq(HtMsg), NEW s \in Seq(HtCell), NEW d \in Nat, Stream(s, ms, d),
           s # <<>>
    PROVE  /\ d + 1 \in 1 .. Len(ms) /\ Len(s) \in Nat \ {0}
           /\ s[1] = [msg |-> d + 1, k |-> 1]
           /\ HtSize(ms, d + 1) <= Len(s)
           /\ \A k \in 1 .. HtSize(ms, d + 1) : s[k] = [msg |-> d + 1, k |-> k]
           /\ \A q \in HtSize(ms, d + 1) + 1 .. Len(s) : s[q].msg > d + 1
           /\ HtSize(ms, d + 1) = Len(s) => d + 1 = Len(ms)
           /\ HtSize(ms, d + 1) < Len(s) =>
                  s[HtSize(ms, d + 1) + 1] = [msg |-> d + 2, k |-> 1]
<1>1. Len(s) \in Nat \ {0} /\ Len(ms) \in Nat
  BY EmptySeq, LenProperties
<1>2. s[1] = [msg |-> d + 1, k |-> 1]
  BY DEF Stream
<1>3. s[1].msg = d + 1 /\ s[1].k = 1 /\ s[1].msg \in 1 .. Len(ms)
  BY <1>1, <1>2 DEF Stream
<1>4. MsgAt(s, ms, 1)
  BY <1>1, <1>3 DEF Stream
<1> DEFINE size == HtSize(ms, d + 1)
<1>5. size \in Nat
  BY <1>3, MsgProps
<1>6. /\ 1 + size - 1 <= Len(s)
      /\ \A k \in 1 .. size : s[1 + k - 1] = [msg |-> d + 1, k |-> k]
      /\ \A q \in 1 + size .. Len(s) : s[q].msg > d + 1
      /\ IF 1 + size - 1 = Len(s) THEN d + 1 = Len(ms)
         ELSE s[1 + size] = [msg |-> (d + 1) + 1, k |-> 1]
  BY <1>3, <1>4, Zenon DEF MsgAt
<1> HIDE DEF size
<1>7. \A k \in 1 .. size : s[k] = [msg |-> d + 1, k |-> k]
  <2> TAKE k \in 1 .. size
  <2>1. 1 + k - 1 = k
    BY <1>5
  <2> QED BY <1>6, <2>1
<1>8. 1 + size - 1 = size /\ 1 + size = size + 1 /\ (d + 1) + 1 = d + 2
  BY <1>5
<1> QED BY <1>1, <1>2, <1>3, <1>5, <1>6, <1>7, <1>8 DEF size

\* Its bytes, one by one.
LEMMA StreamCell ==
    ASSUME NEW ms \in Seq(HtMsg), NEW s \in Seq(HtCell), NEW d \in Nat, Stream(s, ms, d),
           s # <<>>, NEW j \in 1 .. HtSize(ms, d + 1)
    PROVE  s[j] = [msg |-> d + 1, k |-> j]
<1>1. 1 \in 1 .. Len(s) /\ d + 1 \in 1 .. Len(ms) /\ s[1] = [msg |-> d + 1, k |-> 1]
  <2>1. d + 1 \in 1 .. Len(ms)
    BY StreamFirst
  <2>2. Len(s) \in Nat \ {0}
    BY EmptySeq
  <2>3. s[1] = [msg |-> d + 1, k |-> 1]
    BY DEF Stream
  <2> QED BY <2>1, <2>2, <2>3
<1>2. MsgAt(s, ms, 1) /\ s[1].msg = d + 1 /\ j \in Nat /\ 1 + j - 1 = j
  BY <1>1, MsgProps DEF Stream
<1>3. s[1 + j - 1] = [msg |-> s[1].msg, k |-> j]
  BY <1>2, Zenon DEF MsgAt
<1> QED BY <1>2, <1>3, Zenon

\* It is the last that was sent if it is all of the stream.
LEMMA StreamLast ==
    ASSUME NEW ms \in Seq(HtMsg), NEW s \in Seq(HtCell), NEW d \in Nat, Stream(s, ms, d),
           s # <<>>, HtSize(ms, d + 1) = Len(s)
    PROVE  d + 1 = Len(ms)
<1>1. Len(s) \in Nat \ {0} /\ s[1] = [msg |-> d + 1, k |-> 1]
  BY EmptySeq DEF Stream
<1>2. MsgAt(s, ms, 1) /\ s[1].msg = d + 1 /\ 1 + Len(s) - 1 = Len(s)
  BY <1>1 DEF Stream
<1> QED BY <1>2, Zenon DEF MsgAt

\* What is left of a sequence of bytes without the first ones.
LEMMA Dropped ==
    ASSUME NEW s \in Seq(HtCell), NEW a \in 0 .. Len(s)
    PROVE  /\ SubSeq(s, a + 1, Len(s)) \in Seq(HtCell)
           /\ Len(SubSeq(s, a + 1, Len(s))) = Len(s) - a
           /\ \A p \in 1 .. Len(s) - a : SubSeq(s, a + 1, Len(s))[p] = s[p + a]
<1> DEFINE f == a + 1
           l == Len(s)
           t == SubSeq(s, f, l)
<1>1. l \in Nat /\ a \in Nat /\ a <= l /\ f \in Int /\ f = a + 1
  BY LenProperties
<1>2. \A p \in f .. l : s[p] \in HtCell
  BY <1>1, ElementOfSeq
<1> HIDE DEF f, l
<1>3. /\ t \in Seq(HtCell) /\ Len(t) = IF f <= l THEN l - f + 1 ELSE 0
      /\ \A p \in 1 .. l - f + 1 : t[p] = s[f + p - 1]
  BY <1>1, <1>2, SubSeqProperties
<1>4. l - f + 1 = l - a /\ \A p \in 1 .. l - a : f + p - 1 = p + a
  BY <1>1
<1>5. Len(t) = l - a
  BY <1>1, <1>3
<1>6. \A p \in 1 .. l - a : t[p] = s[p + a]
  BY <1>3, <1>4
<1> HIDE DEF t
<1> QED BY <1>3, <1>5, <1>6 DEF f, l, t

\* clearData consumes the first message: what is left is a stream again.
LEMMA StreamConsumed ==
    ASSUME NEW ms \in Seq(HtMsg), NEW s \in Seq(HtCell), NEW d \in Nat, Stream(s, ms, d),
           s # <<>>
    PROVE  Stream(SubSeq(s, HtSize(ms, d + 1) + 1, Len(s)), ms, d + 1)
<1> DEFINE size == HtSize(ms, d + 1)
           t == SubSeq(s, size + 1, Len(s))
<1>1. /\ d + 1 \in 1 .. Len(ms) /\ Len(s) \in Nat \ {0} /\ size <= Len(s)
      /\ size = Len(s) => d + 1 = Len(ms)
      /\ size < Len(s) => s[size + 1] = [msg |-> d + 2, k |-> 1]
  BY StreamFirst
<1>2. size \in Nat /\ Len(ms) \in Nat
  BY <1>1, MsgProps, LenProperties
<1> HIDE DEF size
<1>3. /\ t \in Seq(HtCell) /\ Len(t) = Len(s) - size /\ Len(t) \in Nat
      /\ \A p \in 1 .. Len(t) : t[p] = s[p + size] /\ p + size \in 1 .. Len(s)
  <2>1. size \in 0 .. Len(s)
    BY <1>1, <1>2
  <2>2. t \in Seq(HtCell) /\ Len(t) = Len(s) - size
    BY <2>1, Dropped
  <2>3. \A p \in 1 .. Len(s) - size : t[p] = s[p + size]
    BY <2>1, Dropped
  <2>4. \A p \in 1 .. Len(s) - size : p + size \in 1 .. Len(s)
    BY <1>1, <1>2
  <2>5. Len(t) \in Nat
    BY <2>2, LenProperties
  <2> QED BY <2>2, <2>3, <2>4, <2>5
<1> HIDE DEF t
<1>4. \A p \in 1 .. Len(t) : t[p].msg \in 1 .. Len(ms)
  BY <1>3 DEF Stream
<1>5. IF t = <<>> THEN d + 1 = Len(ms) ELSE t[1] = [msg |-> d + 1 + 1, k |-> 1]
  <2>1. CASE t = <<>>
    BY <1>1, <1>2, <1>3, <2>1, EmptySeq
  <2>2. CASE t # <<>>
    <3>1. Len(t) \in Nat \ {0}
      BY <1>3, <2>2, EmptySeq
    <3>2. t[1] = s[1 + size] /\ size < Len(s) /\ 1 + size = size + 1 /\ d + 1 + 1 = d + 2
      BY <1>1, <1>2, <1>3, <3>1
    <3> QED BY <1>1, <2>2, <3>2
  <2> QED BY <2>1, <2>2
<1>6. ASSUME NEW p \in 1 .. Len(t), t[p].k = 1 PROVE MsgAt(t, ms, p)
  <2> DEFINE i == t[p].msg
             m == HtSize(ms, i)
  <2>1. s[p + size] = t[p] /\ p + size \in 1 .. Len(s)
    BY <1>3
  <2>2. MsgAt(s, ms, p + size)
    BY <1>6, <2>1 DEF Stream
  <2>3. m \in Nat /\ i \in Nat /\ p \in Nat
    BY <1>2, <1>4, <1>6, MsgProps
  <2>4. /\ p + size + m - 1 <= Len(s)
        /\ \A k \in 1 .. m : s[p + size + k - 1] = [msg |-> i, k |-> k]
        /\ \A q \in p + size + m .. Len(s) : s[q].msg > i
        /\ IF p + size + m - 1 = Len(s) THEN i = Len(ms)
           ELSE s[p + size + m] = [msg |-> i + 1, k |-> 1]
    BY <2>1, <2>2, Zenon DEF MsgAt
  <2> HIDE DEF i, m
  <2>5. p + m - 1 <= Len(t)
    BY <1>1, <1>2, <1>3, <2>3, <2>4
  <2>6. ASSUME NEW k \in 1 .. m PROVE t[p + k - 1] = [msg |-> i, k |-> k]
    <3>1. p + k - 1 \in 1 .. Len(t) /\ p + k - 1 + size = p + size + k - 1
      BY <1>1, <1>2, <1>3, <2>3, <2>5
    <3> QED BY <1>3, <2>4, <3>1
  <2>7. ASSUME NEW q \in p + m .. Len(t) PROVE t[q].msg > i
    <3>1. q \in 1 .. Len(t) /\ q + size \in p + size + m .. Len(s)
      BY <1>1, <1>2, <1>3, <2>3
    <3> QED BY <1>3, <2>4, <3>1
  <2>8. p + m - 1 = Len(t) => i = Len(ms)
    BY <1>1, <1>2, <1>3, <2>3, <2>4
  <2>9. p + m - 1 # Len(t) => t[p + m] = [msg |-> i + 1, k |-> 1]
    <3> SUFFICES ASSUME p + m - 1 # Len(t) PROVE t[p + m] = [msg |-> i + 1, k |-> 1]
      OBVIOUS
    <3>1. p + m \in 1 .. Len(t) /\ p + m + size = p + size + m /\ p + size + m - 1 # Len(s)
      BY <1>1, <1>2, <1>3, <2>3, <2>5
    <3> QED BY <1>3, <2>4, <3>1
  <2> QED BY <2>5, <2>6, <2>7, <2>8, <2>9 DEF MsgAt, i, m
<1> QED BY <1>4, <1>5, <1>6 DEF Stream, t, size

\* The other end sends one more message.
LEMMA StreamSent ==
    ASSUME NEW ms \in Seq(HtMsg), NEW s \in Seq(HtCell), NEW d \in Nat, Stream(s, ms, d),
           NEW m \in HtMsg
    PROVE  Stream(s \o Cells(Len(ms) + 1, 1, m.head + 4 + m.body), Append(ms, m), d)
<1> DEFINE N == Len(ms)
           ns == Append(ms, m)
           z == m.head + 4 + m.body
           c == Cells(N + 1, 1, z)
           t == s \o c
           l == Len(s)
<1>1. /\ N \in Nat /\ ns \in Seq(HtMsg) /\ Len(ns) = N + 1 /\ ns[N + 1] = m
      /\ \A i \in 1 .. N : ns[i] = ms[i]
  BY AppendProperties, LenProperties
<1>2. m.head \in Nat \ {0} /\ m.body \in Nat /\ z \in Nat /\ z > 4 /\ l \in Nat
  <2>1. m.head \in Heads /\ m.body \in Bodies
    BY DEF HtMsg
  <2>2. m.head \in Nat \ {0} /\ m.body \in Nat
    BY <2>1, HttpAssumption
  <2> QED BY <2>2, LenProperties
<1>3. HtSize(ns, N + 1) = z /\ \A i \in 1 .. N : HtSize(ns, i) = HtSize(ms, i)
  BY <1>1 DEF HtSize
<1> HIDE DEF z
<1>4. /\ c \in Seq(HtCell) /\ Len(c) = z
      /\ \A k \in 1 .. z : c[k] = [msg |-> N + 1, k |-> k]
  <2>1. N + 1 \in Nat /\ 1 <= z + 1 /\ z + 1 - 1 = z /\ \A k \in 1 .. z : 1 + k - 1 = k
    BY <1>1, <1>2
  <2>2. /\ c \in Seq(HtCell) /\ Len(c) = z + 1 - 1
        /\ \A k \in 1 .. z + 1 - 1 : c[k] = [msg |-> N + 1, k |-> 1 + k - 1]
    BY <1>2, <2>1, CellsProps
  <2> QED BY <2>1, <2>2
<1> HIDE DEF c
<1>5. t \in Seq(HtCell) /\ Len(t) = l + z
  BY <1>4, ConcatProperties
<1>6. \A p \in 1 .. l : t[p] = s[p]
  BY <1>2, <1>4, ConcatProperties
<1>7. \A k \in 1 .. z : t[l + k] = [msg |-> N + 1, k |-> k]
  <2> TAKE k \in 1 .. z
  <2>1. l + k \in 1 .. l + z /\ ~(l + k <= l) /\ (l + k) - l = k
    BY <1>2
  <2>2. t[l + k] = c[(l + k) - l]
    BY <1>4, <2>1, ConcatProperties
  <2> QED BY <1>4, <2>1, <2>2
<1>8. \A p \in l + 1 .. l + z : t[p].msg = N + 1 /\ t[p].k = p - l
  <2> TAKE p \in l + 1 .. l + z
  <2>1. p - l \in 1 .. z /\ l + (p - l) = p
    BY <1>2
  <2>2. t[l + (p - l)] = [msg |-> N + 1, k |-> p - l]
    BY <1>7, <2>1, Zenon
  <2>3. t[p] = [msg |-> N + 1, k |-> p - l]
    BY <2>1, <2>2, Zenon
  <2> QED BY <2>3
<1> HIDE DEF t, ns, N, l
<1>9. \A p \in 1 .. l : s[p].msg \in 1 .. N
  BY DEF Stream, N, l
<1>10. \A p \in 1 .. Len(t) : t[p].msg \in 1 .. Len(ns)
  <2> TAKE p \in 1 .. Len(t)
  <2>1. CASE p \in 1 .. l
    BY <1>1, <1>6, <1>9, <2>1
  <2>2. CASE p \in l + 1 .. l + z
    <3>1. t[p].msg = N + 1
      BY <1>8, <2>2
    <3> QED BY <1>1, <3>1
  <2> QED BY <1>2, <1>5, <2>1, <2>2
<1>11. t # <<>> /\ t[1] = [msg |-> d + 1, k |-> 1]
  <2>1. t # <<>>
    BY <1>2, <1>5, EmptySeq
  <2>2. CASE s = <<>>
    <3>1. d = N /\ l = 0 /\ 1 \in 1 .. z /\ l + 1 = 1
      BY <1>2, <2>2, EmptySeq DEF Stream, N, l
    <3> QED BY <1>7, <2>1, <3>1
  <2>3. CASE s # <<>>
    <3>1. 1 \in 1 .. l
      BY <2>3, EmptySeq DEF l
    <3> QED BY <1>6, <2>1, <2>3, <3>1 DEF Stream
  <2> QED BY <2>2, <2>3
<1>12. ASSUME NEW p \in 1 .. Len(t), t[p].k = 1 PROVE MsgAt(t, ns, p)
  <2>1. CASE p \in 1 .. l
    <3> DEFINE i == s[p].msg
               size == HtSize(ms, i)
    <3>1. t[p] = s[p] /\ i \in 1 .. N /\ HtSize(ns, i) = size
      BY <1>3, <1>6, <1>9, <2>1
    <3>2. MsgAt(s, ms, p)
      BY <1>12, <2>1, <3>1 DEF Stream, l
    <3>3. size \in Nat /\ p \in Nat /\ i \in Nat
      BY <1>1, <1>2, <2>1, <3>1, MsgProps DEF N
    <3>4. /\ p + size - 1 <= l
          /\ \A k \in 1 .. size : s[p + k - 1] = [msg |-> i, k |-> k]
          /\ \A q \in p + size .. l : s[q].msg > i
          /\ IF p + size - 1 = l THEN i = N ELSE s[p + size] = [msg |-> i + 1, k |-> 1]
      BY <3>2, Zenon DEF MsgAt, N, l
    <3> HIDE DEF i, size
    <3>5. p + size - 1 <= Len(t) /\ p + size - 1 # Len(t)
      BY <1>2, <1>5, <3>3, <3>4
    <3>6. ASSUME NEW k \in 1 .. size PROVE t[p + k - 1] = [msg |-> i, k |-> k]
      <4>1. p + k - 1 \in 1 .. l
        BY <1>2, <2>1, <3>3, <3>4
      <4> QED BY <1>6, <3>4, <4>1
    <3>7. ASSUME NEW q \in p + size .. Len(t) PROVE t[q].msg > i
      <4>1. CASE q <= l
        <5>1. q \in p + size .. l /\ q \in 1 .. l
          BY <1>2, <2>1, <3>3, <4>1
        <5> QED BY <1>6, <3>4, <5>1
      <4>2. CASE q > l
        <5>1. q \in l + 1 .. l + z
          BY <1>2, <1>5, <3>3, <4>2
        <5>2. t[q].msg = N + 1
          BY <1>8, <5>1
        <5> QED BY <1>1, <3>1, <5>2
      <4> QED BY <1>2, <3>3, <4>1, <4>2
    <3>8. t[p + size] = [msg |-> i + 1, k |-> 1]
      <4>1. CASE p + size - 1 = l
        <5>1. i = N /\ p + size = l + 1 /\ 1 \in 1 .. z
          BY <1>2, <3>3, <3>4, <4>1
        <5> QED BY <1>7, <5>1
      <4>2. CASE p + size - 1 # l
        <5>1. p + size \in 1 .. l
          BY <1>2, <2>1, <3>3, <3>4, <4>2
        <5> QED BY <1>6, <3>4, <4>2, <5>1
      <4> QED BY <4>1, <4>2
    <3> QED BY <3>1, <3>5, <3>6, <3>7, <3>8 DEF MsgAt, i, size
  <2>2. CASE p \in l + 1 .. l + z
    <3>1. p = l + 1 /\ t[p].msg = N + 1
      <4>1. t[p].msg = N + 1 /\ t[p].k = p - l
        BY <1>8, <2>2
      <4> QED BY <1>2, <1>12, <2>2, <4>1
    <3>2. HtSize(ns, t[p].msg) = z /\ p + z - 1 = Len(t) /\ t[p].msg = Len(ns)
      BY <1>1, <1>2, <1>3, <1>5, <3>1
    <3>3. \A k \in 1 .. z : p + k - 1 = l + k
      BY <1>2, <3>1
    <3>4. \A k \in 1 .. z : t[p + k - 1] = [msg |-> t[p].msg, k |-> k]
      BY <1>7, <3>1, <3>3
    <3>5. \A q \in p + z .. Len(t) : FALSE
      BY <1>2, <1>5, <3>1
    <3>6. p + z - 1 <= Len(t)
      BY <1>2, <1>5, <3>2
    <3> QED BY <3>2, <3>4, <3>5, <3>6 DEF MsgAt
  <2> QED BY <1>2, <1>5, <2>1, <2>2
<1> QED BY <1>10, <1>11, <1>12 DEF Stream, t, ns, c, N, z

\* The input begins with bytes of message i.
Begins(in, i) == /\ in \in Seq(HtCell) /\ in # <<>>
                 /\ \A k \in 1 .. HtSize(htMsgs, i) : k <= Len(in) => in[k] = [msg |-> i, k |-> k]

\* The search finds the blank line of the first message as soon as it is there, and goes
\* on before it otherwise.
LEMMA ScanRight ==
    ASSUME htMsgs \in Seq(HtMsg), NEW i \in 1 .. Len(htMsgs), NEW in, Begins(in, i),
           NEW from \in Nat, from <= htMsgs[i].head
    PROVE  /\ Len(in) >= htMsgs[i].head + 4 =>
                  Scan(in, from).found /\ Scan(in, from).at = htMsgs[i].head
           /\ Len(in) < htMsgs[i].head + 4 =>
                  /\ ~Scan(in, from).found
                  /\ Scan(in, from).at \in Nat /\ Scan(in, from).at <= htMsgs[i].head
<1> DEFINE h == htMsgs[i].head
           l == Len(in)
           hits == {p \in from .. (l - 4) : l >= 4 /\ BlankLine(in[p + 1])}
           least == CHOOSE p \in hits : \A q \in hits : p <= q
<1>1. h \in Nat \ {0} /\ HtSize(htMsgs, i) \in Nat /\ h + 4 <= HtSize(htMsgs, i)
  BY MsgProps
<1>2. l \in Nat
  BY LenProperties DEF Begins
<1>3. Scan(in, from) = IF hits # {} THEN [found |-> TRUE, at |-> least]
                       ELSE [found |-> FALSE, at |-> IF l >= from + 4 THEN l - 3 ELSE from]
  BY DEF Scan
<1>4. \A k \in 1 .. h + 4 : k <= l => in[k].msg = i /\ in[k].k = k
  <2> SUFFICES ASSUME NEW k \in 1 .. h + 4, k <= l PROVE in[k].msg = i /\ in[k].k = k
    OBVIOUS
  <2>1. k \in 1 .. HtSize(htMsgs, i)
    BY <1>1
  <2>2. in[k] = [msg |-> i, k |-> k]
    BY <2>1, Zenon DEF Begins, l
  <2> QED BY <2>2
<1>5. \A k \in 1 .. h + 4 : k <= l => (BlankLine(in[k]) <=> k = h + 1)
  BY <1>1, <1>4 DEF BlankLine
<1> HIDE DEF h, l
<1>6. \A p \in hits : p \in Nat /\ h <= p
  <2> SUFFICES ASSUME NEW p \in from .. (l - 4), BlankLine(in[p + 1]), ~(h <= p) PROVE FALSE
    BY <1>2
  <2>1. p + 1 \in 1 .. h + 4 /\ p + 1 <= l /\ p + 1 # h + 1
    BY <1>1, <1>2
  <2> QED BY <1>5, <2>1
<1>7. ASSUME l >= h + 4 PROVE h \in hits
  <2>1. h \in from .. l - 4 /\ l >= 4 /\ h + 1 \in 1 .. h + 4 /\ h + 1 <= l
    BY <1>1, <1>2, <1>7 DEF h
  <2> QED BY <1>5, <2>1
<1>8. ASSUME l < h + 4 PROVE hits = {}
  <2>1. ASSUME NEW p \in hits PROVE FALSE
    <3>1. p \in Int /\ h <= p /\ p <= l - 4
      BY <1>2, <1>6, <2>1
    <3> QED BY <1>1, <1>2, <1>8, <3>1
  <2> QED BY <2>1
<1> HIDE DEF hits
<1>9. ASSUME l >= h + 4 PROVE least = h
  <2>1. \E p \in hits : \A q \in hits : p <= q
    BY <1>6, <1>7, <1>9
  <2>2. least \in hits /\ \A q \in hits : least <= q
    BY <2>1
  <2>3. least <= h /\ h <= least /\ least \in Nat
    BY <1>6, <1>7, <1>9, <2>2
  <2> QED BY <1>1, <2>3
<1> HIDE DEF least
<1>10. l >= h + 4 => Scan(in, from).found /\ Scan(in, from).at = h
  <2> SUFFICES ASSUME l >= h + 4 PROVE Scan(in, from).found /\ Scan(in, from).at = h
    OBVIOUS
  <2>1. hits # {} /\ least = h
    BY <1>7, <1>9
  <2> QED BY <1>3, <2>1
<1>11. l < h + 4 => /\ ~Scan(in, from).found
                    /\ Scan(in, from).at \in Nat /\ Scan(in, from).at <= h
  <2> SUFFICES ASSUME l < h + 4
               PROVE  /\ ~Scan(in, from).found
                      /\ Scan(in, from).at \in Nat /\ Scan(in, from).at <= h
    OBVIOUS
  <2> DEFINE w == IF l >= from + 4 THEN l - 3 ELSE from
  <2>1. Scan(in, from) = [found |-> FALSE, at |-> w]
    BY <1>3, <1>8
  <2>2. w \in Nat /\ w <= h
    BY <1>1, <1>2 DEF h
  <2> HIDE DEF w
  <2> QED BY <2>1, <2>2
<1> QED BY <1>10, <1>11 DEF h, l

\* The body is taken when all of it is there.
LEMMA BodyRight ==
    ASSUME htMsgs \in Seq(HtMsg), NEW i \in 1 .. Len(htMsgs), NEW in, Begins(in, i),
           NEW m \in HtState, m.scanned = htMsgs[i].head + 4, m.contentLen = htMsgs[i].body
    PROVE  IF Len(in) >= HtSize(htMsgs, i)
           THEN WithBody(in, m) = [scanned |-> HtSize(htMsgs, i), contentLen |-> htMsgs[i].body,
                                   complete |-> TRUE, body |-> HtBody(htMsgs, i)]
           ELSE WithBody(in, m) = m
<1> DEFINE h == htMsgs[i].head
           b == htMsgs[i].body
           size == HtSize(htMsgs, i)
           t == SubSeq(in, m.scanned + 1, m.scanned + m.contentLen)
<1>1. /\ h \in Nat \ {0} /\ b \in Nat /\ size \in Nat /\ size = h + 4 + b
      /\ HtBody(htMsgs, i) \in Seq(HtCell) /\ Len(HtBody(htMsgs, i)) = b
      /\ \A k \in 1 .. b : HtBody(htMsgs, i)[k] = [msg |-> i, k |-> h + 4 + k]
  BY MsgProps
<1>2. in \in Seq(HtCell) /\ Len(in) \in Nat
  BY LenProperties DEF Begins
<1>3. m.contentLen + m.scanned = size /\ m.scanned + m.contentLen = size /\ m.contentLen = b
  BY <1>1
<1>4. ASSUME Len(in) >= size PROVE t = HtBody(htMsgs, i)
  <2>1. t = SubSeq(in, h + 5, size)
    <3>1. m.scanned + 1 = h + 5
      BY <1>1
    <3> QED BY <1>3, <3>1
  <2> HIDE DEF t, h, b, size
  <2>2. \A k \in h + 5 .. size : in[k] \in HtCell
    BY <1>1, <1>2, <1>4, ElementOfSeq
  <2>3. /\ t \in Seq(HtCell) /\ Len(t) = IF h + 5 <= size THEN size - (h + 5) + 1 ELSE 0
        /\ \A k \in 1 .. size - (h + 5) + 1 : t[k] = in[h + 5 + k - 1]
    <3>1. h + 5 \in Int /\ size \in Int
      BY <1>1
    <3> DEFINE e == h + 5
               u == SubSeq(in, e, size)
    <3>2. e \in Int /\ \A k \in e .. size : in[k] \in HtCell
      BY <2>2, <3>1
    <3> HIDE DEF e
    <3>3. /\ u \in Seq(HtCell) /\ Len(u) = IF e <= size THEN size - e + 1 ELSE 0
          /\ \A k \in 1 .. size - e + 1 : u[k] = in[e + k - 1]
      BY <3>1, <3>2, SubSeqProperties
    <3> QED BY <2>1, <3>3, Zenon DEF e
  <2>4. Len(t) = b /\ size - (h + 5) + 1 = b
    BY <1>1, <2>3
  <2>5. ASSUME NEW k \in 1 .. b PROVE t[k] = HtBody(htMsgs, i)[k]
    <3>1. h + 5 + k - 1 = h + 4 + k /\ h + 4 + k \in 1 .. size /\ h + 4 + k <= Len(in)
      <4>1. h \in Nat /\ b \in Nat /\ size = h + 4 + b
        BY <1>1
      <4>2. k \in Nat /\ 1 <= k /\ k <= b
        BY <4>1
      <4> QED BY <1>2, <1>4, <4>1, <4>2
    <3>2. in[h + 4 + k] = [msg |-> i, k |-> h + 4 + k]
      BY <3>1 DEF Begins, size
    <3> QED BY <1>1, <2>3, <2>4, <3>1, <3>2
  <2> QED BY <1>1, <2>3, <2>4, <2>5, SeqEqual
<1> HIDE DEF t, size
<1>5. WithBody(in, m) = IF Len(in) >= m.contentLen + m.scanned
                        THEN [scanned |-> m.scanned + m.contentLen, contentLen |-> m.contentLen,
                              complete |-> TRUE, body |-> t]
                        ELSE m
  BY DEF WithBody, t
<1> QED BY <1>3, <1>4, <1>5 DEF size

\* tryDecode, called again with more input, keeps what it knows of the first message, and
\* completes the message when all of it is there.
LEMMA DecodeStep ==
    ASSUME htMsgs \in Seq(HtMsg), NEW i \in 1 .. Len(htMsgs), NEW in, Begins(in, i),
           NEW m \in HtState, NEW len \in 0 .. Len(in), NEW conn, NEW new,
           Decoding(len, m, i, htMsgs, conn),
           TryDecode_(in, m).err \/ conn # "open" => new # "open"
    PROVE  LET r == TryDecode_(in, m)
           IN  /\ r.m \in HtState /\ r.err \in BOOLEAN
               /\ Decoding(Len(in), r.m, i, htMsgs, new)
               /\ m.complete => r.m = m /\ ~r.err
               /\ Len(in) >= HtSize(htMsgs, i) /\ ~r.err => r.m.complete
               /\ r.err => htMsgs[i].route \in {"badUri", "badLine"}
<1> DEFINE r == TryDecode_(in, m)
           first == htMsgs[i]
           h == htMsgs[i].head
           size == HtSize(htMsgs, i)
           s == Scan(in, m.scanned)
           f == [m EXCEPT !.scanned = s.at + 4, !.contentLen = first.body]
<1>1. h \in Nat \ {0} /\ first.body \in Nat /\ size \in Nat /\ size = h + 4 + first.body
      /\ HtBody(htMsgs, i) \in Seq(HtCell)
  BY MsgProps
<1>2. Len(in) \in Nat \ {0} /\ in \in Seq(HtCell)
  BY LenProperties, EmptySeq DEF Begins
<1>3. in[1].msg = i
  <2>1. 1 \in 1 .. size /\ 1 <= Len(in)
    BY <1>1, <1>2
  <2>2. in[1] = [msg |-> i, k |-> 1]
    BY <2>1, Zenon DEF Begins
  <2> QED BY <2>2
<1>4. r = IF m.complete THEN [m |-> m, err |-> FALSE]
          ELSE IF m.contentLen # 0 THEN [m |-> WithBody(in, m), err |-> FALSE]
          ELSE IF ~s.found THEN [m |-> [m EXCEPT !.scanned = s.at], err |-> FALSE]
          ELSE IF first.route = "badLine" THEN [m |-> [m EXCEPT !.scanned = s.at], err |-> TRUE]
          ELSE [m |-> WithBody(in, f), err |-> BadUri(first)]
  BY <1>3 DEF TryDecode_
<1>5. /\ m.scanned \in Nat /\ m.contentLen \in Nat /\ m.complete \in BOOLEAN
      /\ m.body \in Seq(HtCell)
  BY DEF HtState
<1>a. r.err \/ conn # "open" => new # "open"
  OBVIOUS
<1> HIDE DEF r
<1> DEFINE Goal == /\ r.m \in HtState /\ r.err \in BOOLEAN
                   /\ Decoding(Len(in), r.m, i, htMsgs, new)
                   /\ m.complete => r.m = m /\ ~r.err
                   /\ Len(in) >= size /\ ~r.err => r.m.complete
                   /\ r.err => first.route \in {"badUri", "badLine"}
           Whole == [scanned |-> size, contentLen |-> first.body, complete |-> TRUE,
                     body |-> HtBody(htMsgs, i)]
<1> SUFFICES Goal
  BY DEF r
<1>6. CASE m.complete
  <2>1. r.m = m /\ r.err = FALSE
    BY <1>4, <1>6
  <2>2. Decoding(Len(in), m, i, htMsgs, new)
    BY <1>1, <1>2, <1>5, <1>6, <1>a DEF Decoding
  <2> QED BY <1>6, <2>1, <2>2
<1> HIDE DEF s, size
<1>7. CASE ~m.complete /\ m.contentLen # 0
  <2>1. /\ r.m = WithBody(in, m) /\ r.err = FALSE
    BY <1>4, <1>7
  <2>2. /\ m.scanned = h + 4 /\ m.contentLen = first.body /\ len >= h + 4
        /\ first.route # "badLine" /\ (first.route = "badUri" => conn # "open")
    BY <1>7 DEF Decoding
  <2>3. IF Len(in) >= size THEN WithBody(in, m) = Whole ELSE WithBody(in, m) = m
    BY <2>2, BodyRight DEF size
  <2>4. CASE Len(in) >= size
    <3>1. r.m = Whole /\ Whole \in HtState
      BY <1>1, <2>1, <2>3, <2>4 DEF HtState
    <3>2. Decoding(Len(in), Whole, i, htMsgs, new)
      BY <1>1, <1>2, <1>a, <2>2, <2>4 DEF Decoding, size
    <3>3. r.m.complete /\ r.err = FALSE
      BY <2>1, <3>1
    <3> HIDE DEF Whole
    <3> QED BY <1>7, <3>1, <3>2, <3>3
  <2>5. CASE ~(Len(in) >= size)
    <3>1. r.m = m
      BY <2>1, <2>3, <2>5
    <3>2. Decoding(Len(in), m, i, htMsgs, new)
      BY <1>1, <1>2, <1>7, <1>a, <2>2 DEF Decoding
    <3> QED BY <1>7, <2>1, <2>5, <3>1, <3>2
  <2> QED BY <2>4, <2>5
<1>8. CASE ~m.complete /\ m.contentLen = 0
  <2>1. m.scanned <= h
    BY <1>1, <1>8 DEF Decoding
  <2>2. /\ Len(in) >= h + 4 => s.found /\ s.at = h
        /\ Len(in) < h + 4 => ~s.found /\ s.at \in Nat /\ s.at <= h
    BY <1>5, <2>1, ScanRight DEF s
  <2> DEFINE g == [m EXCEPT !.scanned = s.at]
  <2>3. ASSUME s.at \in Nat, s.at <= h
        PROVE  g \in HtState /\ Decoding(Len(in), g, i, htMsgs, new) /\ ~g.complete
    <3>1. g \in HtState /\ g.complete = m.complete /\ g.contentLen = 0 /\ g.scanned = s.at
      BY <1>5, <1>8, <2>3 DEF HtState
    <3> HIDE DEF g
    <3> QED BY <1>2, <1>8, <2>3, <3>1 DEF Decoding
  <2>4. CASE Len(in) < h + 4
    <3>1. r.m = g /\ r.err = FALSE
      BY <1>4, <1>8, <2>2, <2>4
    <3>2. ~(Len(in) >= size)
      BY <1>1, <1>2, <2>4
    <3> QED BY <1>8, <2>2, <2>3, <2>4, <3>1, <3>2
  <2>5. CASE Len(in) >= h + 4 /\ first.route = "badLine"
    <3>1. r.m = g /\ r.err = TRUE
      BY <1>4, <1>8, <2>2, <2>5
    <3>2. g \in HtState /\ Decoding(Len(in), g, i, htMsgs, new)
      BY <1>1, <2>2, <2>3, <2>5
    <3> HIDE DEF g
    <3> QED BY <1>8, <2>5, <3>1, <3>2
  <2>6. CASE Len(in) >= h + 4 /\ first.route # "badLine"
    <3>1. r.m = WithBody(in, f) /\ r.err = BadUri(first) /\ s.at = h
      BY <1>4, <1>8, <2>2, <2>6
    <3>2. /\ f \in HtState /\ f.scanned = h + 4 /\ f.contentLen = first.body
          /\ f.complete = m.complete
      <4> DEFINE w == s.at + 4
      <4>1. w = h + 4 /\ w \in Nat /\ f = [m EXCEPT !.scanned = w, !.contentLen = first.body]
        BY <1>1, <3>1
      <4> HIDE DEF w, f
      <4> QED BY <1>1, <1>5, <4>1 DEF HtState
    <3>3. r.err \in BOOLEAN /\ (r.err <=> first.route = "badUri")
      BY <3>1 DEF BadUri
    <3> HIDE DEF f
    <3>4. IF Len(in) >= size THEN WithBody(in, f) = Whole ELSE WithBody(in, f) = f
      BY <3>2, BodyRight DEF size
    <3>5. first.route = "badUri" => new # "open"
      BY <3>3, <1>a
    <3>6. CASE Len(in) >= size
      <4>1. r.m = Whole /\ Whole \in HtState
        BY <1>1, <3>1, <3>4, <3>6 DEF HtState
      <4>2. Decoding(Len(in), Whole, i, htMsgs, new)
        BY <1>1, <1>2, <2>6, <3>5, <3>6 DEF Decoding, size
      <4> QED BY <1>8, <3>3, <4>1, <4>2
    <3>7. CASE ~(Len(in) >= size)
      <4>1. r.m = f /\ first.body # 0
        BY <1>1, <1>2, <2>6, <3>1, <3>4, <3>7
      <4>2. Decoding(Len(in), f, i, htMsgs, new)
        BY <1>1, <1>2, <1>8, <2>6, <3>2, <3>5, <4>1 DEF Decoding
      <4> QED BY <1>8, <3>2, <3>3, <3>7, <4>1, <4>2
    <3> QED BY <3>6, <3>7
  <2> QED BY <1>1, <1>2, <2>4, <2>5, <2>6
<1> QED BY <1>5, <1>6, <1>7, <1>8

\* The messages that were consumed, as a number.
LEMMA DoneType ==
    ASSUME HtInv, htConn # "closed"
    PROVE  /\ HtDone \in Nat /\ Len(htGot) \in Nat /\ Len(htInput) \in Nat
           /\ Len(htWire) \in Nat /\ Len(htMsgs) \in Nat
<1>1. /\ Len(htGot) \in Nat /\ Len(htInput) \in Nat
      /\ Len(htWire) \in Nat /\ Len(htMsgs) \in Nat
  BY LenProperties DEF HtInv, HtTypeOK
<1>2. CASE role = "client" /\ msg.complete
  <2>1. HtDone = Len(htGot) - 1 /\ HtDone + 1 \in 1 .. Len(htMsgs)
    BY <1>2 DEF HtDone, HtInv, HtOpen, Decoding
  <2> QED BY <1>1, <2>1
<1>3. CASE ~(role = "client" /\ msg.complete)
  BY <1>1, <1>3 DEF HtDone
<1> QED BY <1>1, <1>2, <1>3

\* Reading k bytes moves them from the wire to the input, which begins with bytes of the
\* first message that was not consumed.
LEMMA ReadIn ==
    ASSUME HtInv, htConn # "closed", NEW k \in 0 .. Len(htWire)
    PROVE  LET in   == htInput \o SubSeq(htWire, 1, k)
               rest == SubSeq(htWire, k + 1, Len(htWire))
           IN  /\ in \in Seq(HtCell) /\ rest \in Seq(HtCell)
               /\ in \o rest = htInput \o htWire
               /\ Len(in) = Len(htInput) + k /\ Len(rest) = Len(htWire) - k
               /\ in # <<>> => /\ HtDone + 1 \in 1 .. Len(htMsgs)
                               /\ Begins(in, HtDone + 1) /\ in[1].msg = HtDone + 1
<1>1. /\ htWire \in Seq(HtCell) /\ htInput \in Seq(HtCell) /\ htMsgs \in Seq(HtMsg)
      /\ Stream(htInput \o htWire, htMsgs, HtDone)
  BY DEF HtInv, HtTypeOK, HtOpen
<1>2. Len(htWire) \in Nat /\ Len(htInput) \in Nat /\ HtDone \in Nat
  BY DoneType
<1> DEFINE a == SubSeq(htWire, 1, k)
           s == htInput \o htWire
           in == htInput \o a
           rest == SubSeq(htWire, k + 1, Len(htWire))
<1>3. /\ a \in Seq(HtCell) /\ Len(a) = k /\ rest \in Seq(HtCell) /\ Len(rest) = Len(htWire) - k
      /\ a \o rest = htWire
  <2>1. \A p \in 1 .. Len(htWire) : htWire[p] \in HtCell
    BY <1>1, ElementOfSeq
  <2>2. a \in Seq(HtCell) /\ Len(a) = k
    BY <1>2, <2>1, SubSeqProperties
  <2>3. rest \in Seq(HtCell) /\ Len(rest) = Len(htWire) - k
    BY <1>2, <2>1, SubSeqProperties
  <2>4. 1 \in 1 .. Len(htWire) + 1 /\ k \in 1 - 1 .. Len(htWire) /\ Len(htWire) \in k .. Len(htWire)
    BY <1>2
  <2>5. SubSeq(htWire, 1, k) \o SubSeq(htWire, k + 1, Len(htWire)) = SubSeq(htWire, 1, Len(htWire))
    BY <1>1, <2>4, ConcatAdjacentSubSeq, Zenon
  <2>6. SubSeq(htWire, 1, Len(htWire)) = htWire
    BY <1>1, SubSeqFull, Zenon
  <2> QED BY <2>2, <2>3, <2>5, <2>6
<1> HIDE DEF a, rest
<1>5. in \in Seq(HtCell) /\ Len(in) = Len(htInput) + k
  BY <1>1, <1>3, ConcatProperties
<1>6. in \o rest = s
  <2>1. (htInput \o a) \o rest = htInput \o (a \o rest)
    <3>1. htInput \in Seq(HtCell) /\ a \in Seq(HtCell) /\ rest \in Seq(HtCell)
      BY <1>1, <1>3
    <3> QED BY <3>1, ConcatAssociative
  <2> QED BY <1>3, <2>1, Zenon
<1> HIDE DEF s, in
<1>7. ASSUME in # <<>>
      PROVE  /\ HtDone + 1 \in 1 .. Len(htMsgs)
             /\ Begins(in, HtDone + 1) /\ in[1].msg = HtDone + 1
  <2>1. Len(in) \in Nat \ {0} /\ Len(rest) \in Nat
    BY <1>3, <1>5, <1>7, EmptySeq, LenProperties
  <2>2. /\ s \in Seq(HtCell) /\ Len(s) = Len(in) + Len(rest)
        /\ \A p \in 1 .. Len(in) : s[p] = in[p]
    <3>1. \A p \in 1 .. Len(in) : p \in 1 .. Len(in) + Len(rest) /\ p <= Len(in)
      BY <2>1
    <3> QED BY <1>3, <1>5, <1>6, <3>1, ConcatProperties
  <2>3. s # <<>>
    BY <2>1, <2>2, EmptySeq
  <2>4. /\ HtDone + 1 \in 1 .. Len(htMsgs) /\ s[1] = [msg |-> HtDone + 1, k |-> 1]
        /\ \A j \in 1 .. HtSize(htMsgs, HtDone + 1) : s[j] = [msg |-> HtDone + 1, k |-> j]
    <3>1. Stream(s, htMsgs, HtDone)
      BY <1>1 DEF s
    <3> DEFINE d == HtDone
    <3>2. d \in Nat /\ htMsgs \in Seq(HtMsg) /\ s \in Seq(HtCell)
      BY <1>1, <1>2, <2>2
    <3>3. Stream(s, htMsgs, d)
      BY <3>1
    <3> HIDE DEF d
    <3>4. /\ d + 1 \in 1 .. Len(htMsgs) /\ s[1] = [msg |-> d + 1, k |-> 1]
          /\ \A j \in 1 .. HtSize(htMsgs, d + 1) : s[j] = [msg |-> d + 1, k |-> j]
      <4>1. d + 1 \in 1 .. Len(htMsgs) /\ s[1] = [msg |-> d + 1, k |-> 1]
        BY <2>3, <3>2, <3>3, StreamFirst
      <4>2. \A j \in 1 .. HtSize(htMsgs, d + 1) : s[j] = [msg |-> d + 1, k |-> j]
        <5> TAKE j \in 1 .. HtSize(htMsgs, d + 1)
        <5> QED BY <2>3, <3>2, <3>3, StreamCell
      <4> QED BY <4>1, <4>2, Zenon
    <3> QED BY <3>4 DEF d
  <2>5. in[1] = [msg |-> HtDone + 1, k |-> 1]
    BY <2>1, <2>2, <2>4
  <2>6. ASSUME NEW j \in 1 .. HtSize(htMsgs, HtDone + 1), j <= Len(in)
        PROVE  in[j] = [msg |-> HtDone + 1, k |-> j]
    <3>1. j \in 1 .. Len(in)
      BY <2>1, <2>4, <2>6, MsgProps, <1>1
    <3> QED BY <2>2, <2>4, <3>1
  <2> QED BY <1>5, <1>7, <2>4, <2>5, <2>6 DEF Begins
<1> QED BY <1>3, <1>5, <1>6, <1>7 DEF s, in, rest, a

\* Consuming from the input consumes from the stream.
LEMMA ConsumeInput ==
    ASSUME NEW in \in Seq(HtCell), NEW rest \in Seq(HtCell), NEW size \in 0 .. Len(in)
    PROVE  /\ SubSeq(in, size + 1, Len(in)) \in Seq(HtCell)
           /\ Len(SubSeq(in, size + 1, Len(in))) = Len(in) - size
           /\ SubSeq(in, size + 1, Len(in)) \o rest = SubSeq(in \o rest, size + 1, Len(in \o rest))
<1> DEFINE a == SubSeq(in, size + 1, Len(in))
           s == in \o rest
           b == SubSeq(s, size + 1, Len(s))
           l == Len(in)
           m == Len(rest)
<1>1. l \in Nat /\ m \in Nat
  BY LenProperties
<1>2. /\ s \in Seq(HtCell) /\ Len(s) = l + m
      /\ \A i \in 1 .. l + m : s[i] = IF i <= l THEN in[i] ELSE rest[i - l]
  BY ConcatProperties
<1> HIDE DEF s, l, m
<1>3. /\ a \in Seq(HtCell) /\ Len(a) = l - size
      /\ \A i \in 1 .. l - size : a[i] = in[i + size]
  BY Dropped DEF l
<1>4. /\ b \in Seq(HtCell) /\ Len(b) = l + m - size
      /\ \A i \in 1 .. l + m - size : b[i] = s[i + size]
  <2>1. size \in 0 .. Len(s)
    BY <1>1, <1>2 DEF l
  <2>2. /\ b \in Seq(HtCell) /\ Len(b) = Len(s) - size
        /\ \A i \in 1 .. Len(s) - size : b[i] = s[i + size]
    BY <1>2, <2>1, Dropped
  <2> HIDE DEF b
  <2>3. Len(s) = l + m
    BY <1>2, Zenon
  <2>4. size \in Nat
    BY LenProperties
  <2>5. Len(s) - size = l + m - size
    BY <1>1, <2>3, <2>4
  <2> QED BY <2>2, <2>5, Zenon
<1> HIDE DEF a, b
<1>5. /\ a \o rest \in Seq(HtCell) /\ Len(a \o rest) = l - size + m
      /\ \A i \in 1 .. l - size + m :
             (a \o rest)[i] = IF i <= l - size THEN a[i] ELSE rest[i - (l - size)]
  <2>1. /\ a \o rest \in Seq(HtCell) /\ Len(a \o rest) = Len(a) + Len(rest)
        /\ \A i \in 1 .. Len(a) + Len(rest) :
               (a \o rest)[i] = IF i <= Len(a) THEN a[i] ELSE rest[i - Len(a)]
    BY <1>3, ConcatProperties
  <2> QED BY <1>3, <2>1, Zenon DEF m
<1>6. Len(a \o rest) = Len(b)
  BY <1>1, <1>4, <1>5
<1>7. ASSUME NEW i \in 1 .. Len(b) PROVE (a \o rest)[i] = b[i]
  <2>1. i \in 1 .. l + m - size /\ i \in 1 .. l - size + m
    BY <1>1, <1>4
  <2>2. CASE i <= l - size
    <3>1. i \in 1 .. l - size /\ i + size \in 1 .. l + m /\ i + size <= l
      BY <1>1, <2>1, <2>2
    <3> QED BY <1>2, <1>3, <1>4, <1>5, <2>1, <2>2, <3>1
  <2>3. CASE ~(i <= l - size)
    <3> DEFINE x == i + size
    <3>1. b[i] = s[x] /\ (a \o rest)[i] = rest[i - (l - size)]
      BY <1>4, <1>5, <2>1, <2>3
    <3>2. x \in 1 .. l + m /\ ~(x <= l) /\ x - l = i - (l - size)
      BY <1>1, <2>1, <2>3
    <3> HIDE DEF x
    <3>3. s[x] = rest[x - l]
      BY <1>2, <3>2
    <3> QED BY <3>1, <3>2, <3>3
  <2> QED BY <2>2, <2>3
<1>8. a \o rest = b
  BY <1>4, <1>5, <1>6, <1>7, SeqEqual
<1> QED BY <1>3, <1>8 DEF a, b, s, l

\* One more call of the callback.
LEMMA AnotherCall ==
    ASSUME NEW got \in Seq(HtCall), NEW e \in HtCall
    PROVE  /\ Append(got, e) \in Seq(HtCall) /\ Len(Append(got, e)) = Len(got) + 1
           /\ Len(got) \in Nat /\ Append(got, e)[Len(got) + 1] = e
           /\ \A j \in 1 .. Len(got) : Append(got, e)[j] = got[j]
BY AppendProperties, LenProperties

\* A message more at the end of htMsgs changes nothing for the one being decoded.
LEMMA DecodingStays ==
    ASSUME NEW ms, NEW ns, Len(ms) \in Nat, Len(ns) = Len(ms) + 1,
           \A i \in 1 .. Len(ms) : ns[i] = ms[i],
           NEW len \in Nat, NEW m, NEW i, NEW conn, Decoding(len, m, i, ms, conn),
           len = 0 \/ i \in 1 .. Len(ms)
    PROVE  Decoding(len, m, i, ns, conn)
<1>1. CASE i \in 1 .. Len(ms)
  <2>1. ns[i] = ms[i] /\ i \in 1 .. Len(ns)
    BY <1>1
  <2>2. HtSize(ns, i) = HtSize(ms, i) /\ HtBody(ns, i) = HtBody(ms, i)
    BY <2>1, Zenon DEF HtSize, HtBody
  <2> QED BY <1>1, <2>1, <2>2 DEF Decoding
<1>2. CASE ~(i \in 1 .. Len(ms))
  BY <1>2 DEF Decoding
<1> QED BY <1>1, <1>2

\* The calls of the callback remain right when one more is made that is.
LEMMA CallsStay ==
    ASSUME HtInv, htConn # "closed", NEW e \in HtCall,
           htMsgs' = htMsgs, htConn # "open" => htConn' # "open",
           \/ htGot' = htGot
           \/ /\ htGot' = Append(htGot, e)
              /\ CallOK(htGot', htMsgs, htConn', Len(htGot) + 1)
              /\ \/ /\ htConn' = "closed" /\ role' = "client"
                    /\ Len(htGot) > 0 /\ e = htGot[Len(htGot)]
                 \/ Given(htGot', htMsgs, Len(htGot) + 1)
    PROVE  HtCalls' /\ htGot' \in Seq(HtCall)
<1> DEFINE l == Len(htGot)
<1>1. htGot \in Seq(HtCall) /\ l \in Nat
  BY LenProperties DEF HtInv, HtTypeOK
<1>2. \A j \in 1 .. l : CallOK(htGot, htMsgs, htConn, j) /\ Given(htGot, htMsgs, j)
  BY DEF HtInv, HtCalls
<1>3. \A j \in 1 .. l : htGot'[j] = htGot[j] =>
          CallOK(htGot', htMsgs', htConn', j) /\ Given(htGot', htMsgs', j)
  BY <1>2 DEF CallOK, Given
<1>4. CASE htGot' = htGot
  BY <1>1, <1>3, <1>4 DEF HtCalls
<1>5. CASE htGot' # htGot
  <2>1. /\ htGot' \in Seq(HtCall) /\ Len(htGot') = l + 1 /\ htGot'[l + 1] = e
        /\ \A j \in 1 .. l : htGot'[j] = htGot[j]
    BY <1>1, <1>5, AnotherCall
  <2> HIDE DEF l
  <2>2. /\ CallOK(htGot', htMsgs', htConn', l + 1)
        /\ \/ htConn' = "closed" /\ role' = "client" /\ l > 0 /\ e = htGot[l]
           \/ Given(htGot', htMsgs', l + 1)
    BY <1>5 DEF l
  <2>3. ASSUME NEW j \in 1 .. l + 1
        PROVE  /\ CallOK(htGot', htMsgs', htConn', j)
               /\ (htConn' = "closed" /\ Repeated(j)') \/ Given(htGot', htMsgs', j)
    <3>1. CASE j \in 1 .. l
      BY <1>3, <2>1, <3>1
    <3>2. CASE j = l + 1
      <4>1. CASE htConn' = "closed" /\ role' = "client" /\ l > 0 /\ e = htGot[l]
        <5>1. l \in 1 .. l /\ j - 1 = l /\ j > 1
          BY <1>1, <3>2, <4>1
        <5>2. htGot'[j] = htGot'[j - 1]
          BY <2>1, <3>2, <4>1, <5>1
        <5> QED BY <2>1, <2>2, <3>2, <4>1, <5>1, <5>2 DEF Repeated
      <4>2. CASE Given(htGot', htMsgs', l + 1)
        BY <2>2, <3>2, <4>2
      <4> QED BY <2>2, <4>1, <4>2
    <3> QED BY <1>1, <3>1, <3>2
  <2> QED BY <2>1, <2>3 DEF HtCalls
<1> QED BY <1>4, <1>5

\* The other end sends a message.
LEMMA HtSends == ASSUME HtInv, HttpPeerSends PROVE HtInv'
<1> USE DEF HtTypeOK
<1>1. PICK h \in Heads, b \in Bodies,
           r \in IF role = "server" THEN Routes ELSE {"own", "badLine"} :
          /\ htMsgs' = Append(htMsgs, [head |-> h, body |-> b, route |-> r])
          /\ htWire' = htWire \o Cells(Len(htMsgs) + 1, 1, h + 4 + b)
  BY DEF HttpPeerSends
<1> DEFINE m == [head |-> h, body |-> b, route |-> r]
           N == Len(htMsgs)
           c == Cells(N + 1, 1, h + 4 + b)
           s == htInput \o htWire
<1>2. m \in HtMsg /\ m.head = h /\ m.body = b /\ m.route = r
  BY DEF HtMsg, Routes
<1>3. UNCHANGED <<role, htInput, msg, resp, htGot, asked, htConn, piped>>
  BY DEF HttpPeerSends
<1>4. /\ htMsgs \in Seq(HtMsg) /\ htInput \in Seq(HtCell) /\ htWire \in Seq(HtCell)
      /\ htGot \in Seq(HtCall)
  BY DEF HtInv
<1>5. N \in Nat /\ Len(htInput) \in Nat /\ Len(htWire) \in Nat /\ Len(htGot) \in Nat
  BY <1>4, LenProperties
<1>6. h \in Nat \ {0} /\ b \in Nat /\ h + 4 + b \in Nat
  BY HttpAssumption
<1>7. c \in Seq(HtCell) /\ Len(c) \in Nat \ {0}
  <2> DEFINE z == h + 4 + b
  <2>1. z \in Nat /\ z > 0 /\ 1 <= z + 1 /\ z + 1 - 1 = z /\ N + 1 \in Nat
    BY <1>5, <1>6
  <2> HIDE DEF z
  <2> HIDE DEF N
  <2>2. Cells(N + 1, 1, z) \in Seq(HtCell) /\ Len(Cells(N + 1, 1, z)) = z + 1 - 1
    BY <2>1, CellsProps, 1 \in Nat
  <2> QED BY <2>1, <2>2 DEF z
<1>8. c = Cells(N + 1, 1, m.head + 4 + m.body)
  BY <1>2
<1> HIDE DEF m, c, N
<1>9. /\ htMsgs' \in Seq(HtMsg) /\ Len(htMsgs') = N + 1 /\ htMsgs'[N + 1] = m
      /\ \A i \in 1 .. N : htMsgs'[i] = htMsgs[i]
  BY <1>1, <1>2, <1>4, AppendProperties DEF m, N
<1>10. htWire' \in Seq(HtCell) /\ Len(htWire') = Len(htWire) + Len(c) /\ htWire' # <<>>
  <2>1. htWire' = htWire \o c
    BY <1>1 DEF c, N
  <2>2. htWire' \in Seq(HtCell) /\ Len(htWire') = Len(htWire) + Len(c)
    BY <1>4, <1>7, <2>1, ConcatProperties
  <2>3. Len(htWire') # 0
    BY <1>5, <1>7, <2>2
  <2> QED BY <2>2, <2>3, EmptySeq
<1>11. HtTypeOK'
  BY <1>3, <1>9, <1>10 DEF HtInv
<1>12. HtCalls'
  <2> SUFFICES ASSUME NEW j \in 1 .. Len(htGot)
               PROVE  /\ CallOK(htGot, htMsgs', htConn, j)
                      /\ (htConn = "closed" /\ Repeated(j)) \/ Given(htGot, htMsgs', j)
    BY <1>3 DEF HtCalls, Repeated
  <2>1. /\ CallOK(htGot, htMsgs, htConn, j)
        /\ (htConn = "closed" /\ Repeated(j)) \/ Given(htGot, htMsgs, j)
    BY DEF HtInv, HtCalls
  <2>2. htGot[j].msg \in 1 .. N /\ htMsgs'[htGot[j].msg] = htMsgs[htGot[j].msg]
    BY <1>9, <2>1 DEF CallOK, N
  <2>3. CallOK(htGot, htMsgs', htConn, j)
    BY <1>5, <1>9, <2>1, <2>2 DEF CallOK
  <2>4. ASSUME Given(htGot, htMsgs, j) PROVE Given(htGot, htMsgs', j)
    <3>1. htGot[j].msg = j
      BY <2>4 DEF Given
    <3>2. HtBody(htMsgs', j) = HtBody(htMsgs, j)
      BY <2>2, <3>1 DEF HtBody
    <3> QED BY <2>4, <3>2 DEF Given
  <2> QED BY <2>1, <2>3, <2>4
<1>13. ASSUME htConn # "closed"
       PROVE  /\ Stream(htInput' \o htWire', htMsgs', HtDone')
              /\ Decoding(Len(htInput'), msg', HtDone' + 1, htMsgs', htConn')
              /\ HtTurns'
  <2>1. HtDone \in Nat /\ HtDone' = HtDone
    BY <1>3, <1>13, DoneType DEF HtDone
  <2>2. /\ Stream(s, htMsgs, HtDone) /\ HtTurns
        /\ Decoding(Len(htInput), msg, HtDone + 1, htMsgs, htConn)
    BY <1>13 DEF HtInv, HtOpen
  <2>3. s \in Seq(HtCell) /\ Len(s) = Len(htInput) + Len(htWire)
    BY <1>4, ConcatProperties
  <2>4. htInput \o htWire' = s \o c
    <3>1. htWire' = htWire \o c
      BY <1>1 DEF c, N
    <3> QED BY <1>4, <1>7, <3>1, ConcatAssociative
  <2> HIDE DEF s
  <2>5. Stream(s \o c, htMsgs', HtDone)
    <3> DEFINE d == HtDone
    <3>1. d \in Nat /\ Stream(s, htMsgs, d) /\ htMsgs' = Append(htMsgs, m)
      BY <1>1, <2>1, <2>2 DEF m
    <3> HIDE DEF d
    <3>2. Stream(s \o Cells(N + 1, 1, m.head + 4 + m.body), Append(htMsgs, m), d)
      BY <1>2, <1>4, <2>3, <3>1, StreamSent DEF N
    <3> QED BY <1>8, <3>1, <3>2 DEF d
  <2>6. Decoding(Len(htInput), msg, HtDone + 1, htMsgs', htConn)
    <3>1. Len(htInput) = 0 \/ HtDone + 1 \in 1 .. N
      <4> SUFFICES ASSUME Len(htInput) # 0 PROVE HtDone + 1 \in 1 .. N
        OBVIOUS
      <4>1. s # <<>>
        BY <1>5, <2>3, EmptySeq
      <4> QED BY <1>4, <2>1, <2>2, <2>3, <4>1, StreamFirst DEF N
    <3> QED BY <1>5, <1>9, <2>2, <3>1, DecodingStays DEF N
  <2>7. HtTurns'
    <3>1. CASE role = "server"
      BY <1>3, <2>2, <3>1 DEF HtTurns
    <3>2. CASE role = "client"
      <4>1. N < asked /\ asked \in Nat /\ r # "badUri" /\ role # "server"
        BY <3>2 DEF HttpPeerSends, HtInv, N
      <4>2. \A i \in 1 .. N : htMsgs[i].route # "badUri"
        BY <2>2, <3>2 DEF HtTurns, N
      <4>3. \A i \in 1 .. N + 1 : htMsgs'[i].route # "badUri"
        <5> TAKE i \in 1 .. N + 1
        <5>1. CASE i = N + 1
          BY <1>2, <1>9, <4>1, <5>1
        <5>2. CASE i \in 1 .. N
          BY <1>9, <4>2, <5>2
        <5> QED BY <1>5, <5>1, <5>2
      <4>4. Len(htMsgs') <= asked
        BY <1>5, <1>9, <4>1
      <4> QED BY <1>3, <1>9, <2>2, <3>2, <4>3, <4>4 DEF HtTurns
    <3> QED BY <3>1, <3>2 DEF HtInv
  <2> QED BY <1>3, <2>1, <2>4, <2>5, <2>6, <2>7
<1>14. HtAllCame'
  BY <1>10 DEF HtAllCame
<1> QED BY <1>3, <1>11, <1>12, <1>13, <1>14 DEF HtInv, HtOpen

\* A client sends its next request and consumes the answer to the last one.
LEMMA HtRequests == ASSUME HtInv, SendRequest PROVE HtInv'
<1>1. /\ role = "client" /\ htConn = "open" /\ asked = Len(htGot) /\ asked' = asked + 1
      /\ htInput' = SubSeq(htInput, msg.scanned + 1, Len(htInput)) /\ msg' = Clear_
      /\ UNCHANGED <<role, htMsgs, htWire, htGot, htConn, piped>>
  BY DEF SendRequest, ClearData
<1> DEFINE N == Len(htMsgs)
           s == htInput \o htWire
<1>2. /\ htMsgs \in Seq(HtMsg) /\ htInput \in Seq(HtCell) /\ htWire \in Seq(HtCell)
      /\ msg \in HtState /\ msg.scanned \in Nat /\ asked \in Nat
  BY DEF HtInv, HtTypeOK, HtState
<1>3. /\ N \in Nat /\ Len(htInput) \in Nat /\ Len(htWire) \in Nat /\ Len(htGot) \in Nat
      /\ HtDone \in Nat
  BY <1>1, DoneType
<1>4. /\ Stream(s, htMsgs, HtDone) /\ HtTurns
      /\ Decoding(Len(htInput), msg, HtDone + 1, htMsgs, htConn)
  BY <1>1 DEF HtInv, HtOpen
<1>5. s \in Seq(HtCell) /\ Len(s) = Len(htInput) + Len(htWire)
  BY <1>2, ConcatProperties
<1>6. N <= asked
  BY <1>1, <1>4 DEF HtTurns
<1> HIDE DEF s, N
<1>7. msg' \in HtState /\ ~msg'.complete /\ msg'.contentLen = 0 /\ msg'.scanned = 0
  BY <1>1, EmptySeq DEF Clear_, HtState
<1>8. HtDone' = Len(htGot)
  BY <1>1, <1>7 DEF HtDone
<1>9. htInput' \in Seq(HtCell) /\ Stream(htInput' \o htWire, htMsgs, Len(htGot))
  <2>1. CASE msg.complete
    <3> DEFINE d == HtDone
               size == HtSize(htMsgs, d + 1)
    <3>1. d + 1 = Len(htGot) /\ d \in Nat
      BY <1>1, <1>3, <2>1 DEF HtDone
    <3>2. msg.scanned = size /\ size <= Len(htInput) /\ d + 1 \in 1 .. N
      BY <1>4, <2>1 DEF Decoding, N
    <3>3. size \in 0 .. Len(htInput)
      BY <1>2, <1>3, <3>2
    <3>4. Stream(s, htMsgs, d)
      BY <1>4
    <3> HIDE DEF d
    <3>5. s # <<>>
      <4>1. size \in Nat /\ size > 0
        <5> DEFINE i == d + 1
        <5>1. i \in 1 .. Len(htMsgs) /\ size = HtSize(htMsgs, i)
          BY <3>2 DEF N
        <5> HIDE DEF i, size
        <5> QED BY <1>2, <5>1, MsgProps
      <4>2. Len(s) # 0
        BY <1>3, <1>5, <3>2, <4>1
      <4> QED BY <1>5, <4>2, EmptySeq
    <3>6. Stream(SubSeq(s, size + 1, Len(s)), htMsgs, d + 1)
      BY <1>2, <1>5, <3>1, <3>4, <3>5, StreamConsumed
    <3> HIDE DEF size
    <3>7. /\ SubSeq(htInput, size + 1, Len(htInput)) \in Seq(HtCell)
          /\ SubSeq(htInput, size + 1, Len(htInput)) \o htWire = SubSeq(s, size + 1, Len(s))
      BY <1>2, <3>3, ConsumeInput DEF s
    <3> QED BY <1>1, <3>1, <3>2, <3>6, <3>7
  <2>2. CASE ~msg.complete
    <3>1. HtDone = Len(htGot)
      BY <2>2 DEF HtDone
    <3>2. s = <<>>
      <4> SUFFICES ASSUME s # <<>> PROVE FALSE
        OBVIOUS
      <4>1. HtDone + 1 \in 1 .. N
        BY <1>2, <1>3, <1>4, <1>5, StreamFirst DEF N
      <4> QED BY <1>1, <1>3, <1>6, <3>1, <4>1
    <3>3. Len(s) = 0
      BY <3>2
    <3>4. Len(htInput) = 0
      BY <1>3, <1>5, <3>3
    <3>5. htInput = <<>>
      BY <1>2, <3>4, EmptySeq
    <3>6. htInput' = <<>>
      BY <1>1, <1>2, <3>4, SubSeqEmpty
    <3> QED BY <1>4, <3>1, <3>5, <3>6, EmptySeq DEF s
  <2> QED BY <1>2, <2>1, <2>2
<1>10. Decoding(Len(htInput'), msg', HtDone' + 1, htMsgs, htConn)
  <2>1. CASE Len(htInput') = 0
    BY <1>7, <2>1 DEF Decoding
  <2>2. CASE Len(htInput') # 0
    <3> DEFINE t == htInput' \o htWire
    <3>1. t \in Seq(HtCell) /\ Len(t) = Len(htInput') + Len(htWire) /\ Len(htInput') \in Nat
      BY <1>2, <1>9, ConcatProperties, LenProperties
    <3>2. t # <<>>
      BY <1>3, <2>2, <3>1, EmptySeq
    <3> HIDE DEF t
    <3>3. Stream(t, htMsgs, Len(htGot))
      BY <1>9 DEF t
    <3>4. Len(htGot) + 1 \in 1 .. Len(htMsgs)
      BY <1>2, <1>3, <3>1, <3>2, <3>3, StreamFirst
    <3>5. htMsgs[Len(htGot) + 1].head \in Nat
      BY <1>2, <3>4, MsgProps
    <3> QED BY <1>7, <1>8, <2>2, <3>5 DEF Decoding
  <2> QED BY <2>1, <2>2
<1>11. HtTurns'
  <2>1. N <= asked' /\ asked' <= Len(htGot) + 1
    BY <1>1, <1>2, <1>3, <1>6
  <2>2. \A i \in 1 .. N : htMsgs[i].route # "badUri"
    BY <1>1, <1>4 DEF HtTurns, N
  <2> QED BY <1>1, <1>7, <2>1, <2>2 DEF HtTurns, N
<1>12. HtCalls'
  BY <1>1 DEF HtInv, HtCalls, Repeated
<1>13. HtAllCame'
  BY <1>1 DEF HtInv, HtAllCame
<1>14. HtTypeOK'
  BY <1>1, <1>2, <1>7, <1>9 DEF HtInv, HtTypeOK
<1> QED BY <1>1, <1>8, <1>9, <1>10, <1>11, <1>12, <1>13, <1>14 DEF HtInv, HtOpen

\* The read callback, after a read or in cleanup: the message it completes is the first
\* that was not consumed, and it is given with its own body.
LEMMA HtHandles ==
    ASSUME HtInv, htConn # "closed", NEW in, Begins(in, HtDone + 1), in[1].msg = HtDone + 1,
           HtDone + 1 \in 1 .. Len(htMsgs), Len(htInput) <= Len(in),
           HandleRead(in, TryDecode_(in, msg)), UNCHANGED <<role, htMsgs>>,
           TryDecode_(in, msg).err \/ htConn # "open" => htConn' # "open",
           role = "client" /\ msg.complete => htConn' = "closed"
    PROVE  LET r == TryDecode_(in, msg)
           IN  /\ r.m \in HtState /\ r.err \in BOOLEAN
               /\ Decoding(Len(in), r.m, HtDone + 1, htMsgs, htConn')
               /\ Len(in) >= HtSize(htMsgs, HtDone + 1) /\ ~r.err => r.m.complete
               /\ role = "client" /\ r.m.complete => ~r.err
               /\ HtCalls' /\ htGot' \in Seq(HtCall)
               /\ Len(htGot') = IF r.m.complete /\ ~r.err THEN Len(htGot) + 1 ELSE Len(htGot)
               /\ htInput' \in Seq(HtCell) /\ msg' \in HtState
<1> DEFINE r == TryDecode_(in, msg)
           d == HtDone
           i == d + 1
           e == [msg |-> i, body |-> HtBody(htMsgs, i)]
           given == r.m.complete /\ ~r.err
<1>1. /\ htMsgs \in Seq(HtMsg) /\ msg \in HtState /\ htGot \in Seq(HtCall)
      /\ Decoding(Len(htInput), msg, i, htMsgs, htConn) /\ HtTurns
      /\ role \in {"server", "client"}
  BY DEF HtInv, HtTypeOK, HtOpen
<1>2. d \in Nat /\ Len(htGot) \in Nat /\ Len(htInput) \in Nat
  BY DoneType
<1>3. in \in Seq(HtCell) /\ Len(in) \in Nat
  BY LenProperties DEF Begins
<1>4. i \in 1 .. Len(htMsgs) /\ Begins(in, i) /\ in[1].msg = i
  OBVIOUS
<1>5. d = IF role = "client" /\ msg.complete THEN Len(htGot) - 1 ELSE Len(htGot)
  BY DEF HtDone
<1>a. HandleRead(in, r) /\ (r.err \/ htConn # "open" => htConn' # "open")
  OBVIOUS
<1> HIDE DEF d
<1>6. /\ r.m \in HtState /\ r.err \in BOOLEAN
      /\ Decoding(Len(in), r.m, i, htMsgs, htConn')
      /\ msg.complete => r.m = msg /\ ~r.err
      /\ Len(in) >= HtSize(htMsgs, i) /\ ~r.err => r.m.complete
      /\ r.err => htMsgs[i].route \in {"badUri", "badLine"}
  <2> HIDE DEF i
  <2>1. Len(htInput) \in 0 .. Len(in)
    BY <1>2, <1>3
  <2> QED BY <1>1, <1>4, <1>a, <2>1, DecodeStep
<1> HIDE DEF r, i
<1>7. /\ htGot' = IF given THEN Append(htGot, [msg |-> in[1].msg, body |-> r.m.body]) ELSE htGot
      /\ given /\ role = "server" =>
             htInput' = SubSeq(in, r.m.scanned + 1, Len(in)) /\ msg' = Clear_
      /\ ~(given /\ role = "server") => htInput' = in /\ msg' = r.m
  BY <1>a DEF HandleRead, ClearData
<1>8. role = "client" /\ r.m.complete => ~r.err
  BY <1>1, <1>4, <1>6 DEF HtTurns, Decoding
<1>9. e \in HtCall
  <2>1. HtBody(htMsgs, i) \in Seq(HtCell) /\ i \in Nat
    BY <1>1, <1>2, <1>4, MsgProps DEF i
  <2> QED BY <2>1 DEF HtCall
<1>10. given => htGot' = Append(htGot, e)
  <2> SUFFICES ASSUME given PROVE htGot' = Append(htGot, e)
    OBVIOUS
  <2>1. r.m.body = HtBody(htMsgs, i)
    BY <1>6 DEF Decoding
  <2> QED BY <1>4, <1>7, <2>1
<1> HIDE DEF e
<1>11. HtCalls' /\ htGot' \in Seq(HtCall)
  <2>1. CASE ~given
    <3>1. htGot' = htGot
      BY <1>7, <2>1
    <3> QED BY <1>9, <1>a, <3>1, CallsStay
  <2>2. CASE given
    <3> DEFINE l == Len(htGot)
    <3>1. htGot' = Append(htGot, e) /\ htGot'[l + 1] = e /\ e.msg = i
      BY <1>1, <1>9, <1>10, <2>2, AnotherCall DEF e
    <3>2. /\ htMsgs[i].route # "badLine"
          /\ htMsgs[i].route = "badUri" => htConn' # "open"
      BY <1>6, <2>2 DEF Decoding
    <3>3. CallOK(htGot', htMsgs, htConn', l + 1)
      BY <1>4, <3>1, <3>2 DEF CallOK
    <3>4. \/ /\ htConn' = "closed" /\ role' = "client" /\ l > 0 /\ e = htGot[l]
          \/ Given(htGot', htMsgs, l + 1)
      <4>1. CASE role = "client" /\ msg.complete
        <5>1. i = l /\ l \in 1 .. l
          BY <1>2, <1>5, <4>1, <1>4 DEF i
        <5>2. Given(htGot, htMsgs, l)
          BY <5>1 DEF HtInv, HtCalls
        <5>3. e = htGot[l]
          BY <5>1, <5>2 DEF Given, e
        <5> QED BY <4>1, <5>1, <5>3
      <4>2. CASE ~(role = "client" /\ msg.complete)
        <5>1. i = l + 1
          BY <1>2, <1>5, <4>2 DEF i
        <5> QED BY <3>1, <5>1 DEF Given, e
      <4> QED BY <4>1, <4>2
    <3> QED BY <1>9, <1>a, <3>1, <3>3, <3>4, CallsStay
  <2> QED BY <2>1, <2>2
<1>12. Len(htGot') = IF given THEN Len(htGot) + 1 ELSE Len(htGot)
  BY <1>1, <1>7, <1>9, <1>10, AnotherCall
<1>13. htInput' \in Seq(HtCell) /\ msg' \in HtState
  <2>1. CASE given /\ role = "server"
    <3>1. /\ htInput' = SubSeq(in, r.m.scanned + 1, Len(in)) /\ msg' = Clear_
          /\ r.m.scanned <= Len(in) /\ r.m.scanned \in Nat
      BY <1>6, <1>7, <2>1 DEF Decoding, HtState
    <3>2. Clear_ \in HtState
      BY EmptySeq DEF Clear_, HtState
    <3> DEFINE size == r.m.scanned
    <3>3. size \in 0 .. Len(in)
      BY <1>3, <3>1
    <3> HIDE DEF size
    <3>4. SubSeq(in, size + 1, Len(in)) \in Seq(HtCell)
      BY <1>3, <3>3, ConsumeInput
    <3> QED BY <3>1, <3>2, <3>4 DEF size
  <2>2. CASE ~(given /\ role = "server")
    BY <1>3, <1>6, <1>7, <2>2
  <2> QED BY <2>1, <2>2
<1> QED BY <1>6, <1>8, <1>11, <1>12, <1>13 DEF r, i, d

\* The input of a client that has had its answer holds nothing but that answer, and no
\* byte is under way.
LEMMA AnswerIsAll ==
    ASSUME HtInv, htConn # "closed", role = "client", msg.complete
    PROVE  htWire = <<>>
<1> DEFINE s == htInput \o htWire
           d == HtDone
           size == HtSize(htMsgs, d + 1)
<1>1. /\ htMsgs \in Seq(HtMsg) /\ htInput \in Seq(HtCell) /\ htWire \in Seq(HtCell)
      /\ Stream(s, htMsgs, d) /\ HtTurns
      /\ Decoding(Len(htInput), msg, d + 1, htMsgs, htConn)
  BY DEF HtInv, HtTypeOK, HtOpen
<1>2. /\ d \in Nat /\ Len(htGot) \in Nat /\ Len(htInput) \in Nat /\ Len(htWire) \in Nat
      /\ Len(htMsgs) \in Nat /\ d = Len(htGot) - 1
  BY DoneType DEF HtDone
<1>3. Len(htMsgs) <= d + 1 /\ d + 1 \in 1 .. Len(htMsgs) /\ size <= Len(htInput)
  BY <1>1, <1>2 DEF HtTurns, Decoding
<1>4. s \in Seq(HtCell) /\ Len(s) = Len(htInput) + Len(htWire)
  BY <1>1, ConcatProperties
<1> HIDE DEF d, s
<1>5. size \in Nat /\ size > 0
  <2> DEFINE i == d + 1
  <2>1. i \in 1 .. Len(htMsgs) /\ size = HtSize(htMsgs, i)
    BY <1>3
  <2> HIDE DEF i, size
  <2> QED BY <1>1, <2>1, MsgProps
<1>6. s # <<>>
  <2>1. Len(s) # 0
    BY <1>2, <1>3, <1>4, <1>5
  <2> QED BY <1>4, <2>1, EmptySeq
<1>7. \A q \in size + 1 .. Len(s) : s[q].msg > d + 1
  BY <1>1, <1>2, <1>4, <1>6, StreamFirst
<1>8. \A q \in 1 .. Len(s) : s[q].msg \in 1 .. Len(htMsgs)
  BY <1>1 DEF Stream
<1> HIDE DEF size
<1>9. Len(s) <= size
  <2> SUFFICES ASSUME ~(Len(s) <= size) PROVE FALSE
    OBVIOUS
  <2>1. Len(s) \in size + 1 .. Len(s) /\ Len(s) \in 1 .. Len(s)
    BY <1>2, <1>4, <1>5
  <2>2. s[Len(s)].msg > d + 1 /\ s[Len(s)].msg \in 1 .. Len(htMsgs)
    BY <1>7, <1>8, <2>1
  <2> QED BY <1>2, <1>3, <2>2
<1>10. Len(htWire) = 0
  BY <1>2, <1>3, <1>4, <1>5, <1>9
<1> QED BY <1>1, <1>10, EmptySeq

\* The connection reads k bytes.
LEMMA HtReads == ASSUME HtInv, NEW k \in 0 .. Len(htWire), HttpRead(k) PROVE HtInv'
<1> DEFINE in == htInput \o SubSeq(htWire, 1, k)
           rest == SubSeq(htWire, k + 1, Len(htWire))
           r == TryDecode_(in, msg)
           s == htInput \o htWire
           d == HtDone
           size == HtSize(htMsgs, d + 1)
           N == Len(htMsgs)
           given == r.m.complete /\ ~r.err
<1>1. /\ htConn # "closed" /\ k \in 1 .. Len(htWire) /\ htWire' = rest
      /\ piped' = (piped \/ in[1].msg # in[Len(in)].msg)
      /\ HandleRead(in, r) /\ htConn' = (IF r.err THEN "closing" ELSE htConn)
      /\ UNCHANGED <<role, htMsgs, asked>>
  BY DEF HttpRead
<1>2. /\ htMsgs \in Seq(HtMsg) /\ htInput \in Seq(HtCell) /\ htWire \in Seq(HtCell)
      /\ Stream(s, htMsgs, d) /\ HtTurns /\ msg \in HtState /\ asked \in Nat
      /\ role \in {"server", "client"} /\ htConn \in {"open", "closing"}
  BY <1>1 DEF HtInv, HtTypeOK, HtOpen
<1>3. /\ d \in Nat /\ Len(htGot) \in Nat /\ Len(htInput) \in Nat /\ Len(htWire) \in Nat
      /\ N \in Nat
  BY <1>1, DoneType
<1>4. /\ in \in Seq(HtCell) /\ rest \in Seq(HtCell) /\ in \o rest = s
      /\ Len(in) = Len(htInput) + k /\ Len(rest) = Len(htWire) - k
      /\ in # <<>> => /\ d + 1 \in 1 .. N /\ Begins(in, d + 1) /\ in[1].msg = d + 1
  BY <1>1, ReadIn
<1>5. ~(role = "client" /\ msg.complete)
  <2> SUFFICES ASSUME role = "client" /\ msg.complete PROVE FALSE
    OBVIOUS
  <2>1. htWire = <<>>
    BY <1>1, AnswerIsAll
  <2> QED BY <1>1, <2>1
<1>6. d = Len(htGot)
  BY <1>5 DEF HtDone
<1> HIDE DEF in, rest, s, N
<1>7. Len(in) \in Nat \ {0} /\ in # <<>>
  <2>1. Len(in) \in Nat \ {0}
    BY <1>1, <1>3, <1>4
  <2> QED BY <2>1, EmptySeq
<1>8. /\ r.m \in HtState /\ r.err \in BOOLEAN
      /\ Decoding(Len(in), r.m, d + 1, htMsgs, htConn')
      /\ Len(in) >= size /\ ~r.err => r.m.complete
      /\ role = "client" /\ r.m.complete => ~r.err
      /\ HtCalls' /\ htGot' \in Seq(HtCall)
      /\ Len(htGot') = IF given THEN Len(htGot) + 1 ELSE Len(htGot)
      /\ htInput' \in Seq(HtCell) /\ msg' \in HtState
  <2>1. TryDecode_(in, msg).err \/ htConn # "open" => htConn' # "open"
    BY <1>1
  <2>2. Len(htInput) <= Len(in)
    BY <1>1, <1>3, <1>4
  <2> QED BY <1>1, <1>4, <1>5, <1>7, <2>1, <2>2, HtHandles DEF N
<1>9. /\ given /\ role = "server" =>
             htInput' = SubSeq(in, r.m.scanned + 1, Len(in)) /\ msg' = Clear_
      /\ ~(given /\ role = "server") => htInput' = in /\ msg' = r.m
  BY <1>1 DEF HandleRead, ClearData
<1>10. HtTypeOK'
  BY <1>1, <1>2, <1>4, <1>8 DEF HtTypeOK
<1>11. s \in Seq(HtCell) /\ Len(s) = Len(in) + Len(rest) /\ s # <<>> /\ Len(rest) \in Nat
  <2>1. s \in Seq(HtCell) /\ Len(s) = Len(in) + Len(rest) /\ Len(rest) \in Nat
    BY <1>4, ConcatProperties, LenProperties
  <2>2. Len(s) # 0
    BY <1>7, <2>1
  <2> QED BY <2>1, <2>2, EmptySeq
<1> HIDE DEF r, d
<1>12. size \in Nat /\ size > 0
  <2> DEFINE i == d + 1
  <2>1. i \in 1 .. Len(htMsgs) /\ size = HtSize(htMsgs, i)
    BY <1>4, <1>7 DEF N
  <2> HIDE DEF i, size
  <2>2. htMsgs \in Seq(HtMsg)
    BY <1>2
  <2>3. htMsgs[i].head \in Nat \ {0} /\ htMsgs[i].body \in Nat
    BY <2>1, <2>2, MsgProps
  <2> QED BY <2>1, <2>3 DEF HtSize
<1>13. /\ Stream(htInput' \o htWire', htMsgs', HtDone')
       /\ Decoding(Len(htInput'), msg', HtDone' + 1, htMsgs', htConn')
       /\ HtTurns'
  <2>1. CASE given /\ role = "server"
    <3>1. /\ htInput' = SubSeq(in, size + 1, Len(in)) /\ msg' = Clear_ /\ size <= Len(in)
          /\ Len(htGot') = d + 1
      BY <1>6, <1>8, <1>9, <2>1 DEF Decoding
    <3>2. ~msg'.complete /\ msg'.contentLen = 0 /\ msg'.scanned = 0
      BY <3>1 DEF Clear_
    <3>3. HtDone' = d + 1
      BY <3>1, <3>2 DEF HtDone
    <3>4. Stream(SubSeq(s, size + 1, Len(s)), htMsgs, d + 1)
      BY <1>2, <1>3, <1>11, StreamConsumed
    <3> DEFINE t == SubSeq(s, size + 1, Len(s))
    <3> HIDE DEF size
    <3>5. size \in 0 .. Len(in)
      BY <1>7, <1>12, <3>1
    <3>6. SubSeq(in, size + 1, Len(in)) \o rest = t
      BY <1>4, <3>5, ConsumeInput
    <3>7. htInput' \o htWire' = t
      BY <1>1, <3>1, <3>6
    <3> HIDE DEF t
    <3>8. Stream(t, htMsgs, d + 1)
      BY <3>4 DEF t
    <3>9. Decoding(Len(htInput'), msg', d + 1 + 1, htMsgs, htConn')
      <4>1. CASE Len(htInput') = 0
        BY <3>2, <4>1 DEF Decoding
      <4>2. CASE Len(htInput') # 0
        <5> DEFINE f == d + 1
        <5>1. t \in Seq(HtCell) /\ Len(t) = Len(htInput') + Len(rest) /\ Len(htInput') \in Nat
          <6>1. htInput' \in Seq(HtCell) /\ rest \in Seq(HtCell) /\ t = htInput' \o rest
            BY <1>1, <1>4, <1>8, <3>7
          <6> QED BY <6>1, ConcatProperties, LenProperties
        <5>2. Len(t) # 0
          BY <1>11, <4>2, <5>1
        <5>3. t # <<>> /\ f \in Nat /\ Stream(t, htMsgs, f)
          BY <1>3, <3>8, <5>1, <5>2, EmptySeq
        <5> HIDE DEF f
        <5>4. f + 1 \in 1 .. Len(htMsgs)
          BY <1>2, <5>1, <5>3, StreamFirst
        <5>5. htMsgs[f + 1].head \in Nat
          BY <1>2, <5>4, MsgProps
        <5> QED BY <3>2, <4>2, <5>5 DEF Decoding, f
      <4> QED BY <4>1, <4>2
    <3>10. HtTurns'
      BY <1>1, <2>1, <3>2 DEF HtTurns
    <3> QED BY <1>1, <3>3, <3>7, <3>8, <3>9, <3>10
  <2>2. CASE ~(given /\ role = "server")
    <3>1. htInput' = in /\ msg' = r.m /\ htInput' \o htWire' = s
      BY <1>1, <1>4, <1>9, <2>2
    <3>2. CASE given
      <4>1. role = "client" /\ Len(htGot') = d + 1 /\ msg'.complete
        BY <1>2, <1>6, <1>8, <2>2, <3>1, <3>2
      <4>2. HtDone' = d
        BY <1>1, <1>3, <4>1 DEF HtDone
      <4>3. asked = d + 1 /\ N <= asked
        <5>1. N <= asked /\ asked <= d + 1 /\ d + 1 \in 1 .. N
          BY <1>2, <1>4, <1>6, <1>7, <4>1 DEF HtTurns, N
        <5> QED BY <1>2, <1>3, <5>1
      <4>4. HtTurns'
        BY <1>1, <1>2, <1>3, <4>1, <4>3 DEF HtTurns, N
      <4> QED BY <1>1, <1>2, <1>8, <3>1, <4>2, <4>4
    <3>3. CASE ~given
      <4>1. Len(htGot') = d /\ ~(role = "client" /\ msg'.complete)
        BY <1>6, <1>8, <3>1, <3>3
      <4>2. HtDone' = d
        BY <1>1, <4>1 DEF HtDone
      <4>3. HtTurns'
        <5>1. CASE role = "server"
          <6>1. msg'.complete => r.err
            BY <1>8, <3>1, <3>3
          <6>2. msg'.complete => htConn' = "closing"
            BY <1>1, <6>1
          <6> QED BY <1>1, <5>1, <6>2 DEF HtTurns
        <5>2. CASE role = "client"
          BY <1>1, <1>2, <1>6, <4>1, <5>2 DEF HtTurns
        <5> QED BY <1>2, <5>1, <5>2
      <4> QED BY <1>1, <1>2, <1>8, <3>1, <4>2, <4>3
    <3> QED BY <3>2, <3>3
  <2> QED BY <2>1, <2>2
<1>14. HtAllCame'
  <2> SUFFICES ASSUME htWire' = <<>>, ~piped', htConn' = "open" PROVE Len(htGot') = N
    BY <1>1 DEF HtAllCame, N
  <2>1. Len(rest) = 0 /\ ~r.err
    BY <1>1
  <2>2. Len(in) = Len(s)
    BY <1>7, <1>11, <2>1
  <2>3. in[Len(in)].msg = d + 1
    BY <1>1, <1>4, <1>7
  <2>4. size <= Len(s) /\ (size = Len(s) => d + 1 = N)
    <3>1. size <= Len(s)
      BY <1>2, <1>3, <1>11, StreamFirst
    <3>2. size = Len(s) => d + 1 = N
      <4>1. htMsgs \in Seq(HtMsg) /\ s \in Seq(HtCell) /\ d \in Nat /\ Stream(s, htMsgs, d)
        BY <1>2, <1>3, <1>11
      <4>2. HtSize(htMsgs, d + 1) = Len(s) => d + 1 = Len(htMsgs)
        BY <1>11, <4>1, StreamLast
      <4> QED BY <4>2 DEF N
    <3> QED BY <3>1, <3>2
  <2>5. \A q \in size + 1 .. Len(s) : s[q].msg > d + 1
    BY <1>2, <1>3, <1>11, StreamFirst
  <2>6. s[Len(s)] = in[Len(in)]
    <3>1. Len(s) \in 1 .. Len(in) + Len(rest) /\ Len(s) <= Len(in)
      BY <1>7, <1>11, <2>2
    <3> QED BY <1>4, <2>2, <3>1, ConcatProperties
  <2> HIDE DEF size
  <2>7. size = Len(s)
    <3> SUFFICES ASSUME size # Len(s) PROVE FALSE
      OBVIOUS
    <3>1. Len(s) \in size + 1 .. Len(s)
      BY <1>7, <1>12, <2>2, <2>4
    <3>2. d + 1 > d + 1
      BY <2>3, <2>5, <2>6, <3>1
    <3> QED BY <1>3, <3>2
  <2>8. given
    BY <1>7, <1>8, <2>1, <2>2, <2>7
  <2> QED BY <1>6, <1>8, <2>4, <2>7, <2>8
<1> QED BY <1>8, <1>10, <1>13, <1>14 DEF HtInv, HtOpen

\* The connection ends.
LEMMA HtCleans == ASSUME HtInv, NEW k \in 0 .. Len(htWire), HttpCleanup(k) PROVE HtInv'
<1> DEFINE in == htInput \o SubSeq(htWire, 1, k)
           rest == SubSeq(htWire, k + 1, Len(htWire))
           r == TryDecode_(in, msg)
<1>1. /\ htConn # "closed" /\ htConn' = "closed" /\ htWire' = rest
      /\ IF in = <<>> THEN UNCHANGED <<htGot, htInput, msg>> ELSE HandleRead(in, r)
      /\ UNCHANGED <<role, htMsgs, asked>>
  BY DEF HttpCleanup
<1>2. /\ Len(htInput) \in Nat /\ in \in Seq(HtCell) /\ rest \in Seq(HtCell)
      /\ Len(in) = Len(htInput) + k
      /\ in # <<>> => /\ HtDone + 1 \in 1 .. Len(htMsgs)
                      /\ Begins(in, HtDone + 1) /\ in[1].msg = HtDone + 1
  BY <1>1, ReadIn, DoneType
<1>3. Len(htInput) <= Len(in)
  BY <1>2
<1> HIDE DEF in, rest
<1>4. HtCalls' /\ htGot' \in Seq(HtCall) /\ htInput' \in Seq(HtCell) /\ msg' \in HtState
  <2>1. CASE in = <<>>
    <3>1. UNCHANGED <<htGot, htInput, msg>>
      BY <1>1, <2>1
    <3>2. \A j \in 1 .. Len(htGot) : CallOK(htGot, htMsgs, htConn', j) /\ Given(htGot, htMsgs, j)
      BY <1>1 DEF HtInv, HtCalls, CallOK
    <3>3. HtCalls'
      BY <1>1, <3>1, <3>2 DEF HtCalls
    <3> QED BY <3>1, <3>3 DEF HtInv, HtTypeOK
  <2>2. CASE in # <<>>
    BY <1>1, <1>2, <1>3, <2>2, HtHandles
  <2> QED BY <2>1, <2>2
<1> QED BY <1>1, <1>2, <1>4 DEF HtInv, HtTypeOK, HtOpen, HtAllCame

\* Every step keeps the invariant.
LEMMA HtStep == HtInv /\ [HttpNext]_httpVars => HtInv'
<1> SUFFICES ASSUME HtInv, [HttpNext]_httpVars PROVE HtInv'
  OBVIOUS
<1>1. CASE HttpPeerSends
  BY <1>1, HtSends
<1>2. CASE SendRequest
  BY <1>2, HtRequests
<1>3. CASE \E k \in 0 .. Len(htWire) : HttpRead(k) \/ HttpCleanup(k)
  BY <1>3, HtReads, HtCleans
<1>4. CASE UNCHANGED httpVars
  BY <1>4 DEF httpVars, HtInv, HtTypeOK, HtCalls, HtOpen, HtAllCame, HtTurns, HtDone, Repeated
<1> QED BY <1>1, <1>2, <1>3, <1>4 DEF HttpNext

\* tryDecode and clearData, for any messages, any cut of their bytes and any number of
\* messages on a connection: the callback gets each message once, in order, with its own
\* body, and all of them when all bytes have come and the other end waited for answers.
THEOREM HttpIsExact == HttpSpec => []HttpExact
<1>1. HttpInit => HtInv
  <2> SUFFICES ASSUME HttpInit PROVE HtInv
    OBVIOUS
  <2>1. HtTypeOK /\ Len(htMsgs) = 0 /\ Len(htGot) = 0 /\ Len(htInput) = 0
    BY EmptySeq DEF HttpInit, HtTypeOK, HtState, Clear_
  <2>2. HtDone = 0 /\ ~msg.complete /\ msg.contentLen = 0 /\ msg.scanned = 0
    BY <2>1 DEF HttpInit, HtDone, Clear_
  <2>3. htInput \o htWire = <<>> /\ Len(htInput \o htWire) = 0
    BY EmptySeq DEF HttpInit
  <2>4. Stream(htInput \o htWire, htMsgs, HtDone)
    BY <2>1, <2>2, <2>3 DEF Stream
  <2>5. Decoding(Len(htInput), msg, HtDone + 1, htMsgs, htConn)
    BY <2>1, <2>2 DEF Decoding
  <2>6. HtTurns
    BY <2>1, <2>2 DEF HttpInit, HtTurns
  <2>7. HtCalls /\ HtAllCame
    BY <2>1 DEF HtCalls, HtAllCame
  <2> QED BY <2>1, <2>4, <2>5, <2>6, <2>7 DEF HtInv, HtOpen
<1>2. HtInv => HttpExact
  <2> SUFFICES ASSUME HtInv PROVE HttpExact
    OBVIOUS
  <2>1. DOMAIN htGot = 1 .. Len(htGot)
    BY LenProperties DEF HtInv, HtTypeOK
  <2>2. \A j : BodyOf(j) = HtBody(htMsgs, j)
    BY DEF BodyOf, HtBody
  <2> QED BY <2>1, <2>2 DEF HtInv, HtCalls, HtAllCame, HttpExact, CallOK, Given
<1> QED BY <1>1, <1>2, HtStep, PTL DEF HttpSpec

=============================================================================
