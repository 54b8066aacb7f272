---------------------------- MODULE PollerProofs ----------------------------
(***************************************************************************)
(* Proofs about Poller: its inductive invariant, and from it that no event *)
(* is dispatched to a channel that was closed, deleted or replaced since   *)
(* the event was reported, for any number of channels and of events.       *)
(***************************************************************************)
EXTENDS Poller, TLAPS

\* removeChannel leaves an array of the same length, in which an entry is as before
\* or has become NULL, and becomes NULL exactly where the search stops.
LEMMA ForgetShape ==
    ASSUME PollerTypeOK, NEW a \in Addr
    PROVE  /\ Forget(a) \in Seq(Event) /\ Len(Forget(a)) = Len(active)
           /\ DOMAIN Forget(a) = DOMAIN active
           /\ \A i \in DOMAIN active :
                  /\ Hit(a, i) => Forget(a)[i] = [ptr |-> Null, id |-> active[i].id]
                  /\ ~Hit(a, i) => Forget(a)[i] = active[i]
<1>1. active \in Seq(Event) /\ Null \notin Addr
  BY PollerAssumption DEF PollerTypeOK
<1>2. DOMAIN active = 1 .. Len(active) /\ Len(active) \in Nat
  BY <1>1
<1>3. \A i \in 1 .. Len(active) : active[i] \in Event
  BY <1>1
<1>4. \A i \in 1 .. Len(active) : Forget(a)[i] \in Event
  BY <1>2, <1>3 DEF Forget, Event
<1>5. DOMAIN Forget(a) = 1 .. Len(active)
  BY <1>2 DEF Forget
<1>6. Forget(a) \in [1 .. Len(active) -> Event]
  BY <1>2, <1>4, <1>5 DEF Forget
<1>7. Forget(a) \in Seq(Event)
  BY <1>2, <1>6
<1>8. Len(Forget(a)) = Len(active)
  BY <1>2, <1>5, <1>7
<1>9. \A i \in DOMAIN active :
          /\ Hit(a, i) => Forget(a)[i] = [ptr |-> Null, id |-> active[i].id]
          /\ ~Hit(a, i) => Forget(a)[i] = active[i]
  BY DEF Forget
<1> QED BY <1>2, <1>5, <1>7, <1>8, <1>9

\* What epoll_wait reports is an array of events for distinct open channels.
LEMMA ReportsShape ==
    ASSUME PollerTypeOK, LiveIsOpen, NEW n \in 0 .. MaxEvents, NEW s \in Reports(n)
    PROVE  /\ s \in Seq(Event) /\ Len(s) = n /\ DOMAIN s = 1 .. n
           /\ \A i \in 1 .. n : /\ s[i].ptr \in Addr /\ obj[s[i].ptr] = "open"
                                /\ held[s[i].ptr] = s[i].id
           /\ \A i, j \in 1 .. n : s[i].ptr = s[j].ptr => i = j
<1>0. n \in Nat
  BY PollerAssumption
<1>1. PICK f \in [1 .. n -> live] :
          /\ \A i, j \in 1 .. n : f[i] = f[j] => i = j
          /\ s = [i \in 1 .. n |-> [ptr |-> f[i], id |-> held[f[i]]]]
  BY DEF Reports
<1>2. \A i \in 1 .. n : f[i] \in Addr /\ obj[f[i]] = "open" /\ held[f[i]] \in Nat
  BY <1>1 DEF PollerTypeOK, LiveIsOpen
<1>3. \A i \in 1 .. n : s[i].ptr = f[i] /\ s[i].id = held[f[i]] /\ s[i] \in Event
  BY <1>1, <1>2 DEF Event
<1>4. s \in [1 .. n -> Event]
  BY <1>1, <1>3
<1>5. s \in Seq(Event) /\ Len(s) = n
  BY <1>0, <1>4
<1> QED BY <1>1, <1>2, <1>3, <1>4, <1>5

\* The invariant holds of a new poller.
LEMMA PollerInitInv == PollerInit => PollerInv
<1> SUFFICES ASSUME PollerInit PROVE PollerInv
  OBVIOUS
<1>1. active = <<>> /\ Len(active) = 0 /\ DOMAIN active = {}
  BY DEF PollerInit
<1>2. PollerTypeOK
  BY <1>1 DEF PollerInit, PollerTypeOK
<1>3. LiveIsOpen /\ AllClosed
  BY DEF PollerInit, LiveIsOpen, AllClosed
<1>4. PendingDistinct /\ PendingIsLive
  BY <1>1 DEF PendingDistinct, PendingIsLive
<1> QED BY <1>2, <1>3, <1>4 DEF PollerInv

\* Channel::close keeps the invariant: the only pending event of the channel is the
\* one at which the search stops.
LEMMA CloseStep ==
    ASSUME PollerInv, NEW a \in Addr, Close(a) PROVE PollerInv'
<1> USE DEF PollerInv
<1>1. /\ active' = Forget(a) /\ live' = live \ {a} /\ obj' = [obj EXCEPT ![a] = "closed"]
      /\ UNCHANGED <<held, last, lpc, births>> /\ obj[a] = "open" /\ InProgram
  BY DEF Close
<1>2. /\ active' \in Seq(Event) /\ Len(active') = Len(active) /\ DOMAIN active' = DOMAIN active
      /\ \A i \in DOMAIN active :
             /\ Hit(a, i) => active'[i] = [ptr |-> Null, id |-> active[i].id]
             /\ ~Hit(a, i) => active'[i] = active[i]
  BY <1>1, ForgetShape
<1>3. PollerTypeOK'
  BY <1>1, <1>2 DEF PollerTypeOK
<1>4. LiveIsOpen'
  BY <1>1 DEF LiveIsOpen, PollerTypeOK
<1>5. AllClosed'
  BY <1>1 DEF AllClosed, InProgram
<1>6. \A i \in DOMAIN active : active'[i].ptr # Null => active'[i] = active[i] /\ ~Hit(a, i)
  BY <1>2
<1>7. PendingDistinct'
  BY <1>1, <1>2, <1>6 DEF PendingDistinct
<1>8. ASSUME NEW i \in DOMAIN active, i < last, active'[i].ptr # Null
      PROVE  obj'[active'[i].ptr] = "open" /\ held'[active'[i].ptr] = active'[i].id
  <2>1. active'[i] = active[i] /\ ~Hit(a, i)
    BY <1>6, <1>8
  <2>2. i \in Int /\ last \in Int /\ active[i] \in Event
    BY DEF PollerTypeOK
  <2>3. active[i].ptr # a
    <3>1. SUFFICES ASSUME active[i].ptr = a PROVE FALSE
      OBVIOUS
    <3>2. PICK j \in DOMAIN active : i < j /\ j <= last /\ active[j].ptr = a
      BY <2>1, <2>2, <1>8, <3>1 DEF Hit
    <3>3. i = j
      BY <1>8, <2>1, <2>2, <3>1, <3>2 DEF PendingDistinct
    <3> QED BY <2>2, <3>2, <3>3
  <2>4. active[i].ptr \in Addr
    BY <1>8, <2>1, <2>2 DEF Event
  <2>5. obj[active[i].ptr] = "open" /\ held[active[i].ptr] = active[i].id
    BY <1>8, <2>1 DEF PendingIsLive
  <2> QED BY <1>1, <2>1, <2>3, <2>4, <2>5 DEF PollerTypeOK
<1>9. PendingIsLive'
  BY <1>1, <1>2, <1>8 DEF PendingIsLive
<1> QED BY <1>3, <1>4, <1>5, <1>7, <1>9

\* A new channel keeps the invariant: no pending event names a free address.
LEMMA NewStep ==
    ASSUME PollerInv, NEW a \in Addr, New(a) PROVE PollerInv'
<1> USE DEF PollerInv
<1>1. /\ obj' = [obj EXCEPT ![a] = "open"] /\ held' = [held EXCEPT ![a] = @ + 1]
      /\ live' = live \cup {a} /\ births' = births + 1 /\ UNCHANGED <<active, last, lpc>>
      /\ obj[a] = "free" /\ InProgram
  BY DEF New
<1>2. PollerTypeOK'
  BY <1>1 DEF PollerTypeOK
<1>3. LiveIsOpen'
  BY <1>1 DEF LiveIsOpen, PollerTypeOK
<1>4. AllClosed'
  BY <1>1 DEF AllClosed, InProgram
<1>5. PendingDistinct'
  BY <1>1 DEF PendingDistinct
<1>6. ASSUME NEW i \in DOMAIN active, i < last, active[i].ptr # Null
      PROVE  obj'[active[i].ptr] = "open" /\ held'[active[i].ptr] = active[i].id
  <2>1. active[i] \in Event
    BY DEF PollerTypeOK
  <2>2. active[i].ptr \in Addr
    BY <1>6, <2>1 DEF Event
  <2>3. obj[active[i].ptr] = "open" /\ held[active[i].ptr] = active[i].id
    BY <1>6 DEF PendingIsLive
  <2>4. active[i].ptr # a
    BY <1>1, <2>3
  <2> QED BY <1>1, <2>2, <2>3, <2>4 DEF PollerTypeOK
<1>7. PendingIsLive'
  BY <1>1, <1>6 DEF PendingIsLive
<1> QED BY <1>2, <1>3, <1>4, <1>5, <1>7

\* Deleting a closed channel keeps the invariant.
LEMMA DeleteStep ==
    ASSUME PollerInv, NEW a \in Addr, Delete(a) PROVE PollerInv'
<1> USE DEF PollerInv
<1>1. /\ obj' = [obj EXCEPT ![a] = "free"] /\ UNCHANGED <<held, live, active, last, lpc, births>>
      /\ obj[a] = "closed" /\ InProgram
  BY DEF Delete
<1>2. PollerTypeOK'
  BY <1>1 DEF PollerTypeOK
<1>3. LiveIsOpen'
  BY <1>1 DEF LiveIsOpen, PollerTypeOK
<1>4. AllClosed'
  BY <1>1 DEF AllClosed, InProgram
<1>5. PendingDistinct'
  BY <1>1 DEF PendingDistinct
<1>6. ASSUME NEW i \in DOMAIN active, i < last, active[i].ptr # Null
      PROVE  obj'[active[i].ptr] = "open"
  <2>1. active[i] \in Event
    BY DEF PollerTypeOK
  <2>2. active[i].ptr \in Addr
    BY <1>6, <2>1 DEF Event
  <2>3. obj[active[i].ptr] = "open"
    BY <1>6 DEF PendingIsLive
  <2> QED BY <1>1, <2>2, <2>3 DEF PollerTypeOK
<1>7. PendingIsLive'
  BY <1>1, <1>6 DEF PendingIsLive
<1> QED BY <1>2, <1>3, <1>4, <1>5, <1>7

\* epoll_wait keeps the invariant.
LEMMA WaitStep == ASSUME PollerInv, Wait PROVE PollerInv'
<1> USE DEF PollerInv
<1>1. PICK n \in 0 .. MaxEvents : active' \in Reports(n) /\ last' = n + 1
  BY DEF Wait
<1>2. lpc' = "next" /\ UNCHANGED <<obj, held, live, births>>
  BY DEF Wait
<1>3. /\ active' \in Seq(Event) /\ Len(active') = n /\ DOMAIN active' = 1 .. n
      /\ \A i \in 1 .. n : /\ active'[i].ptr \in Addr /\ obj[active'[i].ptr] = "open"
                           /\ held[active'[i].ptr] = active'[i].id
      /\ \A i, j \in 1 .. n : active'[i].ptr = active'[j].ptr => i = j
  BY <1>1, ReportsShape
<1>4. n \in Nat
  BY PollerAssumption
<1>5. PollerTypeOK'
  BY <1>1, <1>2, <1>3, <1>4 DEF PollerTypeOK
<1>6. LiveIsOpen' /\ AllClosed'
  BY <1>2 DEF LiveIsOpen, AllClosed
<1>7. PendingDistinct'
  BY <1>3 DEF PendingDistinct
<1>8. PendingIsLive'
  BY <1>2, <1>3 DEF PendingIsLive
<1> QED BY <1>5, <1>6, <1>7, <1>8

\* The other steps move the index down or leave everything but lpc alone.
LEMMA LoopStep ==
    ASSUME PollerInv, Interrupted \/ Dispatch \/ HandlerReturns \/ Destroy \/ Destroyed
    PROVE  PollerInv'
<1> USE DEF PollerInv
<1>1. /\ UNCHANGED <<obj, held, live, active, births>> /\ last' \in Int
      /\ last' <= last \/ last' = 0
  BY DEF PollerTypeOK, Interrupted, Dispatch, HandlerReturns, Destroy, Destroyed
<1>2. Len(active) \in Nat /\ DOMAIN active = 1 .. Len(active) /\ last \in Int
  BY DEF PollerTypeOK
<1>3. PollerTypeOK'
  <2>1. CASE Interrupted
    BY <1>2, <2>1 DEF PollerTypeOK, Interrupted
  <2>2. CASE Dispatch
    BY <1>2, <2>2 DEF PollerTypeOK, Dispatch
  <2>3. CASE HandlerReturns
    BY <1>2, <2>3 DEF PollerTypeOK, HandlerReturns
  <2>4. CASE Destroy \/ Destroyed
    BY <1>2, <2>4 DEF PollerTypeOK, Destroy, Destroyed
  <2> QED BY <2>1, <2>2, <2>3, <2>4
<1>4. LiveIsOpen'
  BY <1>1 DEF LiveIsOpen
<1>5. AllClosed'
  BY <1>1 DEF AllClosed, LiveIsOpen, Interrupted, Dispatch, HandlerReturns, Destroy, Destroyed
<1>6. PendingDistinct'
  BY <1>1, <1>2 DEF PendingDistinct
<1>7. PendingIsLive'
  BY <1>1, <1>2 DEF PendingIsLive
<1> QED BY <1>3, <1>4, <1>5, <1>6, <1>7

\* Every step keeps the invariant.
LEMMA PollerStepInv == PollerInv /\ [PollerNext]_pollerVars => PollerInv'
<1> SUFFICES ASSUME PollerInv, [PollerNext]_pollerVars PROVE PollerInv'
  OBVIOUS
<1>1. CASE UNCHANGED pollerVars
  BY <1>1 DEF pollerVars, PollerInv, PollerTypeOK, LiveIsOpen, AllClosed, PendingDistinct,
              PendingIsLive
<1>2. CASE PollerNext
  BY <1>2, NewStep, CloseStep, DeleteStep, WaitStep, LoopStep DEF PollerNext
<1> QED BY <1>1, <1>2

\* Every reachable state of the poller satisfies the inductive invariant.
THEOREM PollerInvariant == PollerSpec => []PollerInv
  BY PollerInitInv, PollerStepInv, PTL DEF PollerSpec

\* Type correctness, and with it that activeEvs_ is only read inside its bounds.
THEOREM PollerTypes == PollerSpec => []PollerTypeOK
<1>1. PollerInv => PollerTypeOK
  BY DEF PollerInv
<1> QED BY <1>1, PollerInvariant, PTL

\* No event is dispatched to a channel other than the open one it was reported for.
THEOREM PollerPendingIsLive == PollerSpec => []PendingIsLive
<1>1. PollerInv => PendingIsLive
  BY DEF PollerInv
<1> QED BY <1>1, PollerInvariant, PTL

\* liveChannels_ is the set of the open channels, and none is left by the destructor.
THEOREM PollerAllClosed == PollerSpec => [](LiveIsOpen /\ AllClosed)
<1>1. PollerInv => LiveIsOpen /\ AllClosed
  BY DEF PollerInv
<1> QED BY <1>1, PollerInvariant, PTL
=============================================================================
