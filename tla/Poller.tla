------------------------------- MODULE Poller -------------------------------
(***************************************************************************)
(* handy/poller.cc (the epoll poller) with Channel of handy/event_base.cc: *)
(* the poller keeps raw pointers to channels in the array of the events it *)
(* was last given, while the handlers that it calls close and delete       *)
(* channels and create new ones, perhaps at the same address.              *)
(*                                                                         *)
(* An address is free, or holds a Channel that is open or closed (its fd   *)
(* is -1).  held counts the channels that an address has had: it is the    *)
(* identity that a pointer lacks.  Which of its two handlers an event      *)
(* calls makes no difference here: it is one of them, once.                *)
(***************************************************************************)
EXTENDS Integers, Sequences

CONSTANTS Addr,       \* addresses at which channels are allocated
          Null,       \* the null pointer
          MaxEvents,  \* kMaxEvents
          MaxBirths   \* bound: channels created

ASSUME PollerAssumption == /\ Null \notin Addr
                           /\ MaxEvents \in Nat \ {0} /\ MaxBirths \in Nat

VARIABLES obj,      \* what is at each address
          held,     \* how many channels it has had
          live,     \* liveChannels_
          active,   \* activeEvs_: records [ptr, id]; id is the identity reported
          last,     \* lastActive_ + 1: the index, from 1, of the event in hand
          lpc,      \* idle (outside loop_once), next, handler, destroying, gone
          births    \* how many channels were created

pollerVars == <<obj, held, live, active, last, lpc, births>>

PollerInit == /\ obj = [a \in Addr |-> "free"] /\ held = [a \in Addr |-> 0] /\ live = {}
              /\ active = <<>> /\ last = 0 /\ lpc = "idle" /\ births = 0

\* Code of the program runs on the loop's thread: in a handler, in a task or a
\* timer, or, when the poller is being destroyed, in the handleRead that close calls.
InProgram == lpc \in {"idle", "handler", "destroying"}

-----------------------------------------------------------------------------

\* Channel::Channel and addChannel.
New(a) == /\ InProgram /\ births < MaxBirths /\ obj[a] = "free"
          /\ obj' = [obj EXCEPT ![a] = "open"]
          /\ held' = [held EXCEPT ![a] = @ + 1]
          /\ live' = live \cup {a}
          /\ births' = births + 1
          /\ UNCHANGED <<active, last, lpc>>

\* The search of removeChannel stops at i: the first match from lastActive_ down.
Hit(a, i) == /\ i <= last /\ active[i].ptr = a
             /\ \A j \in DOMAIN active : i < j /\ j <= last => active[j].ptr # a

\* Mutant: the search ends before the first element.
Forget_OffByOne(a) ==
    [i \in DOMAIN active |-> IF Hit(a, i) /\ i > 1 THEN [ptr |-> Null, id |-> active[i].id]
                                                   ELSE active[i]]

\* activeEvs_ after removeChannel.
Forget(a) ==
    [i \in DOMAIN active |-> IF Hit(a, i) THEN [ptr |-> Null, id |-> active[i].id]
                                          ELSE active[i]]

\* Mutant: the channel stays in liveChannels_.
Close_StaysLive(a) == /\ InProgram /\ obj[a] = "open"
                      /\ active' = Forget(a)
                      /\ obj' = [obj EXCEPT ![a] = "closed"]
                      /\ UNCHANGED <<held, live, last, lpc, births>>

\* Channel::close of an open channel, with removeChannel.  The handleRead that it
\* calls at its end is code of the program that runs on.
Close(a) == /\ InProgram /\ obj[a] = "open"
            /\ live' = live \ {a}
            /\ active' = Forget(a)
            /\ obj' = [obj EXCEPT ![a] = "closed"]
            /\ UNCHANGED <<held, last, lpc, births>>

\* delete of a closed channel; Channel::~Channel has closed an open one.
Delete(a) == /\ InProgram /\ obj[a] = "closed"
             /\ obj' = [obj EXCEPT ![a] = "free"]
             /\ UNCHANGED <<held, live, active, last, lpc, births>>

-----------------------------------------------------------------------------

Event == [ptr : Addr \cup {Null}, id : Nat]

\* What epoll_wait may report: open channels, each at most once, as many as fit.
Reports(n) == {[i \in 1 .. n |-> [ptr |-> f[i], id |-> held[f[i]]]] :
                  f \in {g \in [1 .. n -> live] : \A i, j \in 1 .. n : g[i] = g[j] => i = j}}

\* loop_once up to its while.
Wait == /\ lpc = "idle"
        /\ \E n \in 0 .. MaxEvents : active' \in Reports(n) /\ last' = n + 1
        /\ lpc' = "next"
        /\ UNCHANGED <<obj, held, live, births>>

\* A signal interrupts epoll_wait: the array keeps what it held.
Interrupted == /\ lpc = "idle"
               /\ last' = 0
               /\ lpc' = "next"
               /\ UNCHANGED <<obj, held, live, active, births>>

\* while (--lastActive_ >= 0): the handler of the next event is called, unless the
\* pointer has become NULL.
Dispatch == /\ lpc = "next"
            /\ last' = last - 1
            /\ lpc' = IF last' < 1 THEN "idle"
                      ELSE IF active[last'].ptr = Null THEN "next" ELSE "handler"
            /\ UNCHANGED <<obj, held, live, active, births>>

HandlerReturns == /\ lpc = "handler"
                  /\ lpc' = "next"
                  /\ UNCHANGED <<obj, held, live, active, last, births>>

\* ~PollerEpoll begins, and ends when no live channel is left; in between it closes
\* the first one (Close).
Destroy == /\ lpc = "idle"
           /\ lpc' = "destroying"
           /\ UNCHANGED <<obj, held, live, active, last, births>>

Destroyed == /\ lpc = "destroying" /\ live = {}
             /\ lpc' = "gone"
             /\ UNCHANGED <<obj, held, live, active, last, births>>

PollerNext == \/ \E a \in Addr : New(a) \/ Close(a) \/ Delete(a)
              \/ Wait \/ Interrupted \/ Dispatch \/ HandlerReturns \/ Destroy \/ Destroyed

PollerSpec == PollerInit /\ [][PollerNext]_pollerVars

\* The destructor goes on closing channels.
FairPollerSpec == PollerSpec /\ WF_pollerVars(Destroyed)
                       /\ WF_pollerVars(lpc = "destroying" /\ \E a \in Addr : Close(a))

-----------------------------------------------------------------------------

\* Every variable has its type; an array index is inside the array when it is used.
PollerTypeOK == /\ obj \in [Addr -> {"free", "open", "closed"}] /\ held \in [Addr -> Nat]
                /\ live \subseteq Addr /\ active \in Seq(Event) /\ births \in Nat
                /\ last \in Int /\ last <= Len(active) + 1
                /\ lpc = "handler" => last \in 1 .. Len(active)
                /\ lpc # "next" => last <= Len(active)
                /\ lpc \in {"idle", "next", "handler", "destroying", "gone"}

\* removeChannel: every event that is still to be dispatched names the channel for
\* which it was reported, and that channel is open: no handler is called of a channel
\* that was closed or deleted by an earlier handler of the same round, nor of a new
\* channel at the same address.
PendingIsLive ==
    \A i \in DOMAIN active :
        i < last /\ active[i].ptr # Null =>
            obj[active[i].ptr] = "open" /\ held[active[i].ptr] = active[i].id

\* addChannel and removeChannel keep liveChannels_ equal to the open channels, from
\* which the destructor finds what to close.
LiveIsOpen == live = {a \in Addr : obj[a] = "open"}

\* After ~PollerEpoll no channel is open, although closing one may open others.
AllClosed == lpc = "gone" => \A a \in Addr : obj[a] # "open"

\* The destructor ends, when closing channels does not open new ones for ever.
DestructorEnds == lpc = "destroying" ~> lpc = "gone"

-----------------------------------------------------------------------------

\* The events in hand and to come name distinct channels, so that removeChannel may
\* stop at the first match.
PendingDistinct ==
    \A i, j \in DOMAIN active :
        i <= last /\ j <= last /\ active[i].ptr = active[j].ptr /\ active[i].ptr # Null => i = j

\* The strengthening of PendingIsLive and AllClosed that every step preserves.
PollerInv == PollerTypeOK /\ LiveIsOpen /\ PendingDistinct /\ PendingIsLive /\ AllClosed
=============================================================================
