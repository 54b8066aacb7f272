-------------------------------- MODULE Idle --------------------------------
(***************************************************************************)
(* handy/event_base.cc: the lists of idle connections.  idleConns_ has one *)
(* list per idle time; a node goes to the end of its list when its         *)
(* connection has read something, and once a second callIdles calls the    *)
(* callbacks of the nodes that have waited long enough.                    *)
(*                                                                         *)
(* callIdles works on a copy of each list.  Its times are in seconds,      *)
(* those of the clock finer: TicksPerSec ticks make a second.  Everything  *)
(* runs on the loop's thread, so between two nodes only the callback runs. *)
(***************************************************************************)
EXTENDS Integers, Sequences

CONSTANTS Conns,        \* connections, each registered at most once per idle time
          Idles,        \* idle times, in seconds
          TicksPerSec,  \* 1000 in the code
          MaxClock       \* bound: ticks

ASSUME IdleAssumption == /\ Idles \subseteq Nat \ {0} /\ TicksPerSec \in Nat \ {0}
                         /\ MaxClock \in Nat

VARIABLES clock,       \* the clock
          conState,     \* of each connection: new, open, closed
          lists,     \* idleConns_: a sequence of records [con, updated] per idle time
          ids,       \* idleIds_ of each connection, never cleared
          nextCall,  \* when the repeating timer is due, 0 if it was not set
          idlePc,    \* none, or in callIdles: list, node, callback
          todo,      \* idle times whose lists callIdles has not come to
          idle,      \* the idle time whose list is in hand
          copy,      \* the copy of that list
          roundNow,  \* the now of callIdles
          called,    \* history: the pairs <<con, idle>> called back in this round
          loopEnded, \* loop() has cleared idleConns_
          dangling   \* history: an erased node was used, anything may have happened

idleVars == <<clock, conState, lists, ids, nextCall, idlePc, todo, idle, copy, roundNow, called,
              loopEnded, dangling>>
roundVars == <<todo, idle, copy, roundNow, called>>

Sec(t) == t \div TicksPerSec

IdleInit == /\ clock = 0 /\ conState = [c \in Conns |-> "new"]
            /\ lists = [i \in Idles |-> <<>>] /\ ids = [c \in Conns |-> {}] /\ nextCall = 0
            /\ idlePc = "none" /\ todo = {} /\ idle = 0 /\ copy = <<>> /\ roundNow = 0
            /\ called = {}
            /\ loopEnded = FALSE /\ dangling = FALSE

\* Where the program's code, or the rest of the loop's, runs.
InCode == idlePc \in {"none", "callback"} /\ ~dangling

-----------------------------------------------------------------------------

IdleConnect(c) == /\ InCode /\ ~loopEnded /\ conState[c] = "new"
                  /\ conState' = [conState EXCEPT ![c] = "open"]
                  /\ UNCHANGED <<clock, lists, ids, nextCall, idlePc, roundVars, loopEnded,
                                 dangling>>

\* addIdleCB and registerIdle; the first call starts the timer of callIdles.
RegisterIdle(c, i) ==
    /\ InCode /\ ~loopEnded /\ conState[c] = "open" /\ i \notin ids[c]
    /\ lists' = [lists EXCEPT ![i] = Append(@, [con |-> c, updated |-> Sec(clock)])]
    /\ ids' = [ids EXCEPT ![c] = @ \cup {i}]
    /\ nextCall' = IF nextCall = 0 THEN clock + TicksPerSec ELSE nextCall
    /\ UNCHANGED <<clock, conState, idlePc, roundVars, loopEnded, dangling>>

\* iter_ of c, and the list without the node it names.
Iter(s, c) == CHOOSE k \in DOMAIN s : s[k].con = c
Without(s, c) == SubSeq(s, 1, Iter(s, c) - 1) \o SubSeq(s, Iter(s, c) + 1, Len(s))

\* Mutant: the node is stamped and stays where it is.
Refreshed_InPlace(s, c) ==
    [k \in DOMAIN s |-> IF s[k].con = c THEN [con |-> c, updated |-> Sec(clock)] ELSE s[k]]

\* updateIdle: the node of c is stamped and spliced to the end.
Refreshed(s, c) == Append(Without(s, c), [con |-> c, updated |-> Sec(clock)])

\* handleRead has read what there was.
UpdateIdle(c) ==
    /\ idlePc = "none" /\ ~dangling /\ conState[c] = "open"
    /\ lists' = [i \in Idles |-> IF i \in ids[c] /\ ~loopEnded THEN Refreshed(lists[i], c)
                                ELSE lists[i]]
    /\ dangling' = (loopEnded /\ ids[c] # {})
    /\ UNCHANGED <<clock, conState, ids, nextCall, idlePc, roundVars, loopEnded>>

\* Mutant: cleanup leaves the nodes in their lists.
IdleCleanup_KeepsNodes(c) ==
    /\ InCode /\ conState[c] = "open"
    /\ conState' = [conState EXCEPT ![c] = "closed"]
    /\ UNCHANGED <<clock, lists, ids, nextCall, idlePc, roundVars, loopEnded, dangling>>

\* cleanup of a connection without reconnect: unregisterIdle for each of its ids, which
\* hold pointers to the lists.  closeNow calls it from a callback.  The ids stay: a
\* cleanup in a cleanup (see TcpConn) erases the nodes twice.
IdleCleanup(c) ==
    /\ InCode /\ conState[c] = "open"
    /\ conState' = [conState EXCEPT ![c] = "closed"]
    /\ lists' = [i \in Idles |-> IF i \in ids[c] /\ ~loopEnded THEN Without(lists[i], c)
                                ELSE lists[i]]
    /\ \E nested \in BOOLEAN : dangling' = ((loopEnded \/ nested) /\ ids[c] # {})
    /\ UNCHANGED <<clock, ids, nextCall, idlePc, roundVars, loopEnded>>

-----------------------------------------------------------------------------
(* callIdles, run by its timer.                                             *)

CallIdles == /\ idlePc = "none" /\ ~dangling /\ ~loopEnded /\ nextCall # 0 /\ clock >= nextCall
             /\ nextCall' = nextCall + TicksPerSec
             /\ roundNow' = Sec(clock) /\ called' = {}
             /\ todo' = Idles /\ idlePc' = "list"
             /\ UNCHANGED <<clock, conState, lists, ids, idle, copy, loopEnded, dangling>>

\* for (auto &l : idleConns_): the lists in the order of their idle times, copied.
NextList == /\ idlePc = "list"
            /\ IF todo = {}
               THEN /\ idlePc' = "none" /\ roundNow' = 0 /\ called' = {}
                    /\ UNCHANGED <<todo, idle, copy>>
               ELSE \E i \in todo : /\ \A j \in todo : i <= j
                                    /\ todo' = todo \ {i} /\ idle' = i /\ copy' = lists[i]
                                    /\ idlePc' = "node" /\ UNCHANGED <<roundNow, called>>
            /\ UNCHANGED <<clock, conState, lists, ids, nextCall, loopEnded, dangling>>

\* node.updated_ = now
Stamped(n) == [con |-> n.con, updated |-> roundNow]

\* if (node.updated_ + idle > now) break
Waits(n) == n.updated + idle > roundNow

\* while (lst.size()): the callback of the first node, which goes to the end of the
\* copy, or the next list.
NextNode ==
    /\ idlePc = "node"
    /\ IF copy = <<>> \/ Waits(Head(copy))
       THEN idlePc' = "list" /\ copy' = <<>> /\ idle' = 0 /\ UNCHANGED called
       ELSE LET n == Head(copy)
            IN /\ copy' = Append(Tail(copy), Stamped(n))
               /\ called' = called \cup {<<n.con, idle>>}
               /\ idlePc' = "callback" /\ UNCHANGED idle
    /\ UNCHANGED <<clock, conState, lists, ids, nextCall, todo, roundNow, loopEnded, dangling>>

CallbackReturns == /\ idlePc = "callback" /\ ~dangling
                   /\ idlePc' = "node"
                   /\ UNCHANGED <<clock, conState, lists, ids, nextCall, todo, idle, copy, roundNow,
                                  called, loopEnded, dangling>>

-----------------------------------------------------------------------------

IdleTick == /\ clock < MaxClock
            /\ clock' = clock + 1
            /\ UNCHANGED <<conState, lists, ids, nextCall, idlePc, roundVars, loopEnded, dangling>>

\* loop() ends: timers_ and idleConns_ are cleared.
IdleExit == /\ idlePc = "none" /\ ~loopEnded /\ ~dangling
            /\ loopEnded' = TRUE /\ nextCall' = 0
            /\ lists' = [i \in Idles |-> <<>>]
            /\ UNCHANGED <<clock, conState, ids, idlePc, roundVars, dangling>>

IdleNext == \/ \E c \in Conns : IdleConnect(c) \/ UpdateIdle(c) \/ IdleCleanup(c)
            \/ \E c \in Conns, i \in Idles : RegisterIdle(c, i)
            \/ CallIdles \/ NextList \/ NextNode \/ CallbackReturns \/ IdleTick \/ IdleExit

IdleSpec == IdleInit /\ [][IdleNext]_idleVars

-----------------------------------------------------------------------------

Node == [con : Conns, updated : Nat]
Nodes(s) == {s[k] : k \in DOMAIN s}

\* Every variable has its type.
IdleTypeOK == /\ clock \in Nat /\ conState \in [Conns -> {"new", "open", "closed"}]
              /\ lists \in [Idles -> Seq(Node)] /\ ids \in [Conns -> SUBSET Idles]
              /\ nextCall \in Nat /\ idlePc \in {"none", "list", "node", "callback"}
              /\ todo \subseteq Idles /\ idle \in Idles \cup {0} /\ copy \in Seq(Node)
              /\ roundNow \in Nat /\ called \subseteq Conns \X Idles
              /\ loopEnded \in BOOLEAN /\ dangling \in BOOLEAN

\* registerIdle, updateIdle and unregisterIdle together: a list holds exactly one node
\* for each open connection that registered for it, which its idleIds_ names, and none of
\* a connection that is closed, although idleIds_ still names it.
NodesMatchIds ==
    ~loopEnded /\ ~dangling => \A i \in Idles :
        /\ \A c \in Conns : conState[c] = "open" /\ i \in ids[c]
                               <=> \E n \in Nodes(lists[i]) : n.con = c
        /\ \A j, k \in DOMAIN lists[i] : lists[i][j].con = lists[i][k].con => j = k

\* callIdles stops at the first node that has not waited long enough, which misses
\* none: when it has gone through a list, every node of it that is due was called.
NoneMissed ==
    idlePc # "none" => \A i \in Idles \ (todo \cup {idle}) : \A n \in Nodes(lists[i]) :
        n.updated + i > roundNow \/ <<n.con, i>> \in called
=============================================================================
