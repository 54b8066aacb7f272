------------------------------- MODULE Timers -------------------------------
(***************************************************************************)
(* handy/event_base.cc: the timers of an EventBase.  timers_ is ordered by *)
(* (time, sequence number); a repeating timer has a record in timerReps_,  *)
(* found by the id {-milli, seq}, and one entry in timers_ whose task      *)
(* holds a pointer to that record.                                         *)
(*                                                                         *)
(* Everything here runs on the loop's thread: before loop() ("setup"), in  *)
(* the handlers of channels ("io", and "last" for the loop_once(0) that    *)
(* ends loop()) and in the callbacks of timers ("cb") the program may call *)
(* runAt, cancel and exit.  Time is a count of                             *)
(* milliseconds that may pass at any of these places and in the poller;    *)
(* refreshNearest at the end of a round and the next wait of the poller    *)
(* happen at the same instant.                                             *)
(***************************************************************************)
EXTENDS Integers, FiniteSets

CONSTANTS Offsets,      \* runAt is called with now + one of these
          Intervals,    \* and with one of these intervals, 0 for one-shot timers
          MaxWait,      \* the 10000 of loop()
          IntMax,       \* the largest int
          Start,        \* the time at which the base is created
          MaxTime,      \* bound: the last instant
          MaxRunAt,     \* bound: calls of runAt
          CancelTwice   \* whether the program cancels a repeating timer again

ASSUME TimersAssumption ==
    /\ Offsets \subseteq Nat /\ Intervals \subseteq Nat
    /\ MaxWait \in Nat \ {0} /\ IntMax \in Nat \ {0}
    /\ Start \in Nat /\ MaxTime \in Nat /\ MaxRunAt \in Nat
    /\ CancelTwice \in BOOLEAN

VARIABLES now,          \* util::timeMilli()
          timers,       \* timers_: records [at, seq, rep]
          timerReps,    \* timerReps_: a function from ids to records
          timerSeq,     \* timerSeq_
          nextTimeout,  \* nextTimeout_
          exit,         \* exit_
          lpc,          \* where the loop is
          horizon,      \* the now of handleTimeouts
          pollFrom,     \* when the poller's wait began
          wakeAt,       \* and when it ends without an event
          runAts,       \* how many times runAt was called
          handed,       \* history: the ids runAt returned
          cancelled,    \* history: the ids for which cancel returned true
          ub            \* history: cancel used an iterator past the end

vars == <<now, timers, timerReps, timerSeq, nextTimeout, exit, lpc, horizon, pollFrom, wakeAt,
          runAts, handed, cancelled, ub>>

NoId == <<0, 0>>            \* TimerId()
Key(e) == <<e.at, e.seq>>

\* std::pair's order on TimerId.
Before(e, f) == e.at < f.at \/ (e.at = f.at /\ e.seq < f.seq)

\* timers_.begin()
IsFirst(e) == e \in timers /\ \A f \in timers \ {e} : Before(e, f)

UserCode == {"setup", "io", "cb", "last"}

-----------------------------------------------------------------------------

\* The conversion of the 64-bit difference of two times to int.
ToInt(x) == ((x + IntMax + 1) % (2 * (IntMax + 1))) - (IntMax + 1)

NoTimer == (IntMax + 1) \div 2       \* 1 << 30

\* Mutant: refreshNearest takes the last entry of timers_ for the first.
Nearest_Last(T, time) ==
    IF T = {} THEN NoTimer
    ELSE LET last == CHOOSE e \in T : \A f \in T \ {e} : Before(f, e)
             diff == ToInt(last.at - time)
         IN IF diff < 0 THEN 0 ELSE diff

\* refreshNearest, when timers_ is about to be T.
Nearest(T, time) ==
    IF T = {} THEN NoTimer
    ELSE LET first == CHOOSE e \in T : \A f \in T \ {e} : Before(e, f)
             diff  == ToInt(first.at - time)
         IN IF diff < 0 THEN 0 ELSE diff

Init == /\ now = Start /\ timers = {} /\ timerReps = [i \in {} |-> {}]
        /\ timerSeq = 0 /\ nextTimeout = NoTimer /\ exit = FALSE
        /\ lpc = "setup" /\ horizon = 0 /\ pollFrom = 0 /\ wakeAt = 0
        /\ runAts = 0 /\ handed = {} /\ cancelled = {} /\ ub = FALSE

RunAtOnce(milli) ==
    /\ timerSeq' = timerSeq + 1
    /\ timers' = timers \cup {[at |-> milli, seq |-> timerSeq + 1, rep |-> NoId]}
    /\ handed' = handed \cup {<<milli, timerSeq + 1>>}
    /\ nextTimeout' = Nearest(timers', now)
    /\ UNCHANGED timerReps

\* start and fired are history: the first time asked for, and how often it fired.
RunAtRepeating(milli, interval) ==
    LET id  == <<-milli, timerSeq + 1>>
        rep == [at |-> milli, interval |-> interval, timerid |-> <<milli, timerSeq + 2>>,
                start |-> milli, fired |-> 0]
    IN /\ timerSeq' = timerSeq + 2
       /\ timerReps' = [i \in DOMAIN timerReps \cup {id} |->
                           IF i = id THEN rep ELSE timerReps[i]]
       /\ timers' = timers \cup {[at |-> milli, seq |-> timerSeq + 2, rep |-> id]}
       /\ handed' = handed \cup {id}
       /\ nextTimeout' = Nearest(timers', now)

RunAt(milli, interval) ==
    /\ lpc \in UserCode /\ ~ub /\ runAts < MaxRunAt
    /\ runAts' = runAts + 1
    /\ IF exit
       THEN UNCHANGED <<timers, timerReps, timerSeq, nextTimeout, handed>>
       ELSE IF interval = 0 THEN RunAtOnce(milli) ELSE RunAtRepeating(milli, interval)
    /\ UNCHANGED <<now, exit, lpc, horizon, pollFrom, wakeAt, cancelled, ub>>

\* Mutant: the entry of a repeating timer stays in timers_.
CancelRepeating_KeepsEntry(id) ==
    IF id \notin DOMAIN timerReps
    THEN ub' = TRUE /\ UNCHANGED <<timers, timerReps, cancelled>>
    ELSE /\ timerReps' = [i \in DOMAIN timerReps \ {id} |-> timerReps[i]]
         /\ cancelled' = cancelled \cup {id}
         /\ UNCHANGED <<timers, ub>>

\* cancel of an id with a negative time: what find returns is not compared with
\* end() before it is used.
CancelRepeating(id) ==
    IF id \notin DOMAIN timerReps
    THEN ub' = TRUE /\ UNCHANGED <<timers, timerReps, cancelled>>
    ELSE /\ timers' = {e \in timers : Key(e) # timerReps[id].timerid}
         /\ timerReps' = [i \in DOMAIN timerReps \ {id} |-> timerReps[i]]
         /\ cancelled' = cancelled \cup {id}
         /\ UNCHANGED ub

CancelOnce(id) ==
    /\ timers' = {e \in timers : Key(e) # id}
    /\ cancelled' = IF timers' = timers THEN cancelled ELSE cancelled \cup {id}
    /\ UNCHANGED <<timerReps, ub>>

Cancel(id) ==
    /\ lpc \in UserCode /\ ~ub
    /\ id[1] < 0 /\ id \notin DOMAIN timerReps => CancelTwice
    /\ IF id[1] < 0 THEN CancelRepeating(id) ELSE CancelOnce(id)
    /\ UNCHANGED <<now, timerSeq, nextTimeout, exit, lpc, horizon, pollFrom, wakeAt, runAts,
                   handed>>

Exit == /\ lpc \in UserCode \cup {"poll"} /\ ~ub /\ ~exit
        /\ exit' = TRUE
        /\ UNCHANGED <<now, timers, timerReps, timerSeq, nextTimeout, lpc, horizon, pollFrom,
                       wakeAt, runAts, handed, cancelled, ub>>

-----------------------------------------------------------------------------

Smaller(a, b) == IF a < b THEN a ELSE b

\* loop(): the next loop_once, or the end of the loop, where the timers are cleared
\* before the last loop_once(0).
Loop(next) ==
    IF exit
    THEN /\ timerReps' = [i \in {} |-> {}] /\ timers' = {}
         /\ lpc' = "last" /\ nextTimeout' = next /\ UNCHANGED <<pollFrom, wakeAt>>
    ELSE /\ lpc' = "poll" /\ nextTimeout' = next
         /\ pollFrom' = now /\ wakeAt' = now + Smaller(MaxWait, next)
         /\ UNCHANGED <<timers, timerReps>>

StartLoop == /\ lpc = "setup" /\ ~ub
             /\ Loop(nextTimeout)
             /\ UNCHANGED <<now, timerSeq, exit, horizon, runAts, handed, cancelled, ub>>

\* The poller returns because its wait is over, because a channel is ready, or
\* because exit() or safeCall woke it up.
PollReturns == /\ lpc = "poll"
               /\ lpc' = "io"
               /\ UNCHANGED <<now, timers, timerReps, timerSeq, nextTimeout, exit, horizon,
                              pollFrom, wakeAt, runAts, handed, cancelled, ub>>

\* handleTimeouts, up to its while.
HandleTimeouts == /\ lpc \in {"io", "last"} /\ ~ub
                  /\ lpc' = IF lpc = "last" THEN "over" ELSE "due"
                  /\ horizon' = now
                  /\ UNCHANGED <<now, timers, timerReps, timerSeq, nextTimeout, exit, pollFrom,
                                 wakeAt, runAts, handed, cancelled, ub>>

\* Mutant: the next time is counted from now.
Repeat_Drifts(id, T) ==
    LET rep == timerReps[id]
        at  == now + rep.interval
        e   == [at |-> at, seq |-> timerSeq + 1, rep |-> id]
    IN /\ timerReps' = [timerReps EXCEPT ![id] =
                         [at |-> at, interval |-> rep.interval, timerid |-> Key(e),
                          start |-> rep.start, fired |-> rep.fired + 1]]
       /\ timers' = T \cup {e}
       /\ timerSeq' = timerSeq + 1
       /\ nextTimeout' = Nearest(timers', now)

\* repeatableTimeout up to cb(): the next entry is in timers_ before the callback runs.
Repeat(id, T) ==
    LET rep == timerReps[id]
        at  == rep.at + rep.interval
        e   == [at |-> at, seq |-> timerSeq + 1, rep |-> id]
    IN /\ timerReps' = [timerReps EXCEPT ![id] =
                         [at |-> at, interval |-> rep.interval, timerid |-> Key(e),
                          start |-> rep.start, fired |-> rep.fired + 1]]
       /\ timers' = T \cup {e}
       /\ timerSeq' = timerSeq + 1
       /\ nextTimeout' = Nearest(timers', now)

\* timers_.begin()->first < {now, 1L << 62}
Due(e) == IsFirst(e) /\ e.at <= horizon

Fire(e) ==
    /\ lpc = "due" /\ Due(e)
    /\ lpc' = "cb"
    /\ IF e.rep = NoId
       THEN timers' = timers \ {e} /\ UNCHANGED <<timerReps, timerSeq, nextTimeout>>
       ELSE Repeat(e.rep, timers \ {e})
    /\ UNCHANGED <<now, exit, horizon, pollFrom, wakeAt, runAts, handed, cancelled, ub>>

CallbackReturns ==
    /\ lpc = "cb" /\ ~ub
    /\ lpc' = "due"
    /\ UNCHANGED <<now, timers, timerReps, timerSeq, nextTimeout, exit, horizon, pollFrom,
                   wakeAt, runAts, handed, cancelled, ub>>

\* Mutant: nextTimeout_ is left as the last runAt or repeatableTimeout set it.
RoundEnds_NoRefresh ==
    /\ lpc = "due" /\ ~\E e \in timers : Due(e)
    /\ Loop(nextTimeout)
    /\ UNCHANGED <<now, timerSeq, exit, horizon, runAts, handed, cancelled, ub>>

\* The while of handleTimeouts ends, refreshNearest, and the loop goes on.
RoundEnds ==
    /\ lpc = "due" /\ ~\E e \in timers : Due(e)
    /\ Loop(Nearest(timers, now))
    /\ UNCHANGED <<now, timerSeq, exit, horizon, runAts, handed, cancelled, ub>>

\* The setup ends early enough for the first wait of the poller to end.
Tick == /\ now < (IF lpc = "setup" THEN MaxTime - MaxWait ELSE MaxTime)
        /\ lpc \in {"setup", "poll", "io", "cb"}
        /\ now' = now + 1
        /\ UNCHANGED <<timers, timerReps, timerSeq, nextTimeout, exit, lpc, horizon, pollFrom,
                       wakeAt, runAts, handed, cancelled, ub>>

Next == \/ \E o \in Offsets, i \in Intervals : RunAt(now + o, i)
        \/ \E id \in handed : Cancel(id)
        \/ \E e \in timers : Fire(e)
        \/ Exit \/ StartLoop \/ PollReturns \/ HandleTimeouts \/ CallbackReturns \/ RoundEnds
        \/ Tick

Spec == Init /\ [][Next]_vars

\* The loop's code and the callbacks run on, time passes, and the poller returns
\* once its wait is over; it need not return earlier.
FairSpec == /\ Spec
            /\ WF_vars(HandleTimeouts \/ CallbackReturns \/ RoundEnds \/ \E e \in timers : Fire(e))
            /\ WF_vars(now >= wakeAt /\ PollReturns)
            /\ WF_vars(Tick)

-----------------------------------------------------------------------------

Reps == DOMAIN timerReps

\* Every variable has its type.
TypeOK == /\ now \in Nat /\ timerSeq \in Nat /\ nextTimeout \in Nat /\ exit \in BOOLEAN
          /\ timers \subseteq [at : Nat, seq : Nat, rep : Int \X Nat]
          /\ Reps \subseteq Int \X Nat
          /\ timerReps \in [Reps -> [at : Nat, interval : Nat, timerid : Nat \X Nat,
                                     start : Nat, fired : Nat]]
          /\ lpc \in {"setup", "poll", "io", "due", "cb", "last", "over"}
          /\ horizon \in Nat /\ pollFrom \in Nat /\ wakeAt \in Nat /\ runAts \in Nat
          /\ handed \subseteq Int \X Nat /\ cancelled \subseteq Int \X Nat /\ ub \in BOOLEAN

\* repeatableTimeout and cancel: the pointer in a timer's task always points to a
\* live record of timerReps_, and every live record has exactly one entry in
\* timers_, the one that its timerid names, so a repeating timer neither stops by
\* itself nor fires twice.
RepeatingTimersIntact ==
    /\ \A e \in timers : e.rep # NoId => e.rep \in Reps /\ timerReps[e.rep].timerid = Key(e)
    /\ \A id \in Reps : \E e \in timers : e.rep = id

\* cancel: once it has returned true, no entry is left that would run the task, not
\* even when cancel is called from another callback of the same round or from the
\* timer's own callback.
CancelStops == \A e \in timers : e.rep \notin cancelled /\ Key(e) \notin cancelled

\* handleTimeouts has not run: nextTimeout_ counts from the last runAt before loop(),
\* and neither the time since then nor a cancel has changed it.
FirstRound == horizon = 0

\* handleTimeouts and repeatableTimeout: when the loop goes back to the poller, every
\* repeating timer has run exactly once for each of start, start + interval, ... up to
\* the time of the round: none is skipped and none comes early, however long handlers
\* and callbacks took, and whatever they added and cancelled meanwhile.
CatchesUp ==
    lpc = "poll" /\ ~FirstRound =>
        \A id \in Reps :
            LET r == timerReps[id]
            IN  /\ r.start + r.fired * r.interval > horizon
                /\ r.fired > 0 => r.start + (r.fired - 1) * r.interval <= horizon

\* loop_once: the poller does not wait beyond the nearest timer, and it does wait when
\* nothing is due ("waitMs is the time to wait if there is nothing to handle now").
WaitIsRight ==
    lpc = "poll" /\ ~FirstRound =>
        /\ \A e \in timers : wakeAt <= e.at \/ wakeAt = pollFrom
        /\ (\A e \in timers : e.at > pollFrom) => wakeAt > pollFrom

\* exit: the timers are cleared before the last loop_once, and runAt accepts no more.
QuietAfterExit == lpc \in {"last", "over"} => timers = {} /\ Reps = {}

\* cancel of a timer that has fired or was cancelled is ignored.
CancelOfGoneTimerIgnored == ~ub

\* A timer that is due fires, is cancelled, or the loop is told to exit.
DueTimerFires ==
    \A s \in 1 .. (MaxRunAt * 2 + MaxTime) :
        (\E e \in timers : e.seq = s /\ e.at <= now) /\ lpc # "setup"
            ~> exit \/ ~\E e \in timers : e.seq = s

-----------------------------------------------------------------------------
(* The strengthening of the invariants above that every step preserves.     *)

IdType == Int \X Nat
RepType == [at : Int, interval : Int, timerid : IdType, start : Int, fired : Nat]

Shapes == /\ timerSeq \in Nat /\ timers \subseteq [at : Int, seq : Nat, rep : IdType]
          /\ Reps \subseteq IdType /\ timerReps \in [Reps -> RepType]
          /\ handed \subseteq IdType /\ cancelled \subseteq IdType

\* Sequence numbers are given out once: to an entry, or to the id of a repeating timer.
SeqsUnique ==
    /\ \A e \in timers : e.seq \in 1 .. timerSeq
    /\ \A e, f \in timers : e.seq = f.seq => e = f
    /\ \A id \in handed : id[2] \in 1 .. timerSeq
    /\ Reps \subseteq handed /\ cancelled \subseteq handed
    /\ Reps \cap cancelled = {}
    /\ \A id \in Reps \cup cancelled : \A e \in timers : e.seq # id[2]
    /\ \A id \in handed : \A e \in timers : e.rep # NoId => e.seq # id[2]

\* The n-th run is asked for at start + n * interval.
NoDrift == \A id \in Reps : timerReps[id].at = timerReps[id].start
                                               + timerReps[id].fired * timerReps[id].interval

ExitIsFinal == lpc \in {"last", "over"} => exit

IInv == /\ Shapes /\ SeqsUnique /\ ExitIsFinal
        /\ RepeatingTimersIntact /\ CancelStops /\ NoDrift /\ QuietAfterExit

\* With it, for CatchesUp: the time of a round does not pass the clock, a record's time is
\* that of its entry and its last run was due by then, and a round leaves nothing that is
\* due.
RepsOnTime ==
    /\ now \in Nat /\ horizon \in Nat /\ horizon <= now /\ (lpc = "setup" => FirstRound)
    /\ \A e \in timers : e.at \in Nat
    /\ \A id \in Reps : LET r == timerReps[id]
                        IN  /\ r.interval \in Nat /\ r.at = r.timerid[1]
                            /\ r.fired > 0 => r.at - r.interval <= horizon
    /\ lpc = "poll" /\ ~FirstRound => \A e \in timers : e.at > horizon
=============================================================================
