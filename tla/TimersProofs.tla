---------------------------- MODULE TimersProofs ----------------------------
(***************************************************************************)
(* Proofs about Timers for any offsets, intervals and bounds: repeating    *)
(* timers keep their record and their one entry and run once for every     *)
(* interval, cancel is final, no timer survives exit(), and the poller     *)
(* waits until the first timer is due.                                     *)
(***************************************************************************)
EXTENDS Timers, WellFoundedInduction, TLAPS

\* The product that NoDrift compares before and after one more run.
LEMMA OneMoreRun ==
    ASSUME NEW a \in Int, NEW s \in Int, NEW n \in Nat, NEW i \in Int, a = s + n * i
    PROVE  a + i = s + (n + 1) * i
<1>1. (n + 1) * i = n * i + i
  OBVIOUS
<1> QED BY <1>1

Core == Shapes /\ SeqsUnique /\ RepeatingTimersIntact /\ NoDrift

\* runAt(milli, task, 0): a new entry with a new sequence number.
LEMMA OnceStep ==
    ASSUME Core, NEW milli \in Int, RunAtOnce(milli), cancelled' = cancelled
    PROVE  Core'
<1> DEFINE n == [at |-> milli, seq |-> timerSeq + 1, rep |-> NoId]
<1> USE DEF Core
<1>1. /\ timers' = timers \cup {n} /\ timerSeq' = timerSeq + 1 /\ timerReps' = timerReps
      /\ handed' = handed \cup {<<milli, timerSeq + 1>>}
  BY DEF RunAtOnce
<1>2. n \in [at : Int, seq : Nat, rep : IdType] /\ n.seq = timerSeq + 1 /\ n.rep = NoId
  BY DEF Shapes, IdType, NoId
<1>3. Shapes'
  BY <1>1, <1>2 DEF Shapes, Reps, IdType
<1>4. SeqsUnique'
  BY <1>1, <1>2 DEF SeqsUnique, Shapes, Reps, IdType
<1>5. RepeatingTimersIntact' /\ NoDrift'
  BY <1>1, <1>2 DEF RepeatingTimersIntact, NoDrift, Reps, Key
<1> QED BY <1>3, <1>4, <1>5

\* runAt(milli, task, interval): a new record and its entry.
LEMMA RepeatingStep ==
    ASSUME Core, NEW milli \in Int, NEW interval \in Int, RunAtRepeating(milli, interval),
           cancelled' = cancelled
    PROVE  Core'
<1> DEFINE id  == <<-milli, timerSeq + 1>>
           rep == [at |-> milli, interval |-> interval, timerid |-> <<milli, timerSeq + 2>>,
                   start |-> milli, fired |-> 0]
           n   == [at |-> milli, seq |-> timerSeq + 2, rep |-> id]
<1> USE DEF Core
<1>1. /\ timers' = timers \cup {n} /\ timerSeq' = timerSeq + 2 /\ handed' = handed \cup {id}
      /\ timerReps' = [i \in Reps \cup {id} |-> IF i = id THEN rep ELSE timerReps[i]]
  BY DEF RunAtRepeating, Reps
<1>2. /\ n \in [at : Int, seq : Nat, rep : IdType] /\ n.seq = timerSeq + 2 /\ n.rep = id
      /\ id \in IdType /\ id[2] = timerSeq + 1 /\ id # NoId
      /\ rep \in RepType /\ Key(n) = rep.timerid
  BY DEF Shapes, IdType, RepType, NoId, Key
<1>3. id \notin Reps /\ id \notin cancelled /\ Reps' = Reps \cup {id}
  BY <1>1, <1>2 DEF SeqsUnique, Shapes, Reps
<1>4. Shapes'
  BY <1>1, <1>2, <1>3 DEF Shapes, Reps
<1>5. SeqsUnique'
  BY <1>1, <1>2, <1>3 DEF SeqsUnique, Shapes, IdType
<1>6. RepeatingTimersIntact'
  BY <1>1, <1>2, <1>3 DEF RepeatingTimersIntact, Key
<1>7. NoDrift'
  BY <1>1, <1>2, <1>3 DEF NoDrift, Shapes, RepType
<1> QED BY <1>4, <1>5, <1>6, <1>7

\* cancel of a repeating timer takes its record and its one entry.
LEMMA CancelRepeatingStep ==
    ASSUME Core, NEW id \in handed, CancelRepeating(id),
           timerSeq' = timerSeq, handed' = handed
    PROVE  Core'
<1> USE DEF Core
<1>1. CASE id \notin Reps
  BY <1>1 DEF CancelRepeating, Shapes, SeqsUnique, RepeatingTimersIntact, NoDrift, Reps
<1>2. CASE id \in Reps
  <2>1. /\ timers' = {e \in timers : Key(e) # timerReps[id].timerid}
        /\ timerReps' = [i \in Reps \ {id} |-> timerReps[i]]
        /\ cancelled' = cancelled \cup {id}
    BY <1>2 DEF CancelRepeating, Reps
  <2>2. Reps' = Reps \ {id} /\ \A i \in Reps' : timerReps'[i] = timerReps[i]
    BY <2>1 DEF Reps
  <2>3. Shapes'
    BY <1>2, <2>1, <2>2 DEF Shapes, Reps
  <2>4. SeqsUnique'
    BY <1>2, <2>1, <2>2 DEF SeqsUnique
  <2>5. ASSUME NEW e \in timers'  PROVE e.rep # id
    BY <1>2, <2>1, <2>5 DEF RepeatingTimersIntact, SeqsUnique, Shapes, IdType, NoId
  <2>6. \A e \in timers' : e.rep # NoId => e.rep \in Reps' /\ timerReps'[e.rep].timerid = Key(e)
    BY <2>1, <2>2, <2>5 DEF RepeatingTimersIntact
  <2>7. ASSUME NEW i \in Reps'  PROVE \E e \in timers' : e.rep = i
    <3>1. PICK e \in timers : e.rep = i
      BY <2>2, <2>7 DEF RepeatingTimersIntact
    <3>2. PICK f \in timers : f.rep = id
      BY <1>2 DEF RepeatingTimersIntact
    <3>3. i # NoId /\ id # NoId
      BY <1>2, <2>2, <2>7 DEF SeqsUnique, NoId
    <3>4. Key(e) = timerReps[i].timerid /\ Key(f) = timerReps[id].timerid
      BY <3>1, <3>2, <3>3 DEF RepeatingTimersIntact
    <3>5. e # f
      BY <2>2, <2>7, <3>1, <3>2
    <3>6. Key(e) # Key(f)
      BY <3>5 DEF Key, SeqsUnique
    <3> QED BY <2>1, <3>1, <3>4, <3>6
  <2>8. RepeatingTimersIntact'
    BY <2>6, <2>7 DEF RepeatingTimersIntact, Key
  <2>9. NoDrift'
    BY <2>2 DEF NoDrift
  <2> QED BY <2>3, <2>4, <2>8, <2>9
<1> QED BY <1>1, <1>2

\* cancel of any other id takes at most the entry of a one-shot timer.
LEMMA CancelOnceStep ==
    ASSUME Core, NEW id \in handed, CancelOnce(id), timerSeq' = timerSeq, handed' = handed
    PROVE  Core'
<1> USE DEF Core
<1>1. /\ timers' = {e \in timers : Key(e) # id} /\ timerReps' = timerReps
      /\ cancelled' = IF timers' = timers THEN cancelled ELSE cancelled \cup {id}
  BY DEF CancelOnce
<1>2. Reps' = Reps
  BY <1>1 DEF Reps
<1>3. \A e \in timers : Key(e) = id => e.seq = id[2] /\ e.rep = NoId
  BY DEF Key, SeqsUnique
<1>4. Shapes'
  BY <1>1, <1>2 DEF Shapes
<1>5. CASE timers' = timers
  BY <1>1, <1>2, <1>4, <1>5 DEF SeqsUnique, RepeatingTimersIntact, NoDrift
<1>6. CASE timers' # timers
  <2>1. PICK e \in timers : Key(e) = id
    BY <1>1, <1>6
  <2>2. id \notin Reps /\ \A f \in timers' : f.seq # id[2]
    BY <1>1, <1>3, <2>1 DEF SeqsUnique
  <2>3. SeqsUnique'
    BY <1>1, <1>2, <1>6, <2>2 DEF SeqsUnique
  <2>4. \A f \in timers : f.rep # NoId => f \in timers'
    BY <1>1, <1>3
  <2>5. NoId \notin Reps
    BY DEF SeqsUnique, NoId
  <2>6. RepeatingTimersIntact'
    BY <1>1, <1>2, <2>4, <2>5 DEF RepeatingTimersIntact, Key
  <2>7. NoDrift'
    BY <1>1, <1>2 DEF NoDrift
  <2> QED BY <1>4, <2>3, <2>6, <2>7
<1> QED BY <1>5, <1>6

\* Firing a one-shot timer takes its entry; firing a repeating timer replaces its
\* entry by the next one and moves the record along.
LEMMA FireStep ==
    ASSUME Core, NEW e \in timers, Fire(e)
    PROVE  Core'
<1> USE DEF Core
<1>0. handed' = handed /\ cancelled' = cancelled
  BY DEF Fire
<1>1. CASE e.rep = NoId
  <2>1. timers' = timers \ {e} /\ timerReps' = timerReps /\ timerSeq' = timerSeq
    BY <1>1 DEF Fire
  <2>2. Reps' = Reps /\ NoId \notin Reps
    BY <2>1 DEF Reps, SeqsUnique, NoId
  <2>3. Shapes' /\ SeqsUnique' /\ NoDrift'
    BY <1>0, <2>1, <2>2 DEF Shapes, SeqsUnique, NoDrift
  <2>4. RepeatingTimersIntact'
    BY <1>1, <2>1, <2>2 DEF RepeatingTimersIntact, Key
  <2> QED BY <2>3, <2>4
<1>2. CASE e.rep # NoId
  <2> DEFINE id  == e.rep
             rep == timerReps[id]
             at  == rep.at + rep.interval
             n   == [at |-> at, seq |-> timerSeq + 1, rep |-> id]
             new == [at |-> at, interval |-> rep.interval, timerid |-> Key(n),
                     start |-> rep.start, fired |-> rep.fired + 1]
  <2>1. id \in Reps /\ id \in IdType /\ rep \in RepType
    BY <1>2 DEF RepeatingTimersIntact, Shapes
  <2>2. /\ timers' = (timers \ {e}) \cup {n} /\ timerSeq' = timerSeq + 1
        /\ timerReps' = [timerReps EXCEPT ![id] = new]
    BY <1>2 DEF Fire, Repeat
  <2>3. /\ n \in [at : Int, seq : Nat, rep : IdType] /\ n.seq = timerSeq + 1 /\ n.rep = id
        /\ Key(n) \in IdType
    BY <2>1 DEF Shapes, IdType, RepType, Key
  <2>4. /\ new \in RepType /\ new.timerid = Key(n) /\ new.at = rep.at + rep.interval
        /\ new.fired = rep.fired + 1 /\ new.start = rep.start /\ new.interval = rep.interval
    BY <2>1, <2>3 DEF RepType
  <2>5. /\ Reps' = Reps /\ timerReps'[id] = new
        /\ \A i \in Reps \ {id} : timerReps'[i] = timerReps[i]
    BY <2>1, <2>2 DEF Reps, Shapes
  <2>6. Shapes'
    BY <1>0, <2>2, <2>3, <2>4, <2>5 DEF Shapes
  <2>7. SeqsUnique'
    BY <1>0, <2>2, <2>3, <2>5 DEF SeqsUnique, Shapes, IdType
  <2>8. ASSUME NEW f \in timers, f # e  PROVE f.rep # id
    <3>1. Key(e) = timerReps[id].timerid
      BY <1>2 DEF RepeatingTimersIntact
    <3>2. Key(f) # Key(e)
      BY <2>8 DEF SeqsUnique, Key
    <3> QED BY <1>2, <3>1, <3>2 DEF RepeatingTimersIntact
  <2>9. RepeatingTimersIntact'
    <3>1. \A f \in timers' : f.rep # NoId => f.rep \in Reps' /\ timerReps'[f.rep].timerid = Key(f)
      <4> SUFFICES ASSUME NEW f \in timers', f.rep # NoId
                   PROVE  f.rep \in Reps' /\ timerReps'[f.rep].timerid = Key(f)
        OBVIOUS
      <4>1. CASE f = n
        BY <2>1, <2>3, <2>4, <2>5, <4>1
      <4>2. CASE f \in timers /\ f # e
        <5>1. f.rep \in Reps \ {id} /\ timerReps[f.rep].timerid = Key(f)
          BY <2>8, <4>2 DEF RepeatingTimersIntact
        <5> QED BY <2>5, <5>1
      <4> QED BY <2>2, <4>1, <4>2
    <3>2. \A i \in Reps' : \E f \in timers' : f.rep = i
      BY <2>1, <2>2, <2>3, <2>5 DEF RepeatingTimersIntact
    <3> QED BY <3>1, <3>2 DEF RepeatingTimersIntact, Key
  <2>10. NoDrift'
    <3>1. rep.at = rep.start + rep.fired * rep.interval
      BY <2>1 DEF NoDrift
    <3>2. new.at = new.start + new.fired * new.interval
      BY <2>1, <2>4, <3>1, OneMoreRun DEF RepType
    <3> QED BY <2>5, <3>2 DEF NoDrift
  <2> QED BY <2>6, <2>7, <2>9, <2>10
<1> QED BY <1>1, <1>2

\* Nothing that was cancelled has an entry left.
LEMMA CoreCancelStops == Core => CancelStops
<1> SUFFICES ASSUME Core, NEW e \in timers
             PROVE  e.rep \notin cancelled /\ Key(e) \notin cancelled
  BY DEF CancelStops
<1>1. Key(e) \notin cancelled
  BY DEF Core, SeqsUnique, Key
<1>2. NoId \notin cancelled
  BY DEF Core, SeqsUnique, NoId
<1>3. e.rep # NoId => e.rep \in Reps
  BY DEF Core, RepeatingTimersIntact
<1> QED BY <1>1, <1>2, <1>3 DEF Core, SeqsUnique

\* The steps that leave timers_ and timerReps_ alone.
LEMMA CoreUnchanged ==
    ASSUME Core, UNCHANGED <<timers, timerReps, timerSeq, handed, cancelled>>
    PROVE  Core'
BY DEF Core, Shapes, SeqsUnique, RepeatingTimersIntact, NoDrift, Reps, Key

\* loop() keeps the timers, or clears them all.
LEMMA LoopStep ==
    ASSUME Core, NEW next, Loop(next), UNCHANGED <<timerSeq, handed, cancelled>>
    PROVE  Core'
<1>1. CASE UNCHANGED <<timers, timerReps>>
  BY <1>1, CoreUnchanged
<1>2. CASE timers' = {} /\ timerReps' = [i \in {} |-> {}]
  <2>1. Reps' = {}
    BY <1>2 DEF Reps
  <2> QED BY <1>2, <2>1 DEF Core, Shapes, SeqsUnique, RepeatingTimersIntact, NoDrift
<1> QED BY <1>1, <1>2 DEF Loop

\* Every step preserves the structure of the timers.
LEMMA CoreStep == now \in Nat /\ Core /\ [Next]_vars => Core'
<1> SUFFICES ASSUME now \in Nat, Core, [Next]_vars PROVE Core'
  OBVIOUS
<1>1. ASSUME NEW o \in Offsets, NEW i \in Intervals, RunAt(now + o, i)  PROVE Core'
  <2>1. now + o \in Int /\ i \in Int
    BY TimersAssumption
  <2>2. CASE exit
    BY <1>1, <2>2, CoreUnchanged DEF RunAt
  <2>3. CASE ~exit /\ i = 0
    BY <1>1, <2>1, <2>3, OnceStep DEF RunAt
  <2>4. CASE ~exit /\ i # 0
    BY <1>1, <2>1, <2>4, RepeatingStep DEF RunAt
  <2> QED BY <2>2, <2>3, <2>4
<1>2. ASSUME NEW id \in handed, Cancel(id)  PROVE Core'
  BY <1>2, CancelRepeatingStep, CancelOnceStep DEF Cancel
<1>3. ASSUME NEW e \in timers, Fire(e)  PROVE Core'
  BY <1>3, FireStep
<1>4. CASE StartLoop \/ RoundEnds
  BY <1>4, LoopStep DEF StartLoop, RoundEnds
<1>5. CASE Exit \/ PollReturns \/ HandleTimeouts \/ CallbackReturns \/ Tick
  BY <1>5, CoreUnchanged DEF Exit, PollReturns, HandleTimeouts, CallbackReturns, Tick
<1>6. CASE UNCHANGED vars
  BY <1>6, CoreUnchanged DEF vars
<1> QED BY <1>1, <1>2, <1>3, <1>4, <1>5, <1>6 DEF Next

\* Time is a natural number and never runs backwards.
LEMMA NowStep == now \in Nat /\ [Next]_vars => now' \in Nat
<1> SUFFICES ASSUME now \in Nat, [Next]_vars PROVE now' \in Nat
  OBVIOUS
<1>1. CASE Tick
  BY <1>1 DEF Tick
<1>2. CASE UNCHANGED now
  BY <1>2
<1>3. ASSUME NEW o \in Offsets, NEW i \in Intervals, RunAt(now + o, i)  PROVE UNCHANGED now
  BY <1>3 DEF RunAt
<1>4. ASSUME NEW id \in handed, Cancel(id)  PROVE UNCHANGED now
  BY <1>4 DEF Cancel
<1>5. ASSUME NEW e \in timers, Fire(e)  PROVE UNCHANGED now
  BY <1>5 DEF Fire
<1>6. CASE Exit \/ StartLoop \/ PollReturns \/ HandleTimeouts \/ CallbackReturns \/ RoundEnds
  BY <1>6 DEF Exit, StartLoop, PollReturns, HandleTimeouts, CallbackReturns, RoundEnds
<1> QED BY <1>1, <1>2, <1>3, <1>4, <1>5, <1>6 DEF Next, vars

\* After the loop has ended exit_ is set, so runAt adds nothing and nothing fires.
LEMMA QuietStep ==
    ExitIsFinal /\ QuietAfterExit /\ [Next]_vars => ExitIsFinal' /\ QuietAfterExit'
<1> SUFFICES ASSUME ExitIsFinal, QuietAfterExit, [Next]_vars
             PROVE  ExitIsFinal' /\ QuietAfterExit'
  OBVIOUS
<1> USE DEF ExitIsFinal, QuietAfterExit, Reps
<1>1. ASSUME NEW o \in Offsets, NEW i \in Intervals, RunAt(now + o, i)
      PROVE  ExitIsFinal' /\ QuietAfterExit'
  BY <1>1 DEF RunAt
<1>2. ASSUME NEW id \in handed, Cancel(id)  PROVE ExitIsFinal' /\ QuietAfterExit'
  BY <1>2 DEF Cancel, CancelRepeating, CancelOnce
<1>3. ASSUME NEW e \in timers, Fire(e)  PROVE ExitIsFinal' /\ QuietAfterExit'
  BY <1>3 DEF Fire
<1>4. CASE StartLoop \/ RoundEnds
  BY <1>4 DEF StartLoop, RoundEnds, Loop
<1>5. CASE Exit \/ PollReturns \/ HandleTimeouts \/ CallbackReturns \/ Tick
  BY <1>5 DEF Exit, PollReturns, HandleTimeouts, CallbackReturns, Tick
<1>6. CASE UNCHANGED vars
  BY <1>6 DEF vars
<1> QED BY <1>1, <1>2, <1>3, <1>4, <1>5, <1>6 DEF Next

-----------------------------------------------------------------------------

Inductive == now \in Nat /\ Core /\ ExitIsFinal /\ QuietAfterExit

\* The invariant holds when the base is created.
LEMMA InitInductive == Init => Inductive
<1> SUFFICES ASSUME Init PROVE Inductive
  OBVIOUS
<1>1. Reps = {} /\ timers = {} /\ handed = {} /\ cancelled = {} /\ timerSeq = 0
  BY DEF Init, Reps
<1>2. timerReps \in [Reps -> RepType]
  BY <1>1 DEF Init
<1>3. Core
  BY <1>1, <1>2 DEF Core, Shapes, SeqsUnique, RepeatingTimersIntact, NoDrift
<1> QED BY <1>1, <1>3, TimersAssumption DEF Init, Inductive, ExitIsFinal, QuietAfterExit

\* The invariant of runAt, cancel, handleTimeouts, repeatableTimeout and loop().
THEOREM TimersInvariant == Spec => []IInv
<1>1. Inductive /\ [Next]_vars => Inductive'
  BY CoreStep, NowStep, QuietStep DEF Inductive
<1>2. Inductive => IInv
  BY CoreCancelStops DEF Inductive, Core, IInv
<1> QED BY InitInductive, <1>1, <1>2, PTL DEF Spec

\* A repeating timer has one record and one entry until it is cancelled or the loop
\* ends, and no entry points to a record that is gone.
THEOREM TimersIntact == Spec => []RepeatingTimersIntact
<1>1. IInv => RepeatingTimersIntact
  BY DEF IInv
<1> QED BY <1>1, TimersInvariant, PTL

\* cancel is final.
THEOREM TimersCancelStops == Spec => []CancelStops
<1>1. IInv => CancelStops
  BY DEF IInv
<1> QED BY <1>1, TimersInvariant, PTL

\* No timer survives the end of the loop.
THEOREM TimersQuietAfterExit == Spec => []QuietAfterExit
<1>1. IInv => QuietAfterExit
  BY DEF IInv
<1> QED BY <1>1, TimersInvariant, PTL

-----------------------------------------------------------------------------
(* How long the poller waits.                                               *)

\* A set of natural numbers has a least member.
LEMMA LeastNat ==
    ASSUME NEW T, T \subseteq Nat, T # {}
    PROVE  \E m \in T : \A k \in T : m <= k
<1> DEFINE R == OpToRel(<, Nat)
<1>1. IsWellFoundedOn(R, Nat)
  BY NatLessThanWellFounded
<1>2. R = {ss \in Nat \X Nat : ss[1] < ss[2]}
  BY DEF OpToRel
<1> HIDE DEF R
<1>3. PICK m \in T : \A k \in T : ~(<<k, m>> \in R)
  BY <1>1, WFMin, Zenon
<1>4. ASSUME NEW k \in T  PROVE m <= k
  <2>1. ~(k < m)
    BY <1>2, <1>3
  <2> QED BY <2>1
<1> QED BY <1>4

\* timers_.begin() exists: times first, then sequence numbers.
LEMMA FirstExists ==
    ASSUME NEW T, T # {}, \A e \in T : e.at \in Nat /\ e.seq \in Nat,
           \A e, f \in T : e.seq = f.seq => e = f
    PROVE  \E e \in T : \A f \in T \ {e} : Before(e, f)
<1> DEFINE A == {e.at : e \in T}
<1>1. PICK a \in A : \A b \in A : a <= b
  <2>1. A \subseteq Nat /\ A # {}
    OBVIOUS
  <2> HIDE DEF A
  <2> QED BY <2>1, LeastNat
<1>2. \A f \in T : a <= f.at
  BY <1>1
<1> DEFINE S == {e.seq : e \in {f \in T : f.at = a}}
<1>3. PICK s \in S : \A b \in S : s <= b
  <2>1. S \subseteq Nat /\ S # {}
    BY <1>1
  <2> HIDE DEF S
  <2> QED BY <2>1, LeastNat
<1>4. PICK e \in T : e.at = a /\ e.seq = s
  BY <1>3
<1>5. \A f \in T : f.at = a => s <= f.seq
  BY <1>3
<1>6. ASSUME NEW f \in T \ {e}  PROVE Before(e, f)
  <2>1. /\ e.at \in Nat /\ f.at \in Nat /\ e.seq \in Nat /\ f.seq \in Nat
        /\ e.at <= f.at /\ (f.at = e.at => e.seq <= f.seq) /\ e.seq # f.seq
    BY <1>2, <1>4, <1>5
  <2> QED BY <2>1 DEF Before
<1> QED BY <1>6

\* A difference that fits in an int is what it was after the conversion.
LEMMA ToIntFits ==
    ASSUME NEW x \in Int, 0 - (IntMax + 1) <= x, x <= IntMax
    PROVE  ToInt(x) = x
<1>1. IntMax \in Nat \ {0}
  BY TimersAssumption
<1> DEFINE y == x + IntMax + 1
           m == 2 * (IntMax + 1)
<1>2. y \in Nat /\ m \in Nat \ {0} /\ y < m
  BY <1>1
<1>3. y % m = y
  <2> HIDE DEF y, m
  <2> QED BY <1>2
<1> QED BY <1>1, <1>3 DEF ToInt

\* No time the program computes with is more than an int of milliseconds away: runAt
\* is called with offsets and intervals that fit, and the program runs as long.
TimesFit == /\ \A o \in Offsets \cup Intervals : o <= IntMax
            /\ Start <= MaxTime /\ MaxTime - Start <= IntMax + 1

\* Every entry is at most an int of milliseconds ahead, and none is older than the
\* program; a repeating timer's record has the time of its entry.
TimesInRange ==
    /\ now \in Start .. MaxTime
    /\ horizon \in Nat /\ horizon <= now /\ (lpc = "setup" => horizon = 0)
    /\ \A e \in timers : e.at \in Nat /\ Start <= e.at /\ e.at <= now + IntMax
    /\ \A id \in Reps : /\ timerReps[id].at = timerReps[id].timerid[1]
                        /\ timerReps[id].interval \in Intervals

\* What the poller is given for an entry set T at time t.
LEMMA NearestIsRight ==
    ASSUME NEW T, NEW t \in Int, \A e \in T : e.at \in Nat /\ e.seq \in Nat,
           \A e, f \in T : e.seq = f.seq => e = f,
           \A e \in T : 0 - (IntMax + 1) <= e.at - t /\ e.at - t <= IntMax
    PROVE  /\ Nearest(T, t) \in Nat
           /\ \A e \in T : t + Nearest(T, t) <= e.at \/ Nearest(T, t) = 0
           /\ (\A e \in T : e.at > t) => Nearest(T, t) > 0
<1>1. CASE T = {}
  <2>1. NoTimer \in Nat /\ NoTimer > 0
    BY TimersAssumption DEF NoTimer
  <2> QED BY <1>1, <2>1 DEF Nearest
<1>2. CASE T # {}
  <2> DEFINE first == CHOOSE e \in T : \A f \in T \ {e} : Before(e, f)
             diff  == first.at - t
  <2>1. \E e \in T : \A f \in T \ {e} : Before(e, f)
    BY <1>2, FirstExists
  <2>2. first \in T /\ \A f \in T \ {first} : Before(first, f)
    BY <2>1
  <2>3. Nearest(T, t) = IF ToInt(first.at - t) < 0 THEN 0 ELSE ToInt(first.at - t)
    BY <1>2 DEF Nearest
  <2> HIDE DEF first
  <2>4. first.at \in Nat /\ diff \in Int /\ ToInt(diff) = diff
    BY <2>2, ToIntFits
  <2>5. \A f \in T : first.at <= f.at
    BY <2>2, <2>4 DEF Before
  <2>6. Nearest(T, t) = IF diff < 0 THEN 0 ELSE diff
    BY <2>3, <2>4
  <2>7. CASE diff < 0
    BY <2>2, <2>4, <2>6, <2>7
  <2>8. CASE ~(diff < 0)
    BY <2>2, <2>4, <2>5, <2>6, <2>8
  <2> QED BY <2>7, <2>8
<1> QED BY <1>1, <1>2

\* The times stay in range.
LEMMA RangeStep ==
    ASSUME TimesFit, Core, TimesInRange, [Next]_vars
    PROVE  TimesInRange'
<1> USE TimersAssumption
<1>1. now \in Nat /\ now <= MaxTime /\ Start <= now
  BY DEF TimesInRange
<1>2. CASE Tick
  BY <1>1, <1>2 DEF Tick, TimesInRange, Reps
<1>3. ASSUME UNCHANGED <<now, timers, timerReps>>,
             horizon' \in {horizon, now}, lpc' = "setup" => lpc = "setup" /\ horizon' = horizon
      PROVE  TimesInRange'
  BY <1>1, <1>3 DEF TimesInRange, Reps
<1>4. CASE Exit \/ PollReturns \/ HandleTimeouts \/ CallbackReturns \/ UNCHANGED vars
  BY <1>3, <1>4 DEF Exit, PollReturns, HandleTimeouts, CallbackReturns, vars
<1>5. CASE StartLoop \/ RoundEnds
  <2>1. /\ UNCHANGED <<now, horizon>> /\ lpc' # "setup"
        /\ UNCHANGED <<timers, timerReps>> \/ (timers' = {} /\ timerReps' = [i \in {} |-> {}])
    BY <1>5 DEF StartLoop, RoundEnds, Loop
  <2>2. CASE UNCHANGED <<timers, timerReps>>
    BY <2>1, <2>2, <1>3
  <2>3. CASE timers' = {} /\ timerReps' = [i \in {} |-> {}]
    <3>1. Reps' = {}
      BY <2>3 DEF Reps
    <3> QED BY <2>1, <2>3, <3>1 DEF TimesInRange
  <2> QED BY <2>1, <2>2, <2>3
<1>6. ASSUME NEW id \in handed, Cancel(id)  PROVE TimesInRange'
  <2>1. UNCHANGED <<now, horizon, lpc>> /\ timers' \subseteq timers
    BY <1>6 DEF Cancel, CancelRepeating, CancelOnce
  <2>2. /\ Reps' \subseteq Reps /\ \A i \in Reps' : timerReps'[i] = timerReps[i]
    BY <1>6 DEF Cancel, CancelRepeating, CancelOnce, Reps
  <2> QED BY <2>1, <2>2 DEF TimesInRange
<1>7. ASSUME NEW o \in Offsets, NEW i \in Intervals, RunAt(now + o, i)  PROVE TimesInRange'
  <2>1. UNCHANGED <<now, horizon, lpc>> /\ now + o \in Nat /\ o <= IntMax /\ o \in Nat
    BY <1>1, <1>7 DEF RunAt, TimesFit
  <2>2. CASE exit
    BY <1>7, <2>1, <2>2, <1>3 DEF RunAt
  <2>3. CASE ~exit /\ i = 0
    <3>1. /\ timers' = timers \cup {[at |-> now + o, seq |-> timerSeq + 1, rep |-> NoId]}
          /\ timerReps' = timerReps
      BY <1>7, <2>3 DEF RunAt, RunAtOnce
    <3> QED BY <1>1, <2>1, <3>1 DEF TimesInRange, Reps
  <2>4. CASE ~exit /\ i # 0
    <3> DEFINE id == <<-(now + o), timerSeq + 1>>
               rep == [at |-> now + o, interval |-> i, timerid |-> <<now + o, timerSeq + 2>>,
                       start |-> now + o, fired |-> 0]
               n == [at |-> now + o, seq |-> timerSeq + 2, rep |-> id]
    <3>1. /\ timers' = timers \cup {n}
          /\ timerReps' = [j \in Reps \cup {id} |-> IF j = id THEN rep ELSE timerReps[j]]
      BY <1>7, <2>4 DEF RunAt, RunAtRepeating, Reps
    <3>2. n.at = now + o /\ rep.at = rep.timerid[1] /\ rep.interval = i
      OBVIOUS
    <3>3. Reps' = Reps \cup {id}
      BY <3>1 DEF Reps
    <3> HIDE DEF n, rep, id
    <3>4. \A e \in timers' : e.at \in Nat /\ Start <= e.at /\ e.at <= now' + IntMax
      BY <1>1, <2>1, <3>1, <3>2 DEF TimesInRange
    <3>5. \A j \in Reps' : /\ timerReps'[j].at = timerReps'[j].timerid[1]
                           /\ timerReps'[j].interval \in Intervals
      BY <3>1, <3>2, <3>3 DEF TimesInRange
    <3> QED BY <2>1, <3>4, <3>5 DEF TimesInRange
  <2> QED BY <2>2, <2>3, <2>4
<1>8. ASSUME NEW e \in timers, Fire(e)  PROVE TimesInRange'
  <2>1. UNCHANGED <<now, horizon>> /\ lpc' = "cb" /\ e.at <= horizon
    BY <1>8 DEF Fire, Due
  <2>2. CASE e.rep = NoId
    <3>1. timers' \subseteq timers /\ timerReps' = timerReps
      BY <1>8, <2>2 DEF Fire
    <3> QED BY <2>1, <3>1 DEF TimesInRange, Reps
  <2>3. CASE e.rep # NoId
    <3> DEFINE id  == e.rep
               rep == timerReps[id]
               at  == rep.at + rep.interval
               n   == [at |-> at, seq |-> timerSeq + 1, rep |-> id]
               new == [at |-> at, interval |-> rep.interval, timerid |-> Key(n),
                       start |-> rep.start, fired |-> rep.fired + 1]
    <3>1. /\ timers' = (timers \ {e}) \cup {n} /\ timerReps' = [timerReps EXCEPT ![id] = new]
      BY <1>8, <2>3 DEF Fire, Repeat
    <3>2. id \in Reps /\ rep.timerid = Key(e)
      BY <2>3 DEF Core, RepeatingTimersIntact
    <3>3. rep.at = e.at /\ rep.interval \in Nat /\ rep.interval <= IntMax
          /\ rep.interval \in Intervals
      <4>1. rep.at = rep.timerid[1] /\ rep.interval \in Intervals
        BY <3>2 DEF TimesInRange
      <4>2. Key(e)[1] = e.at
        BY DEF Key
      <4>3. rep.interval \in Nat /\ rep.interval <= IntMax
        BY <4>1 DEF TimesFit
      <4> HIDE DEF rep
      <4> QED BY <3>2, <4>1, <4>2, <4>3
    <3>4. n.at = at /\ new.at = new.timerid[1] /\ new.interval = rep.interval
      BY DEF Key
    <3>5. Reps' = Reps
      BY <3>1 DEF Reps
    <3>6. at \in Nat /\ Start <= at /\ at <= now + IntMax
      BY <1>1, <2>1, <3>3 DEF TimesInRange
    <3>7. timerReps'[id] = new /\ \A j \in Reps \ {id} : timerReps'[j] = timerReps[j]
      BY <3>1, <3>2 DEF Reps
    <3> HIDE DEF n, new, at, rep, id
    <3>8. \A f \in timers' : f.at \in Nat /\ Start <= f.at /\ f.at <= now' + IntMax
      BY <2>1, <3>1, <3>4, <3>6 DEF TimesInRange
    <3>9. \A j \in Reps' : /\ timerReps'[j].at = timerReps'[j].timerid[1]
                           /\ timerReps'[j].interval \in Intervals
      BY <3>3, <3>4, <3>5, <3>7 DEF TimesInRange
    <3> QED BY <2>1, <3>8, <3>9 DEF TimesInRange
  <2> QED BY <2>2, <2>3
<1> QED BY <1>2, <1>4, <1>5, <1>6, <1>7, <1>8 DEF Next

\* The wait is right when it begins, and timers_ does not change while it lasts.
LEMMA WaitStep ==
    ASSUME TimesFit, Core, TimesInRange, WaitIsRight, [Next]_vars
    PROVE  WaitIsRight'
<1> USE TimersAssumption
<1>1. ASSUME lpc' # "poll"  PROVE WaitIsRight'
  BY <1>1 DEF WaitIsRight
<1>2. ASSUME UNCHANGED <<lpc, timers, horizon, pollFrom, wakeAt>>  PROVE WaitIsRight'
  BY <1>2 DEF WaitIsRight, FirstRound
<1>3. CASE Tick \/ Exit \/ UNCHANGED vars
  BY <1>2, <1>3 DEF Tick, Exit, vars
<1>4. CASE PollReturns \/ HandleTimeouts \/ CallbackReturns
  BY <1>1, <1>4 DEF PollReturns, HandleTimeouts, CallbackReturns
<1>5. CASE StartLoop
  <2>1. horizon' = 0
    BY <1>5 DEF StartLoop, TimesInRange
  <2> QED BY <2>1 DEF WaitIsRight, FirstRound
<1>6. ASSUME NEW id \in handed, Cancel(id)  PROVE WaitIsRight'
  BY <1>1, <1>6 DEF Cancel, UserCode
<1>7. ASSUME NEW o \in Offsets, NEW i \in Intervals, RunAt(now + o, i)  PROVE WaitIsRight'
  BY <1>1, <1>7 DEF RunAt, UserCode
<1>8. ASSUME NEW e \in timers, Fire(e)  PROVE WaitIsRight'
  BY <1>1, <1>8 DEF Fire
<1>9. CASE RoundEnds
  <2>1. CASE exit
    BY <1>1, <1>9, <2>1 DEF RoundEnds, Loop
  <2>2. CASE ~exit
    <3> DEFINE near == Nearest(timers, now)
    <3>1. timers' = timers /\ pollFrom' = now /\ wakeAt' = now + Smaller(MaxWait, near)
      BY <1>9, <2>2 DEF RoundEnds, Loop
    <3>2. now \in Int /\ \A e \in timers : e.at \in Nat /\ e.seq \in Nat
      BY DEF TimesInRange, Core, Shapes
    <3>3. \A e \in timers : 0 - (IntMax + 1) <= e.at - now /\ e.at - now <= IntMax
      BY DEF TimesInRange, TimesFit
    <3>4. \A e, f \in timers : e.seq = f.seq => e = f
      BY DEF Core, SeqsUnique
    <3>5. /\ near \in Nat
          /\ \A e \in timers : now + near <= e.at \/ near = 0
          /\ (\A e \in timers : e.at > now) => near > 0
      BY <3>2, <3>3, <3>4, NearestIsRight
    <3> HIDE DEF near
    <3>6. \A e \in timers : wakeAt' <= e.at \/ wakeAt' = now
      BY <3>1, <3>2, <3>5 DEF Smaller
    <3>7. (\A e \in timers : e.at > now) => wakeAt' > now
      BY <3>1, <3>2, <3>5 DEF Smaller
    <3> QED BY <3>1, <3>6, <3>7 DEF WaitIsRight
  <2> QED BY <2>1, <2>2
<1> QED BY <1>3, <1>4, <1>5, <1>6, <1>7, <1>8, <1>9 DEF Next

\* refreshNearest and loop_once: when the times fit in an int, the poller never waits
\* beyond the nearest timer, and it does wait when nothing is due.
THEOREM TimersWaitIsRight == TimesFit /\ Spec => []WaitIsRight
<1> DEFINE Inv == TimesFit /\ Inductive /\ TimesInRange /\ WaitIsRight
<1>1. TimesFit /\ Init => Inv
  <2> SUFFICES ASSUME TimesFit, Init PROVE Inv
    OBVIOUS
  <2>1. Reps = {} /\ timers = {} /\ horizon = 0 /\ lpc = "setup" /\ now = Start
    BY DEF Init, Reps
  <2>2. TimesInRange
    BY <2>1, TimersAssumption DEF TimesInRange, TimesFit
  <2> QED BY <2>1, <2>2, InitInductive DEF WaitIsRight
<1>2. Inv /\ [Next]_vars => Inv'
  BY CoreStep, NowStep, QuietStep, RangeStep, WaitStep DEF Inductive, TimesFit
<1>3. Inv => WaitIsRight
  OBVIOUS
<1> QED BY <1>1, <1>2, <1>3, PTL DEF Spec

-----------------------------------------------------------------------------
(* How often a repeating timer has run.                                     *)

\* A round ends when nothing is due: every entry is later than the round's time.
LEMMA RoundLeavesNone ==
    ASSUME Core, RepsOnTime, ~\E e \in timers : Due(e)
    PROVE  \A e \in timers : e.at > horizon
<1> SUFFICES ASSUME NEW f \in timers PROVE f.at > horizon
  OBVIOUS
<1>1. \A e \in timers : e.at \in Nat /\ e.seq \in Nat
  BY DEF Core, Shapes, RepsOnTime
<1>2. PICK e \in timers : \A g \in timers \ {e} : Before(e, g)
  <2>1. \A e, g \in timers : e.seq = g.seq => e = g
    BY DEF Core, SeqsUnique
  <2> QED BY <1>1, <2>1, FirstExists
<1>3. ~(e.at <= horizon)
  BY <1>2 DEF Due, IsFirst
<1>4. e.at <= f.at
  BY <1>1, <1>2 DEF Before
<1>5. horizon \in Nat
  BY DEF RepsOnTime
<1> QED BY <1>1, <1>3, <1>4, <1>5

\* What RepsOnTime says of one record.
RepOnTime(r, h) == /\ r.interval \in Nat /\ r.at = r.timerid[1]
                   /\ r.fired > 0 => r.at - r.interval <= h

LEMMA OnTimeIs ==
    RepsOnTime <=>
        /\ now \in Nat /\ horizon \in Nat /\ horizon <= now /\ (lpc = "setup" => FirstRound)
        /\ \A e \in timers : e.at \in Nat
        /\ \A id \in Reps : RepOnTime(timerReps[id], horizon)
        /\ lpc = "poll" /\ ~FirstRound => \A e \in timers : e.at > horizon
BY Zenon DEF RepsOnTime, RepOnTime

LEMMA OnTimeStep ==
    ASSUME Core, RepsOnTime, [Next]_vars
    PROVE  RepsOnTime'
<1> USE TimersAssumption
<1>0. /\ now \in Nat /\ horizon \in Nat /\ horizon <= now /\ (lpc = "setup" => horizon = 0)
      /\ \A e \in timers : e.at \in Nat
      /\ \A id \in Reps : RepOnTime(timerReps[id], horizon)
      /\ lpc = "poll" /\ horizon # 0 => \A e \in timers : e.at > horizon
  BY OnTimeIs DEF FirstRound
<1>1. ASSUME /\ now' \in Nat /\ horizon' \in Nat /\ horizon' <= now' /\ (lpc' = "setup" => horizon' = 0)
             /\ \A e \in timers' : e.at \in Nat
             /\ \A id \in Reps' : RepOnTime(timerReps'[id], horizon')
             /\ lpc' = "poll" /\ horizon' # 0 => \A e \in timers' : e.at > horizon'
      PROVE  RepsOnTime'
  BY <1>1, Zenon DEF RepsOnTime, RepOnTime, FirstRound
<1>2. CASE Tick
  <2>1. now' \in Nat /\ horizon' <= now' /\ UNCHANGED <<horizon, timers, timerReps, lpc>>
    BY <1>0, <1>2 DEF Tick
  <2> QED BY <1>0, <1>1, <2>1, Zenon DEF Reps
<1>3. ASSUME UNCHANGED <<now, timers, timerReps, horizon>>, lpc' = lpc \/ lpc' \notin {"setup", "poll"}
      PROVE  RepsOnTime'
  BY <1>0, <1>1, <1>3 DEF Reps
<1>4. CASE Exit \/ PollReturns \/ CallbackReturns \/ UNCHANGED vars
  BY <1>3, <1>4 DEF Exit, PollReturns, CallbackReturns, vars
<1>5. CASE HandleTimeouts
  <2>1. horizon' = now /\ UNCHANGED <<now, timers, timerReps>> /\ lpc' \notin {"setup", "poll"}
    BY <1>5 DEF HandleTimeouts
  <2>2. Reps' = Reps /\ \A id \in Reps : timerReps[id].at \in Int /\ timerReps[id].interval \in Int
    BY <2>1 DEF Core, Shapes, RepType, Reps
  <2>3. \A id \in Reps : RepOnTime(timerReps[id], now)
    <3> TAKE id \in Reps
    <3> DEFINE r == timerReps[id]
    <3>1. RepOnTime(r, horizon) /\ r.at \in Int /\ r.interval \in Int
      BY <1>0, <2>2
    <3> HIDE DEF r
    <3>2. RepOnTime(r, now)
      BY <1>0, <3>1 DEF RepOnTime
    <3> QED BY <3>2 DEF r
  <2>4. horizon' \in Nat /\ horizon' <= now' /\ now' \in Nat
    BY <1>0, <2>1
  <2> QED BY <1>0, <1>1, <2>1, <2>2, <2>3, <2>4
<1>6. CASE StartLoop \/ RoundEnds
  <2>1. /\ UNCHANGED <<now, horizon>> /\ lpc' \in {"poll", "last"}
        /\ \/ UNCHANGED <<timers, timerReps>>
           \/ timers' = {} /\ timerReps' = [i \in {} |-> {}]
    BY <1>6 DEF StartLoop, RoundEnds, Loop
  <2>2. CASE timers' = {} /\ timerReps' = [i \in {} |-> {}]
    <3>1. Reps' = {}
      BY <2>2 DEF Reps
    <3> QED BY <1>0, <1>1, <2>1, <2>2, <3>1
  <2>3. CASE UNCHANGED <<timers, timerReps>>
    <3>1. horizon = 0 \/ \A e \in timers : e.at > horizon
      <4>1. CASE StartLoop
        BY <1>0, <4>1 DEF StartLoop
      <4>2. CASE RoundEnds
        BY <4>2, RoundLeavesNone DEF RoundEnds
      <4> QED BY <1>6, <4>1, <4>2
    <3> QED BY <1>0, <1>1, <2>1, <2>3, <3>1 DEF Reps
  <2> QED BY <2>1, <2>2, <2>3
<1>7. ASSUME NEW id \in handed, Cancel(id)  PROVE RepsOnTime'
  <2>1. UNCHANGED <<now, horizon, lpc>> /\ timers' \subseteq timers
    BY <1>7 DEF Cancel, CancelRepeating, CancelOnce
  <2>2. Reps' \subseteq Reps /\ \A i \in Reps' : timerReps'[i] = timerReps[i]
    BY <1>7 DEF Cancel, CancelRepeating, CancelOnce, Reps
  <2> QED BY <1>0, <1>1, <2>1, <2>2
<1>8. ASSUME NEW o \in Offsets, NEW i \in Intervals, RunAt(now + o, i)  PROVE RepsOnTime'
  <2>1. UNCHANGED <<now, horizon, lpc>> /\ lpc # "poll" /\ now + o \in Nat
    BY <1>0, <1>8 DEF RunAt, UserCode
  <2>2. CASE exit
    BY <1>3, <1>8, <2>1, <2>2 DEF RunAt
  <2>3. CASE ~exit /\ i = 0
    <3>1. /\ timers' = timers \cup {[at |-> now + o, seq |-> timerSeq + 1, rep |-> NoId]}
          /\ timerReps' = timerReps
      BY <1>8, <2>3 DEF RunAt, RunAtOnce
    <3> QED BY <1>0, <1>1, <2>1, <3>1 DEF Reps
  <2>4. CASE ~exit /\ i # 0
    <3> DEFINE id == <<-(now + o), timerSeq + 1>>
               rep == [at |-> now + o, interval |-> i, timerid |-> <<now + o, timerSeq + 2>>,
                       start |-> now + o, fired |-> 0]
               n == [at |-> now + o, seq |-> timerSeq + 2, rep |-> id]
    <3>1. /\ timers' = timers \cup {n}
          /\ timerReps' = [j \in Reps \cup {id} |-> IF j = id THEN rep ELSE timerReps[j]]
      BY <1>8, <2>4 DEF RunAt, RunAtRepeating, Reps
    <3>2. n.at = now + o /\ RepOnTime(rep, horizon)
      BY DEF RepOnTime
    <3>3. Reps' = Reps \cup {id}
      BY <3>1 DEF Reps
    <3> HIDE DEF n, rep, id
    <3>4. \A e \in timers' : e.at \in Nat
      BY <1>0, <2>1, <3>1, <3>2
    <3>5. \A j \in Reps' : RepOnTime(timerReps'[j], horizon)
      BY <1>0, <3>1, <3>2, <3>3
    <3> QED BY <1>0, <1>1, <2>1, <3>4, <3>5, Zenon
  <2> QED BY <2>2, <2>3, <2>4
<1>9. ASSUME NEW e \in timers, Fire(e)  PROVE RepsOnTime'
  <2>1. UNCHANGED <<now, horizon>> /\ lpc' = "cb" /\ e.at <= horizon /\ e.at \in Nat
    BY <1>0, <1>9 DEF Fire, Due
  <2>2. CASE e.rep = NoId
    <3>1. timers' \subseteq timers /\ timerReps' = timerReps
      BY <1>9, <2>2 DEF Fire
    <3> QED BY <1>0, <1>1, <2>1, <3>1 DEF Reps
  <2>3. CASE e.rep # NoId
    <3> DEFINE id  == e.rep
               rep == timerReps[id]
               at  == rep.at + rep.interval
               n   == [at |-> at, seq |-> timerSeq + 1, rep |-> id]
               new == [at |-> at, interval |-> rep.interval, timerid |-> Key(n),
                       start |-> rep.start, fired |-> rep.fired + 1]
    <3>1. /\ timers' = (timers \ {e}) \cup {n} /\ timerReps' = [timerReps EXCEPT ![id] = new]
      BY <1>9, <2>3 DEF Fire, Repeat
    <3>2. id \in Reps /\ rep.timerid = Key(e)
      BY <2>3 DEF Core, RepeatingTimersIntact
    <3>3. rep.at = e.at /\ rep.interval \in Nat
      <4>1. rep.at = rep.timerid[1] /\ rep.interval \in Nat
        BY <1>0, <3>2 DEF RepOnTime
      <4>2. Key(e)[1] = e.at
        BY DEF Key
      <4> HIDE DEF rep
      <4> QED BY <3>2, <4>1, <4>2
    <3>4. n.at = at /\ new.at = at /\ new.at = new.timerid[1] /\ new.interval = rep.interval
      BY DEF Key
    <3>5. Reps' = Reps
      BY <3>1 DEF Reps
    <3>6. at \in Nat /\ at - rep.interval <= horizon
      BY <2>1, <3>3
    <3>7. timerReps'[id] = new /\ \A j \in Reps \ {id} : timerReps'[j] = timerReps[j]
      BY <3>1, <3>2 DEF Reps
    <3> HIDE DEF n, new, at, rep, id
    <3>8. \A f \in timers' : f.at \in Nat
      BY <1>0, <3>1, <3>4, <3>6
    <3>9. RepOnTime(new, horizon)
      BY <3>3, <3>4, <3>6 DEF RepOnTime
    <3>10. \A j \in Reps' : RepOnTime(timerReps'[j], horizon)
      BY <1>0, <3>5, <3>7, <3>9
    <3> QED BY <1>0, <1>1, <2>1, <3>8, <3>10
  <2> QED BY <2>2, <2>3
<1> QED BY <1>2, <1>4, <1>5, <1>6, <1>7, <1>8, <1>9 DEF Next

\* One run less.
LEMMA OneRunLess ==
    ASSUME NEW a \in Int, NEW s \in Int, NEW n \in Nat, NEW i \in Int, a = s + n * i
    PROVE  s + (n - 1) * i = a - i
<1>1. (n - 1) * i = n * i - i
  OBVIOUS
<1>2. n * i \in Int
  OBVIOUS
<1> QED BY <1>1, <1>2

\* handleTimeouts and repeatableTimeout: a round leaves every repeating timer with one
\* run for each of its times that have come, for any intervals, delays and cancels.
THEOREM TimersCatchUp == Spec => []CatchesUp
<1> DEFINE Inv == Inductive /\ RepsOnTime
<1>1. Init => Inv
  <2> SUFFICES ASSUME Init PROVE Inv
    OBVIOUS
  <2>1. Reps = {} /\ timers = {} /\ horizon = 0 /\ lpc = "setup" /\ now = Start
    BY DEF Init, Reps
  <2> QED BY <2>1, InitInductive, TimersAssumption DEF RepsOnTime, FirstRound
<1>2. Inv /\ [Next]_vars => Inv'
  BY CoreStep, NowStep, QuietStep, OnTimeStep DEF Inductive
<1>3. Inv => CatchesUp
  <2> SUFFICES ASSUME Core, RepsOnTime, lpc = "poll", ~FirstRound, NEW id \in Reps
               PROVE  /\ timerReps[id].start + timerReps[id].fired * timerReps[id].interval > horizon
                      /\ timerReps[id].fired > 0 =>
                             timerReps[id].start + (timerReps[id].fired - 1) * timerReps[id].interval
                                 <= horizon
    BY DEF CatchesUp, Inductive
  <2> DEFINE r == timerReps[id]
  <2>1. r \in RepType /\ r.at = r.start + r.fired * r.interval
    BY DEF Core, Shapes, NoDrift
  <2>2. RepOnTime(r, horizon) /\ \A e \in timers : e.at > horizon
    BY OnTimeIs
  <2>3. PICK e \in timers : e.rep = id
    BY DEF Core, RepeatingTimersIntact
  <2>4. e.rep # NoId
    BY <2>3 DEF Core, SeqsUnique, NoId
  <2>5. r.timerid = Key(e)
    BY <2>3, <2>4 DEF Core, RepeatingTimersIntact
  <2>6. r.at = e.at
    <3>1. Key(e)[1] = e.at
      BY DEF Key
    <3> QED BY <2>2, <2>5, <3>1 DEF RepOnTime
  <2> HIDE DEF r
  <2>7. r.at > horizon
    BY <2>2, <2>6
  <2>8. r.start + (r.fired - 1) * r.interval = r.at - r.interval
    BY <2>1, OneRunLess DEF RepType
  <2>9. r.fired > 0 => r.start + (r.fired - 1) * r.interval <= horizon
    BY <2>2, <2>8 DEF RepOnTime
  <2>10. r.start + r.fired * r.interval > horizon
    BY <2>1, <2>7
  <2> QED BY <2>9, <2>10 DEF r
<1> QED BY <1>1, <1>2, <1>3, PTL DEF Spec
=============================================================================
