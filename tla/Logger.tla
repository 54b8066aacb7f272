------------------------------- MODULE Logger -------------------------------
(***************************************************************************)
(* handy/logging.cc: Logger.  Every thread that logs may find that a new   *)
(* period has begun and rotate the file: maybeRotate is not locked, only   *)
(* the exchange of realRotate_ chooses the thread that renames the file,   *)
(* opens a new one and makes the descriptor point to it.                   *)
(*                                                                         *)
(* The clock may move between any two steps.  A file that is renamed gets  *)
(* the minute's name; what rename replaces is lost.  lastRotate_ is a      *)
(* plain long that threads read and write as they go.                      *)
(***************************************************************************)
EXTENDS Naturals, Sequences

CONSTANTS LogThreads,   \* the threads that log
          Interval,     \* rotateInterval_, in ticks of the clock
          LogMinute,      \* a minute, in ticks of the clock
          MaxLogTime,   \* bound: the clock
          MaxLog        \* bound: lines logged

ASSUME LoggerAssumption == /\ Interval \in Nat \ {0} /\ LogMinute \in Nat \ {0}
                           /\ MaxLogTime \in Nat /\ MaxLog \in Nat

VARIABLES lgClock,      \* what time() returns
          lastRotate,   \* lastRotate_
          realRotate,   \* realRotate_
          lgPc,         \* where each thread is in logv
          lgNow,        \* its now
          lgOld,        \* its old
          names,        \* the directory: the file of each name, 0 is no file
          fd,           \* the file that fd_ writes to
          newFd,        \* the file a thread has opened
          files,        \* files created so far
          lines,        \* history: the file of each line written
          late          \* history: a thread went on choosing when its period was over

rotateVars == <<lastRotate, realRotate, lgNow, lgOld, late>>
fileVars == <<names, fd, newFd, files, lines>>
loggerVars == <<lgClock, lgPc, rotateVars, fileVars>>

\* The period a time is in, and the name a file renamed then gets: year to minute.
Period(time) == time \div Interval
MinuteName(time) == 1 + time \div LogMinute

\* The name of the log itself.
Current == 0

\* Logger() and setFileName.
LoggerInit == /\ lgClock = 0 /\ lastRotate = 0 /\ realRotate = 0 /\ late = FALSE
              /\ lgPc = [t \in LogThreads |-> "out"] /\ lgNow = [t \in LogThreads |-> 0]
              /\ lgOld = [t \in LogThreads |-> 0]
              /\ names = [n \in 0 .. MaxLogTime + 1 |-> IF n = Current THEN 1 ELSE 0]
              /\ fd = 1 /\ newFd = [t \in LogThreads |-> 0] /\ files = 1 /\ lines = <<>>

-----------------------------------------------------------------------------

Goto(t, place) == lgPc' = [lgPc EXCEPT ![t] = place]

\* maybeRotate: now = time(NULL).
ReadTime(t) == /\ lgPc[t] = "out" /\ Len(lines) < MaxLog
               /\ lgNow' = [lgNow EXCEPT ![t] = lgClock]
               /\ Goto(t, "check")
               /\ UNCHANGED <<lgClock, lastRotate, realRotate, lgOld, late, fileVars>>

\* Is the last rotation of this period?
CheckLast(t) == /\ lgPc[t] = "check"
                /\ Goto(t, IF Period(lgNow[t]) = Period(lastRotate) THEN "write" ELSE "store")
                /\ UNCHANGED <<lgClock, rotateVars, fileVars>>

\* The history of late.
Choosing(t) == late' = (late \/ Period(lgNow[t]) # Period(lgClock))

StoreLast(t) == /\ lgPc[t] = "store" /\ Choosing(t)
                /\ lastRotate' = lgNow[t]
                /\ Goto(t, "exchange")
                /\ UNCHANGED <<lgClock, realRotate, lgNow, lgOld, fileVars>>

\* old = realRotate_.exchange(now)
Exchange(t) == /\ lgPc[t] = "exchange" /\ Choosing(t)
               /\ lgOld' = [lgOld EXCEPT ![t] = realRotate]
               /\ realRotate' = lgNow[t]
               /\ Goto(t, "test")
               /\ UNCHANGED <<lgClock, lastRotate, lgNow, fileVars>>

\* Mutant: lastRotate_ alone is to choose the thread.
TestOld_Not(t) == /\ lgPc[t] = "test" /\ Choosing(t)
                  /\ Goto(t, "rename")
                  /\ UNCHANGED <<lgClock, lastRotate, realRotate, lgNow, lgOld, fileVars>>

\* old is compared with lastRotate_, which is read again: the same period, nothing to do.
TestOld(t) == /\ lgPc[t] = "test" /\ Choosing(t)
              /\ Goto(t, IF Period(lgOld[t]) = Period(lastRotate) THEN "write" ELSE "rename")
              /\ UNCHANGED <<lgClock, lastRotate, realRotate, lgNow, lgOld, fileVars>>

\* rename; it fails when there is no file of the log's name.
Rename(t) == /\ lgPc[t] = "rename"
             /\ IF names[Current] = 0
                THEN Goto(t, "write") /\ UNCHANGED names
                ELSE /\ names' = [names EXCEPT ![MinuteName(lgNow[t])] = names[Current],
                                               ![Current] = 0]
                     /\ Goto(t, "open")
             /\ UNCHANGED <<lgClock, rotateVars, fd, newFd, files, lines>>

\* open with O_CREAT, which may fail: fd_ then stays with the renamed file.
OpenNew(t) == /\ lgPc[t] = "open"
              /\ \/ Goto(t, "write") /\ UNCHANGED <<names, newFd, files>>
                 \/ /\ Goto(t, "dup")
                    /\ IF names[Current] = 0
                       THEN /\ files' = files + 1
                            /\ names' = [names EXCEPT ![Current] = files + 1]
                            /\ newFd' = [newFd EXCEPT ![t] = files + 1]
                       ELSE /\ newFd' = [newFd EXCEPT ![t] = names[Current]]
                            /\ UNCHANGED <<names, files>>
              /\ UNCHANGED <<lgClock, rotateVars, fd, lines>>

Dup2(t) == /\ lgPc[t] = "dup"
           /\ fd' = newFd[t]
           /\ newFd' = [newFd EXCEPT ![t] = 0]
           /\ Goto(t, "write")
           /\ UNCHANGED <<lgClock, rotateVars, names, files, lines>>

\* The rest of logv: the line is written in one call.
Write(t) == /\ lgPc[t] = "write"
            /\ lines' = Append(lines, fd)
            /\ lgNow' = [lgNow EXCEPT ![t] = 0] /\ lgOld' = [lgOld EXCEPT ![t] = 0]
            /\ Goto(t, "out")
            /\ UNCHANGED <<lgClock, lastRotate, realRotate, late, names, fd, newFd, files>>

LogTick == /\ lgClock < MaxLogTime
           /\ lgClock' = lgClock + 1
           /\ UNCHANGED <<lgPc, rotateVars, fileVars>>

LoggerNext == \/ LogTick
              \/ \E t \in LogThreads : \/ ReadTime(t) \/ CheckLast(t) \/ StoreLast(t) \/ Exchange(t)
                                       \/ TestOld(t) \/ Rename(t) \/ OpenNew(t) \/ Dup2(t)
                                       \/ Write(t)

LoggerSpec == LoggerInit /\ [][LoggerNext]_loggerVars

-----------------------------------------------------------------------------

\* setRotateInterval takes any number of seconds; names differ by minutes.
WholeMinutes == Interval % LogMinute = 0

\* maybeRotate by several threads, with failures of rename and open and the clock moving
\* between any two steps: every line that was written is in a file that has a name; no
\* rotation replaces an earlier one's file, and the descriptor is never left with a file
\* that has none.  The two conditions are what this rests on: the interval is made of
\* whole minutes, and no thread stores, exchanges or tests the times of the last
\* rotation with a time of a period that is over.
NoLineLost ==
    WholeMinutes /\ ~late =>
        \A f \in {lines[i] : i \in DOMAIN lines} \cup {fd} : \E n \in DOMAIN names : names[n] = f

\* The comment before the second test in maybeRotate (logging.cc:76): a thread that finds
\* the value of realRotate_ new returns, and one that goes on to rotate got an old one.
RotatesOnOldValue ==
    \A t \in LogThreads : lgPc[t] = "rename" => Period(lgOld[t]) < Period(lgNow[t])
=============================================================================
