------------------------------- MODULE Daemon -------------------------------
(***************************************************************************)
(* handy/daemon.cc: Daemon, the commands start, stop and restart of a      *)
(* program that runs in the background and leaves its process id in a      *)
(* file.  A command is run by a process of its own; start forks the        *)
(* daemon, whose first steps write the file, and the parent ends at once.  *)
(*                                                                         *)
(* Commands follow one another: a command is given when the one before has *)
(* ended and the daemon it started has written its file or has given up.   *)
(* The daemon may end, or be killed, at any time.  A process id is used    *)
(* once, and the file belongs to the user who gives the commands.          *)
(***************************************************************************)
EXTENDS Integers

CONSTANTS MaxPid,     \* bound: daemons started
          MaxTries    \* daemonStop's tries, 300 in the code

ASSUME DaemonAssumption == MaxPid \in Nat /\ MaxTries \in Nat

VARIABLES alive,      \* the daemons that run, the one that is starting included
          leaving,    \* those that have unlinked the file and still exist
          pidFile,    \* NoFile, 0 for an empty one, else the process id in it
          born,       \* how many have been started
          child,      \* where the daemon that is starting is
          cmd,        \* the command in progress and where it is
          pid,        \* what the command has read from the file
          tries,      \* its loop counter
          result      \* how the last command ended

NoFile == -1

daemonVars == <<alive, leaving, pidFile, born, child, cmd, pid, tries, result>>

DaemonInit == /\ alive = {} /\ pidFile = NoFile /\ leaving = {} /\ born = 0 /\ child = "none"
              /\ cmd = "none" /\ pid = 0 /\ tries = 0 /\ result = "none"

-----------------------------------------------------------------------------

\* getPidFromFile: -1 or 0 (atoi of nothing) when there is no file or nothing in it.
PidInFile == IF pidFile = NoFile THEN 0 ELSE pidFile

Ends(r) == cmd' = "none" /\ pid' = 0 /\ tries' = 0 /\ result' = r

\* daemonProcess: a command is given.
Command == /\ cmd = "none" /\ child = "none"
           /\ cmd' \in {"start", "stop", "restart"}
           /\ UNCHANGED <<alive, leaving, pidFile, born, child, pid, tries, result>>

\* Mutant: start does not look for a running daemon.
DaemonStart_Blind ==
    /\ cmd = "start"
    /\ alive' = alive \cup {born + 1} /\ born' = born + 1
    /\ child' = "open" /\ Ends("started")
    /\ UNCHANGED <<leaving, pidFile>>

\* daemonStart: unless the process of the file exists, fork; the parent exits.  It fails
\* too when fork does or when the command is a child of init.
DaemonStart ==
    /\ cmd = "start"
    /\ IF PidInFile \in alive
       THEN Ends("exists") /\ UNCHANGED <<alive, born, child>>
       ELSE \/ /\ born < MaxPid
               /\ alive' = alive \cup {born + 1} /\ born' = born + 1
               /\ child' = "open" /\ Ends("started")
            \/ Ends("forkError") /\ UNCHANGED <<alive, born, child>>
    /\ UNCHANGED <<leaving, pidFile>>

\* The daemon's first steps, writePidFile: open with O_TRUNC, then lock and write; a
\* failure of either, or of the redirection after it, ends the process.
OpenPidFile == /\ child = "open"
               /\ \/ pidFile' = 0 /\ child' = "write" /\ UNCHANGED alive
                  \/ child' = "none" /\ alive' = alive \ {born} /\ UNCHANGED pidFile
               /\ UNCHANGED <<leaving, born, cmd, pid, tries, result>>

WritePidFile == /\ child = "write"
                /\ \/ pidFile' = born /\ UNCHANGED alive
                   \/ alive' = alive \ {born} /\ pidFile' \in {pidFile, born}
                /\ child' = "none"
                /\ UNCHANGED <<leaving, born, cmd, pid, tries, result>>

\* daemonRestart: stop the process of the file if there is one, then start.
DaemonRestart == /\ cmd = "restart"
                 /\ cmd' = IF PidInFile \in alive THEN "stopFirst" ELSE "start"
                 /\ UNCHANGED <<alive, leaving, pidFile, born, child, pid, tries, result>>

Stopping == cmd \in {"stop", "stopFirst"}

\* daemonStop: the file is read and the first SIGQUIT sent.
DaemonStop == /\ Stopping /\ pid = 0
              /\ IF PidInFile \in alive
                 THEN pid' = PidInFile /\ UNCHANGED <<cmd, tries, result>>
                 ELSE Ends("notRunning")
              /\ UNCHANGED <<alive, leaving, pidFile, born, child>>

\* One turn of its loop: SIGQUIT again, until the process is gone; then unlink, and
\* restart goes on to start.
StopTurn ==
    /\ Stopping /\ pid # 0
    /\ IF pid \in alive
       THEN /\ IF tries < MaxTries
               THEN tries' = tries + 1 /\ UNCHANGED <<cmd, pid, result>>
               ELSE Ends("stillThere")
            /\ UNCHANGED pidFile
       ELSE /\ pidFile' = NoFile
            /\ IF cmd = "stop" THEN Ends("stopped")
               ELSE cmd' = "start" /\ pid' = 0 /\ tries' = 0 /\ UNCHANGED result
    /\ UNCHANGED <<alive, leaving, born, child>>

\* The daemon ends, by itself or since it handles the signal: the file is unlinked by
\* a static object's destructor, and then the process goes.
DaemonExits(p) == /\ p \in alive \ leaving /\ ~(p = born /\ child # "none")
                  /\ pidFile' = NoFile
                  /\ leaving' = leaving \cup {p}
                  /\ UNCHANGED <<alive, born, child, cmd, pid, tries, result>>

\* The process goes: after its exit, killed, or by SIGQUIT's default action, when the
\* file stays.
DaemonDies(p) == /\ p \in alive
                 /\ alive' = alive \ {p}
                 /\ leaving' = leaving \ {p}
                 /\ child' = IF p = born THEN "none" ELSE child
                 /\ UNCHANGED <<pidFile, born, cmd, pid, tries, result>>

DaemonNext == \/ Command \/ DaemonStart \/ OpenPidFile \/ WritePidFile \/ DaemonRestart
              \/ DaemonStop \/ StopTurn
              \/ \E p \in alive : DaemonExits(p) \/ DaemonDies(p)

DaemonSpec == DaemonInit /\ [][DaemonNext]_daemonVars

-----------------------------------------------------------------------------

\* start, stop, restart, failures and crashes in any order: between two commands the
\* file holds the process id of the daemon that runs (so that there is at most one, and
\* stop finds it); and a stop that reports success has left neither process nor file.
FileNamesDaemon ==
    /\ cmd = "none" /\ child = "none" => alive \ leaving \subseteq {PidInFile}
    /\ cmd = "none" /\ result = "stopped" => alive \subseteq leaving /\ pidFile = NoFile
=============================================================================
