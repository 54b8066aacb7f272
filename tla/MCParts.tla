------------------------------ MODULE MCParts ------------------------------
(* One instance for TLC of the parts that work by themselves: Buffer, TcpSend,   *)
(* Codec and Http, which carry a connection's data, Poller and Idle, and Conf,   *)
(* Cron, Daemon and Logger.  They share nothing, so each behaviour is one of one *)
(* of them, the subject, while the others stay in one initial state.             *)
EXTENDS Buffer, TcpSend, Codec, Http, Conf, Cron, Daemon, Logger, Idle, Poller

VARIABLE subject

allVars == <<subject, vars, sendVars, codecVars, httpVars, confVars, cronVars, daemonVars,
             loggerVars, idleVars, pollerVars>>

PartsInit == /\ subject \in {"buffer", "send", "codec", "http", "conf", "cron", "daemon", "logger",
                             "idle", "poller"}
             /\ Init /\ SendInit /\ CodecInit /\ HttpInit /\ ConfInit /\ CronInit
             /\ DaemonInit /\ LoggerInit /\ IdleInit /\ PollerInit
             /\ subject # "codec" => codec = "line"
             /\ subject # "http" => role = "server"

Only(s) == /\ UNCHANGED subject /\ subject = s
           /\ s # "buffer" => UNCHANGED vars
           /\ s # "send" => UNCHANGED sendVars
           /\ s # "codec" => UNCHANGED codecVars
           /\ s # "http" => UNCHANGED httpVars
           /\ s # "conf" => UNCHANGED confVars
           /\ s # "cron" => UNCHANGED cronVars
           /\ s # "daemon" => UNCHANGED daemonVars
           /\ s # "logger" => UNCHANGED loggerVars
           /\ s # "idle" => UNCHANGED idleVars
           /\ s # "poller" => UNCHANGED pollerVars

PartsNext == \/ Only("buffer") /\ Next
             \/ Only("send") /\ SendNext
             \/ Only("codec") /\ CodecNext
             \/ Only("http") /\ HttpNext
             \/ Only("conf") /\ ConfNext
             \/ Only("cron") /\ CronNext
             \/ Only("daemon") /\ DaemonNext
             \/ Only("logger") /\ LoggerNext
             \/ Only("idle") /\ IdleNext
             \/ Only("poller") /\ PollerNext

\* The fairness of FairSendSpec and FairPollerSpec.
PartsSpec == /\ PartsInit /\ [][PartsNext]_allVars
             /\ WF_sendVars(subject = "send" /\ HandleWrite)
             /\ WF_pollerVars(subject = "poller" /\ Destroyed)
             /\ WF_pollerVars(subject = "poller" /\ lpc = "destroying" /\ \E a \in Addr : Close(a))

\* The configuration parser alone.
ConfSpec == PartsInit /\ subject = "conf" /\ [][Only("conf") /\ ConfNext]_allVars

\* Threads that log, alone.
LogSpec == PartsInit /\ subject = "logger" /\ [][Only("logger") /\ LoggerNext]_allVars

MCTexts == {<<>>, <<"x">>, <<"x", "r">>, <<"r", "x", "x">>}

\* Every kind of line: blank, comment, section, its end missing, name = value with and
\* without white space, with a comment sign and a blank in the value, name : value, a
\* name alone, no name, lines that begin with white space, capitals, and dots in a name
\* and in a section that make one key of two.
MCLines == {<<"b">>, <<";", "a">>, <<"b", ";", "a">>, <<"[", "s", "]", "b">>,
            <<"[", "b", "t", "]">>, <<"[", "s">>, <<"b", "[", "t", "]">>, <<"a", "=", "x">>,
            <<"c", "b", "=", "b", "y", "b">>, <<"a", "=", "x", ";", "y">>,
            <<"a", "=", "x", "b", "y">>, <<"c", ":", "y">>, <<":", "a", "=", "x">>, <<"a">>,
            <<"=", "x">>, <<"b", "z">>, <<"b", "z", "=", "x">>, <<"A", "=", "x">>,
            <<"s", ".", "a", "=", "x">>, <<"[", ".", "s", "]">>, <<"[", "S", "]">>}
MCLower == [ch \in {"A", "S"} |-> IF ch = "A" THEN "a" ELSE "s"]

\* A year of two months, of two and three days.
MCDaysBefore == [m \in 0 .. 2 |-> <<0, 2, 5>>[m + 1]]
=============================================================================
