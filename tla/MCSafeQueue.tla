---------------------------- MODULE MCSafeQueue ----------------------------
(* One instance for TLC of the two queues of threads: SafeQueue, and Xy, whose pool *)
(* has a queue that was made after it.  A behaviour is one of the subject; the      *)
(* other stays as it was.                                                           *)
EXTENDS SafeQueue, Xy

VARIABLE subject

QueuesInit == subject \in {"handy", "xy"} /\ Init /\ XyInit

QueuesNext == /\ UNCHANGED subject
              /\ \/ subject = "handy" /\ Next /\ UNCHANGED xyVars
                 \/ subject = "xy" /\ XyNext /\ UNCHANGED vars

\* The fairness of XySpec.
QueuesSpec == /\ QueuesInit /\ [][QueuesNext]_<<subject, vars, xyVars>>
              /\ WF_xyVars(subject = "xy" /\ TaskAdded)
              /\ SF_xyVars(subject = "xy" /\ SchedStep)
              /\ WF_xyVars(subject = "xy" /\ xyNow >= until /\ SchedWakes)
              /\ \A t \in XyThreads : SF_xyVars(subject = "xy" /\ ThreadStep(t))
              /\ WF_xyVars(subject = "xy" /\ (XyStops \/ XyNotify \/ XyJoin))
=============================================================================
