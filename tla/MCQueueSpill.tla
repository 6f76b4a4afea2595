---------------------------- MODULE MCQueueSpill ----------------------------
(***************************************************************************)
(* Values for the constants of QueueSpill that a .cfg file cannot write:   *)
(* the policy and the signals at the start.  A second is two ticks;        *)
(* switching on takes one and a half seconds, switching back one second    *)
(* plus 50 percent.                                                        *)
(***************************************************************************)
EXTENDS QueueSpill

MCPolicy ==
    [dedicated |-> "dedicated", overflow |-> "overflow",
     timeOn |-> 3, timeOff |-> 2, hysteresis |-> 50, timePendingMax |-> 2]

\* Half a second to switch on, and as much plus 100 percent to switch back: a
\* flip and the flip back fit in a short run.
MCQuickPolicy == [MCPolicy EXCEPT !.timeOn = 1, !.timeOff = 1, !.hysteresis = 100]

\* All PodGroups are the policy's and there is no pod yet; or the pods wait in
\* another Queue, where the autoscaler has given up on them.
Quiet ==
    [members |-> Pods, pods |-> [p \in Pods |-> Absent], pool |-> Nodes, events |-> {}]
Elsewhere ==
    [members |-> {}, pods |-> [p \in Pods |-> [Absent EXCEPT !.since = StartTime]],
     pool |-> Nodes, events |-> Pods]
MCStartSignals == {Quiet, Elsewhere}
=============================================================================
