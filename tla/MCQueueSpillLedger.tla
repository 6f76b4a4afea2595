-------------------------- MODULE MCQueueSpillLedger --------------------------
(***************************************************************************)
(* Values for the constants of QueueSpillLedger.                           *)
(***************************************************************************)
EXTENDS QueueSpillLedger

MCPolicy ==
    [dedicated |-> "dedicated", overflow |-> "overflow",
     timeOn |-> 3, timeOff |-> 2, hysteresis |-> 50, timePendingMax |-> 2]

\* All PodGroups are the policy's and there is no pod yet; or the pods wait in
\* another Queue, where the autoscaler has given up on them.
Quiet ==
    [members |-> Pods, pods |-> [p \in Pods |-> Absent], pool |-> Nodes, events |-> {}]
Elsewhere ==
    [members |-> {}, pods |-> [p \in Pods |-> [Absent EXCEPT !.since = StartTime]],
     pool |-> Nodes, events |-> Pods]
MCStartSignals == {Quiet, Elsewhere}
=============================================================================
