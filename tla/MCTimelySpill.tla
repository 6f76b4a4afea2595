---------------------------- MODULE MCTimelySpill ----------------------------
(***************************************************************************)
(* Values for the constants of TimelySpill.                                *)
(***************************************************************************)
EXTENDS TimelySpill

MCPolicy ==
    [dedicated |-> "dedicated", overflow |-> "overflow",
     timeOn |-> 3, timeOff |-> 2, hysteresis |-> 50, timePendingMax |-> 2]

\* One tick less to switch on, so that both directions fit in a short run.
MCQuickOnPolicy == [MCPolicy EXCEPT !.timeOn = 2]

\* All pods wait, and the autoscaler has given up on all of them; one is the
\* policy's, the others are in another Queue.
MCStartSignals ==
    {[members |-> {CHOOSE p \in Pods : TRUE},
      pods |-> [p \in Pods |-> [Absent EXCEPT !.since = StartTime]],
      pool |-> Nodes, events |-> Pods]}
=============================================================================
