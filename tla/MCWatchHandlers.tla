-------------------------- MODULE MCWatchHandlers --------------------------
(***************************************************************************)
(* Values for the constants of WatchHandlers: every policy has the Queue   *)
(* "q1", the dedicated pool "ded1" and the overflow pool "over"; with the  *)
(* one policy of the runs the Queues are pairwise different.               *)
(***************************************************************************)
EXTENDS WatchHandlers

MCRegistry ==
    [p \in Policies |-> [queue |-> "q1", dedicated |-> "ded1", overflow |-> "over"]]

\* PodGroups that run, and pods that wait or are bound.
MCAtStart ==
    {g \in PodGroupType : ~ g.completed}
    \cup {pod \in PodType : pod.stuck = (pod.node = None)}
=============================================================================
