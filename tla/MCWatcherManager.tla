-------------------------- MODULE MCWatcherManager --------------------------
(***************************************************************************)
(* Values for the constants of WatcherManager: two pods of one policy, and *)
(* a second policy that the builder does not know.                         *)
(***************************************************************************)
EXTENDS WatcherManager

MCPolicyOf == [p \in Pods |-> "web"]
=============================================================================
