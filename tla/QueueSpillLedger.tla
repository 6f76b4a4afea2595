-------------------------- MODULE QueueSpillLedger --------------------------
(***************************************************************************)
(* The reconcile loop implements the cooldown ledger: seen through the     *)
(* annotations of the live Queue, every step of QueueSpill is a step of    *)
(* SpillLedger or leaves it alone.  This needs Build to read a cache that  *)
(* has caught up and a Queue nobody deletes, and nothing else: applies may *)
(* fail or lose their reply, the controller may crash anywhere, and other  *)
(* writers may edit the affinity.                                          *)
(***************************************************************************)
EXTENDS QueueSpill

Ledger ==
    INSTANCE SpillLedger WITH
        Cooldown <- [s \in State |-> CooldownFor(Policy, s)],
        Grain    <- Second,
        state    <- DecodeState(live.state),
        anchor   <- live.since,
        time     <- clock

\* The Queue's annotations follow the ledger: a state flips only through a
\* timer that was persisted, was neither stopped nor moved for the whole
\* cooldown, and is restarted by the same apply.
LedgerSpec == Ledger!Spec
=============================================================================
