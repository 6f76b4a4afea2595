---------------------------- MODULE TimelySpill ----------------------------
(***************************************************************************)
(* How long the controller may take.  QueueSpill lets time pass at any     *)
(* moment; here the worker, the watch and the backoff are quick compared   *)
(* with a tick, and the periodic resync is a ticker with a period, so      *)
(* that the delay between a condition and the flip it asks for is bounded. *)
(*                                                                         *)
(* Nothing in the controller schedules a reconcile for the end of a        *)
(* cooldown: only the ticker comes back to look.                           *)
(***************************************************************************)
EXTENDS QueueSpill

CONSTANT Period    \* of the forced periodic resync

ASSUME PeriodAssumption == Period \in Nat \ {0}

VARIABLES
    nextResync,  \* when the ticker fires next
    wantedSince, \* history: since when each reason has asked for a flip
    reported     \* history: the reasons a flip was handed to the action since

timelyVars == <<vars, nextResync, wantedSince, reported>>

\* Why a Queue should leave its state: a pod of the policy that an autoscaler
\* event names, one that has waited for too long, or a drained pool.  Any is
\* the instant condition: there is a reason, not always the same one.
Any     == <<"any">>
Drained == <<"drained">>
Lasting == {Drained} \cup ({"event", "stale"} \X Pods)
Reasons == {Any} \cup Lasting

\* The pods of the policy that are such a reason, as the caches are now.
NamedPods == PodNames(signal) \cap signal.events

StalePods ==
    {p \in signal.members :
        StalePending(Policy.timePendingMax, {UnschedulableFor(signal.pods[p].since, clock)})}

\* Reason r asks the live Queue to leave its state.
Asks(r) ==
    \/ r[1] = "any" /\ InstantCondition(SnapshotNow)
    \/ /\ DecodeState(live.state) = Spill
       /\ r[1] = "drained" /\ OverflowPods(signal) = {}
    \/ /\ DecodeState(live.state) = Steady
       /\ \/ r[1] = "event" /\ r[2] \in NamedPods
          \/ r[1] = "stale" /\ r[2] \in StalePods

\* The state flips, or the pods and nodes that the pool is counted from are no
\* longer the same.
AsksAnew(r) ==
    \/ DecodeState(live.state)' # DecodeState(live.state)
    \/ r[1] = "drained" /\ (signal.members' # signal.members \/ signal.pool' # signal.pool)

RecordWanted ==
    wantedSince' = [r \in Reasons |->
        IF ~ Asks(r)' THEN NoTime
        ELSE IF wantedSince[r] = NoTime \/ AsksAnew(r) THEN clock' ELSE wantedSince[r]]

RecordReported ==
    reported' = {r \in Reasons :
        /\ wantedSince'[r] # NoTime
        /\ \/ r \in reported /\ wantedSince'[r] = wantedSince[r]
           \/ pc' = "apply" /\ dec'.fired}

TimelyInit ==
    /\ Init
    /\ nextResync = StartTime + Period
    /\ wantedSince = [r \in Reasons |-> IF Asks(r) THEN clock ELSE NoTime]
    /\ reported = {}

Rested ==
    /\ pc = "idle" /\ ~ dirty /\ ~ retry
    /\ feed = <<>>
    /\ nextResync > clock

TimelyTick ==
    /\ Rested
    /\ Tick
    /\ UNCHANGED nextResync

PeriodicResync ==
    /\ clock >= nextResync
    /\ Resync
    /\ nextResync' = clock + Period

\* A deferred enqueue comes due, or an informer replays what it has: one more
\* look, which nothing promises.
ExtraLook ==
    /\ Resync
    /\ UNCHANGED nextResync

\* A new process starts its ticker anew.
TimelyCrash ==
    /\ Crash
    /\ nextResync' = clock + Period

Untimed ==
    /\ Worker \/ Deliver \/ RetryFires \/ Workload \/ ApplyFails
    /\ UNCHANGED nextResync

\* The bound on the clock: the model ends here, the program does not.
EndOfTime ==
    /\ clock = MaxTime /\ Rested
    /\ UNCHANGED vars
    /\ UNCHANGED nextResync

TimelyNext ==
    /\ TimelyTick \/ PeriodicResync \/ ExtraLook \/ TimelyCrash \/ Untimed \/ EndOfTime
    /\ RecordWanted
    /\ RecordReported

TimelySpec == TimelyInit /\ [][TimelyNext]_timelyVars

-----------------------------------------------------------------------------
Deadline == CooldownFor(Policy, DecodeState(live.state)) + 2 * Period

\* A reason that lasts is acted upon: when a pod has been named by an event,
\* or has waited for too long, or the pool has been drained, without a break,
\* the flip it asks for comes before the cooldown of the current state and two
\* resync periods are over - one until the reason is first looked at, one
\* after the cooldown has run out.  The bound holds in both directions and
\* with a crash or a failed apply on the way.
FlipsInTime ==
    \A r \in Lasting : wantedSince[r] # NoTime => clock < wantedSince[r] + Deadline


\* The dry run shows what the live run would do: while a reason to flip lasts,
\* a decision to flip reaches the action in the same time, whichever action it
\* is, although only Patch writes the timer to the Queue.
FlipsReported ==
    \A r \in Lasting : wantedSince[r] # NoTime =>
        r \in reported \/ clock < wantedSince[r] + Deadline
=============================================================================
