----------------------------- MODULE QueueSpill -----------------------------
(***************************************************************************)
(* One policy, its Queue, and the controller's reconcile loop.             *)
(*                                                                         *)
(* The Queue lives in the API server (live).  The controller never reads   *)
(* it there: it reads an informer cache, which trails the API server by    *)
(* the watch events still in feed.  A reconcile is a sequence of separate  *)
(* steps - dequeue and read the clock, list the PodGroups, the pods and    *)
(* the nodes, read the Queue and the events and evaluate, send the         *)
(* server-side apply, get its reply - and the rest of the cluster moves    *)
(* between any two of them.                                                *)
(***************************************************************************)
EXTENDS SpillEvaluator, Sequences

CONSTANTS
    Policy,      \* the policy record the controller reconciles
    Hazards,     \* what the environment may do besides running the workload
    Modes,       \* the actions a process may have been started with
    StartTime,   \* the clock when the controller first starts
    Pods,        \* names of pods that carry the annotation of a PodGroup
    Nodes,       \* names of nodes of the policy's two pools
    NoNode,      \* where a pod is that is not bound
    StartSignals,\* what the caches may hold when the controller first starts
    MaxTime,     \* bound: the clock stops here
    MaxChanges,  \* bound: changes of the signals
    MaxFaults,   \* bound: failed applies, crashes, edits and deletions
    MaxFeed      \* bound: undelivered watch events

\* "stale": Build may read the Queue while watch events are undelivered.
\* "fail":  an apply may return an error, before or after it took effect.
\* "crash": the controller process may stop and be replaced.
\* "late":  an apply whose sender failed or is gone may still land.
\* "edit":  somebody else may change the Queue's node group affinity.
\* "delete": somebody may delete the Queue, and create it again.
AllHazards == {"stale", "fail", "crash", "late", "edit", "delete"}

ASSUME PolicyAssumption == Policy \in PolicyType
ASSUME HazardsAssumption == Hazards \subseteq AllHazards
ASSUME ModesAssumption == Modes \subseteq {"Patch", "Nope"} /\ Modes # {}
ASSUME NodesAssumption == NoNode \notin Nodes
ASSUME StartAssumption == StartTime \in Nat /\ StartTime >= Second
ASSUME BoundsAssumption ==
    /\ MaxTime \in Nat
    /\ MaxChanges \in Nat
    /\ MaxFaults \in Nat
    /\ MaxFeed \in Nat

VARIABLES
    live,       \* the Queue in the API server
    cache,      \* the Queue in the informer cache
    feed,       \* versions of the Queue the watch has yet to deliver, oldest first
    clock,      \* wall-clock time
    signal,     \* the PodGroup, pod, node and event caches
    dirty,      \* the policy is in the workqueue's dirty set
    retry,      \* a rate-limited re-add is waiting for its delay
    pc,         \* where the worker is
    now,        \* the clock the worker read for this reconcile
    seen,       \* what Build has listed of them so far
    dec,        \* the decision of this reconcile
    mode,       \* the action this process was started with
    flying,     \* decisions of abandoned applies that may still land
    changes,    \* signal changes so far
    faults,     \* environment faults so far
    flippedAt,  \* history: observation time of the last applied flip
    falseAt,    \* history: observation time of the last false condition
    clearLost   \* history: the apply that recorded it was lost

queueVars  == <<live, cache, feed>>
workerVars == <<pc, now, seen, dec>>
process    == <<mode, flying>>
history    == <<flippedAt, falseAt, clearLost>>
vars == <<live, cache, feed, clock, signal, dirty, retry, pc, now, seen, dec,
          mode, flying, changes, faults, flippedAt, falseAt, clearLost>>

-----------------------------------------------------------------------------
(* Data                                                                    *)

Groups == {Policy.dedicated, Policy.overflow}

AffinityType == [required : SUBSET Groups, preferred : SUBSET Groups]

HashType == [state : State \cup {Unset}, affinity : AffinityType, since : Nat]

QueueType ==
    [exists : BOOLEAN, state : State \cup {Unset}, since : Nat, hash : HashType,
     affinity : AffinityType]

\* A stored pod: since when it has been unschedulable, and its node.
PodType == [since : Nat, node : Nodes \cup {NoNode}]

\* What the caches hold: the pods whose PodGroup is one of the policy's (it
\* names the policy's Queue and is not Completed), the pods, the nodes that
\* are labelled as the overflow pool - the others are the dedicated pool -
\* and the pods that an autoscaler event names.
SignalType ==
    [members : SUBSET Pods, pods : [Pods -> PodType], pool : SUBSET Nodes,
     events : SUBSET Pods]

ASSUME SignalsAssumption == StartSignals \subseteq SignalType

SeenType == [members : SUBSET Pods, pods : [Pods -> PodType], pool : SUBSET Nodes]

Absent == [since |-> NoTime, node |-> NoNode]

NothingSeen == [members |-> {}, pods |-> [p \in Pods |-> Absent], pool |-> {}]

\* What a snapshot counts, from the caches c or from what was listed of them.
PodNames(c) == {p \in c.members : c.pods[p] # Absent}

Waits(c, time) == {UnschedulableFor(c.pods[p].since, time) : p \in c.members}

OverflowPods(c) == {p \in c.members : c.pods[p].node \in c.pool}

DecisionType ==
    [from : State, state : State, since : Nat, fired : BOOLEAN,
     affinity : AffinityType, hash : HashType]

NoDecision ==
    [from |-> Steady, state |-> Steady, since |-> NoTime, fired |-> FALSE,
     affinity |-> NoAffinity, hash |-> NoHash]

\* The node groups the scheduler may bind the policy's pods to.
Schedulable == IF live.affinity = NoAffinity THEN Groups ELSE live.affinity.required

Init ==
    /\ live = EmptyQueue
    /\ cache = EmptyQueue
    /\ feed = <<>>
    /\ clock = StartTime
    /\ signal \in StartSignals
    /\ dirty = TRUE
    /\ retry = FALSE
    /\ pc = "idle"
    /\ now = NoTime
    /\ seen = NothingSeen
    /\ dec = NoDecision
    /\ mode \in Modes
    /\ flying = {}
    /\ changes = 0
    /\ faults = 0
    /\ flippedAt = NoTime
    /\ falseAt = NoTime
    /\ clearLost = FALSE

-----------------------------------------------------------------------------
(* The worker                                                              *)

\* processNextItem takes the key; ReconcilePolicy reads its clock first.
Dequeue ==
    /\ pc = "idle"
    /\ dirty
    /\ dirty' = FALSE
    /\ pc' = "groups"
    /\ now' = clock
    /\ UNCHANGED <<queueVars, clock, signal, retry, seen, dec, process, changes, faults, history>>

\* Build lists the policy's PodGroups, then the pods that belong to the groups
\* it has listed, then the nodes.
ListPodGroups ==
    /\ pc = "groups"
    /\ pc' = "pods"
    /\ seen' = [seen EXCEPT !.members = signal.members]
    /\ UNCHANGED <<queueVars, clock, signal, dirty, retry, now, dec, process,
                   changes, faults, history>>

ListPods ==
    /\ pc = "pods"
    /\ pc' = "nodes"
    /\ seen' = [seen EXCEPT !.pods = [p \in Pods |-> IF p \in seen.members
                                                     THEN signal.pods[p] ELSE Absent]]
    /\ UNCHANGED <<queueVars, clock, signal, dirty, retry, now, dec, process,
                   changes, faults, history>>

ListNodes ==
    /\ pc = "nodes"
    /\ pc' = "read"
    /\ seen' = [seen EXCEPT !.pool = signal.pool]
    /\ UNCHANGED <<queueVars, clock, signal, dirty, retry, now, dec, process,
                   changes, faults, history>>

\* The reconcile returns and its local variables go out of scope.
EndReconcile ==
    /\ pc' = "idle"
    /\ now' = NoTime
    /\ seen' = NothingSeen
    /\ dec' = NoDecision

\* The events are matched with the names of the pods that were listed before.
CurrentSnapshot ==
    Snapshot(Policy, now, PodNames(seen) \cap signal.events # {}, Waits(seen, now),
             OverflowPods(seen), cache)

\* Build reads the Queue and the events, Evaluate decides, and the hash gate
\* either ends the reconcile or lets the decision through to the action.
Decide ==
    /\ pc = "read"
    /\ "stale" \in Hazards \/ feed = <<>>
    /\ LET s == CurrentSnapshot
           d == Evaluate(s)
       IN  /\ falseAt' = IF InstantCondition(s) THEN falseAt ELSE now
           /\ clearLost' = (clearLost /\ InstantCondition(s))
           /\ \/ d.hash = s.hash /\ EndReconcile
              \/ d.hash # s.hash /\ pc' = "apply" /\ dec' = d /\ UNCHANGED <<now, seen>>
    /\ UNCHANGED <<queueVars, clock, signal, dirty, retry, process, changes, faults, flippedAt>>

\* The API server stores q; an update that changes nothing makes no event.
Store(q) ==
    /\ live' = q
    /\ feed' = IF q = live THEN feed ELSE Append(feed, q)
    /\ cache' = cache

\* The forced server-side apply takes effect, whatever the Queue holds now.
ApplyLands ==
    /\ pc = "apply" /\ mode = "Patch"
    /\ live.exists
    /\ Len(feed) < MaxFeed
    /\ Store(MaterializeQueue(dec))
    /\ pc' = "reply"
    /\ flippedAt' = IF dec.fired THEN now ELSE flippedAt
    /\ UNCHANGED <<clock, signal, dirty, retry, now, seen, dec, process, changes, faults,
                   falseAt, clearLost>>

ApplyReplies ==
    /\ pc = "reply"
    /\ EndReconcile
    /\ UNCHANGED <<queueVars, clock, signal, dirty, retry, process, changes, faults, history>>

\* History: a decision to clear the timer goes no further than the worker.
RecordLoss == clearLost' = (clearLost \/ (pc = "apply" /\ dec.since = NoTime))

\* An apply to a Queue that is not there would create it, and the controller's
\* role has no such verb: the API server refuses, and the key is re-added
\* after a backoff.
ApplyForbidden ==
    /\ pc = "apply" /\ mode = "Patch"
    /\ ~ live.exists
    /\ EndReconcile
    /\ RecordLoss
    /\ retry' = TRUE
    /\ UNCHANGED <<queueVars, clock, signal, dirty, process, changes, faults,
                   flippedAt, falseAt>>

\* The dry run prints the decision; the Queue, and the ledger on it, stay as
\* they are.
NopeApplies ==
    /\ pc = "apply" /\ mode = "Nope"
    /\ EndReconcile
    /\ RecordLoss
    /\ UNCHANGED <<queueVars, clock, signal, dirty, retry, process, changes, faults,
                   flippedAt, falseAt>>

\* The sender gives up on a request that is on its way: it is lost, or it is
\* not.
Abandon ==
    \/ UNCHANGED flying
    \/ /\ "late" \in Hazards /\ pc = "apply" /\ mode = "Patch"
       /\ flying' = flying \cup {dec}

\* The action returns an error: the request has not taken effect ("apply") or
\* its reply was lost ("reply").  The key is re-added after a backoff.
ApplyFails ==
    /\ "fail" \in Hazards /\ faults < MaxFaults
    /\ pc \in {"apply", "reply"}
    /\ EndReconcile
    /\ RecordLoss
    /\ Abandon
    /\ retry' = TRUE
    /\ faults' = faults + 1
    /\ UNCHANGED <<queueVars, clock, signal, dirty, mode, changes, flippedAt, falseAt>>

-----------------------------------------------------------------------------
(* What puts the policy into the workqueue                                 *)

\* The watch delivers the next version of the Queue and its handler runs.
Deliver ==
    /\ feed # <<>>
    /\ cache' = Head(feed)
    /\ feed' = Tail(feed)
    /\ dirty' = (dirty \/ Head(feed) # cache)
    /\ UNCHANGED <<live, clock, signal, retry, workerVars, process, changes, faults, history>>

\* Mutant: nothing comes back to look.
ResyncDisabled == UNCHANGED vars

\* The periodic resync, an informer resync or a deferred enqueue comes due.
Resync ==
    /\ dirty' = TRUE
    /\ UNCHANGED <<queueVars, clock, signal, retry, workerVars, process, changes, faults, history>>

RetryFires ==
    /\ retry
    /\ retry' = FALSE
    /\ dirty' = TRUE
    /\ UNCHANGED <<queueVars, clock, signal, workerVars, process, changes, faults, history>>

\* A signal changes in the caches; enqueues says whether a handler reacts.
SignalChange(s, enqueues) ==
    /\ changes < MaxChanges
    /\ changes' = changes + 1
    /\ signal' = s
    /\ dirty' = (dirty \/ enqueues)
    /\ UNCHANGED <<queueVars, clock, retry, workerVars, process, faults, history>>

\* The autoscaler reports that it cannot scale up for a pod.  The handler
\* enqueues only if the pod and its PodGroup are cached already.
AutoscalerEvent ==
    \E p \in Pods \ signal.events, enqueues \in BOOLEAN :
        /\ enqueues => signal.pods[p] # Absent
        /\ SignalChange([signal EXCEPT !.events = @ \cup {p}], enqueues)

\* The event is garbage-collected; events have no delete handler.
EventExpires ==
    \E p \in signal.events : SignalChange([signal EXCEPT !.events = @ \ {p}], FALSE)

\* A pod turns unschedulable.  Its transition time is in whole seconds.  The
\* handler enqueues at once only if the pod is the policy's and the wait is
\* already at the threshold.
PodUnschedulable ==
    LET t == Truncate(clock)
    IN  \E p \in Pods :
            /\ signal.pods[p] = Absent
            /\ SignalChange([signal EXCEPT !.pods[p].since = t],
                            p \in signal.members /\ clock >= t + Policy.timePendingMax)

\* A pod is bound: one of the policy's to a pool the Queue lets it onto, one
\* of another Queue anywhere.  A pod that is not, or no longer, unschedulable
\* enqueues nothing.
PodBinds ==
    \E p \in Pods, n \in Nodes :
        /\ signal.pods[p].node = NoNode
        /\ \/ p \notin signal.members
           \/ n \in signal.pool /\ Policy.overflow \in Schedulable
           \/ n \notin signal.pool /\ Policy.dedicated \in Schedulable
        /\ SignalChange([signal EXCEPT !.pods[p] = [since |-> NoTime, node |-> n]], FALSE)

\* A pod is deleted: pod deletions have no handler, and its event stays.
PodGone ==
    \E p \in Pods :
        /\ signal.pods[p] # Absent
        /\ SignalChange([signal EXCEPT !.pods[p] = Absent], FALSE)

\* Nodes are relabelled from one pool to the other.
NodesMove ==
    \E pool \in SUBSET Nodes \ {signal.pool} :
        SignalChange([signal EXCEPT !.pool = pool], TRUE)

\* PodGroups are bound to another Queue or to this one, complete or run again,
\* and take their pods along: those that wait, those on the overflow pool and
\* those an event names.
PodGroupsMove ==
    \E members \in SUBSET Pods \ {signal.members} :
        SignalChange([signal EXCEPT !.members = members], TRUE)

-----------------------------------------------------------------------------
(* Time and faults                                                         *)

Tick ==
    /\ clock < MaxTime
    /\ clock' = clock + 1
    /\ UNCHANGED <<queueVars, signal, dirty, retry, workerVars, process, changes, faults, history>>

\* The process stops wherever it is, or loses the lease, and another one takes
\* over: it picks its action from the configuration, its informers list the
\* cluster afresh and the initial events enqueue the policy.
Crash ==
    /\ "crash" \in Hazards /\ faults < MaxFaults
    /\ faults' = faults + 1
    /\ EndReconcile
    /\ RecordLoss
    /\ Abandon
    /\ mode' \in Modes
    /\ dirty' = TRUE
    /\ retry' = FALSE
    /\ cache' = live
    /\ feed' = <<>>
    /\ UNCHANGED <<live, clock, signal, changes, flippedAt, falseAt>>

\* An abandoned apply lands after all, or is refused for want of a Queue.
LateLands ==
    /\ Len(feed) < MaxFeed
    /\ \E d \in flying :
          /\ Store(IF live.exists THEN MaterializeQueue(d) ELSE live)
          /\ flying' = flying \ {d}
          /\ flippedAt' = IF live.exists /\ d.fired THEN d.since ELSE flippedAt
    /\ UNCHANGED <<clock, signal, dirty, retry, workerVars, mode, changes, faults,
                   falseAt, clearLost>>

EditAffinity ==
    /\ "edit" \in Hazards /\ faults < MaxFaults /\ Len(feed) < MaxFeed
    /\ live.exists
    /\ faults' = faults + 1
    /\ \E a \in {AffinityFor(Policy, Steady), AffinityFor(Policy, Spill), NoAffinity} :
          Store([live EXCEPT !.affinity = a])
    /\ UNCHANGED <<clock, signal, dirty, retry, workerVars, process, changes, history>>

DeleteQueue ==
    /\ "delete" \in Hazards /\ faults < MaxFaults /\ Len(feed) < MaxFeed
    /\ live.exists
    /\ faults' = faults + 1
    /\ Store(NoQueue)
    /\ flippedAt' = NoTime
    /\ UNCHANGED <<clock, signal, dirty, retry, workerVars, process, changes, falseAt,
                   clearLost>>

\* Nobody but an operator creates the Queue again.
CreateQueue ==
    /\ ~ live.exists /\ Len(feed) < MaxFeed
    /\ Store(EmptyQueue)
    /\ UNCHANGED <<clock, signal, dirty, retry, workerVars, process, changes, faults, history>>

-----------------------------------------------------------------------------
Listing == ListPodGroups \/ ListPods \/ ListNodes

Worker ==
    \/ Dequeue \/ Listing \/ Decide
    \/ ApplyLands \/ ApplyForbidden \/ ApplyReplies \/ NopeApplies

Enqueuing == Deliver \/ Resync \/ RetryFires

Workload ==
    \/ AutoscalerEvent \/ EventExpires
    \/ PodUnschedulable \/ PodBinds \/ PodGone
    \/ NodesMove \/ PodGroupsMove

Faults == ApplyFails \/ Crash \/ LateLands \/ EditAffinity \/ DeleteQueue \/ CreateQueue

Next == Worker \/ Enqueuing \/ Workload \/ Tick \/ Faults

Spec == Init /\ [][Next]_vars

\* The worker goroutine runs, the watch delivers, tickers fire, time passes.
\* Nothing is promised of the workload or of the faults.
Fairness ==
    /\ WF_vars(Worker)
    /\ WF_vars(Deliver)
    /\ WF_vars(Resync)
    /\ WF_vars(RetryFires)
    /\ WF_vars(Tick)

FairSpec == Spec /\ Fairness

-----------------------------------------------------------------------------
(* Properties                                                              *)

\* Every variable has its type.
TypeOK ==
    /\ live \in QueueType
    /\ cache \in QueueType
    /\ feed \in Seq(QueueType)
    /\ clock \in Nat
    /\ signal \in SignalType
    /\ dirty \in BOOLEAN
    /\ retry \in BOOLEAN
    /\ pc \in {"idle", "groups", "pods", "nodes", "read", "apply", "reply"}
    /\ now \in Nat
    /\ seen \in SeenType
    /\ dec \in DecisionType
    /\ mode \in Modes
    /\ flying \in SUBSET DecisionType
    /\ changes \in Nat
    /\ faults \in Nat
    /\ flippedAt \in Nat
    /\ falseAt \in Nat
    /\ clearLost \in BOOLEAN

\* The hash annotation never vouches for a ledger that is not there: in the
\* API server and in every cached version of it, a Queue that carries a
\* decision hash carries the state and the timer that were hashed, whatever
\* was edited around them and however many applies were lost.  The hash gate
\* in ReconcilePolicy is sound only because of this.
HashVouches(q) ==
    q.hash # NoHash =>
        q.hash = HashDecision(q.state, AffinityFor(Policy, q.state), q.since)

HashVouchesForLedger ==
    /\ HashVouches(live)
    /\ HashVouches(cache)
    /\ \A i \in 1..Len(feed) : HashVouches(feed[i])

\* Restarts are free and own writes do not echo: a decision passes the hash
\* gate only if it would change the state or the timer of the Queue it was
\* computed from.  Neither a restart nor the watch event of the
\* controller's own apply makes it write the same decision again.
NoRedundantWrite ==
    [][(pc = "read" /\ pc' = "apply") =>
          <<dec'.state, Truncate(dec'.since)>> # <<cache.state, cache.since>>]_vars

\* Switch-back needs a drained pool: an apply that turns a Spill Queue back
\* to Steady was decided by a reconcile that counted no policy pod on the
\* overflow pool.
SwitchbackDrained ==
    (pc = "apply" /\ DecodeState(live.state) = Spill /\ dec.state = Steady)
        => OverflowPods(seen) = {}

\* The cooldown survives persistence: two flips are observed at least the
\* cooldown of the state in between apart, short of the one second that the
\* RFC3339 annotation may lose, through restarts, failed applies and replies
\* that were lost after the write took effect.
MinimumDwell ==
    (pc = "apply" /\ dec.fired /\ flippedAt # NoTime)
        => now + Second > flippedAt + CooldownFor(Policy, dec.from)

\* The timer restarts when the condition turns false: no flip is decided
\* within a cooldown of a reconcile that saw its condition false, unless the
\* apply that should have recorded it was lost.
ConditionSustained ==
    (pc = "apply" /\ dec.fired /\ falseAt # NoTime /\ ~ clearLost)
        => now + Second > falseAt + CooldownFor(Policy, dec.from)

\* The loop comes to rest: once signals and faults have stopped changing, a
\* process started with Patch stops sending applies for a Queue that exists.
Quiesces == <>[](mode = "Patch" /\ live.exists => pc \notin {"apply", "reply"})

\* What Build would return now, were it to read the live Queue.
SnapshotNow ==
    Snapshot(Policy, clock, PodNames(signal) \cap signal.events # {},
             Waits(signal, clock), OverflowPods(signal), live)

\* The ledger on the Queue is what Evaluate would write there now.
LedgerCurrent == Evaluate(SnapshotNow).hash = live.hash

\* The loop heals itself: whatever stale reads, torn listings, failed applies,
\* crashes, handovers with an apply still on its way, dry runs, deletions and
\* re-creations came before, the ledger on the Queue ends up, and stays, the
\* one the signals ask for, if there is a Queue to write it to and the last
\* process was started with Patch.
Converges == <>[](mode = "Patch" /\ live.exists => LedgerCurrent)

\* Drift is corrected: an affinity that does not belong to the Queue's state
\* is eventually put back (docs/design.md section 5, consequence 2).
DriftCorrected ==
    (live.affinity # AffinityFor(Policy, DecodeState(live.state)))
        ~> (live.affinity = AffinityFor(Policy, DecodeState(live.state)))

=============================================================================
