--------------------------- MODULE WatcherManager ---------------------------
(***************************************************************************)
(* The watcher manager: the workqueue, the map of deferred deadlines, the  *)
(* worker goroutine, the pod handlers that arm the stale-pending timer,    *)
(* the periodic resync and the shutdown sequence.                          *)
(*                                                                         *)
(* A tick is one second.  The goroutines are quick compared with it: time  *)
(* passes only when nothing is due.  What a reconcile does is modelled in  *)
(* QueueSpill; here it takes the policy's pods as they are and succeeds,   *)
(* fails, or does not know the policy.                                     *)
(***************************************************************************)
EXTENDS Naturals, Sequences

CONSTANTS
    NoKey,           \* what the worker holds when it holds no key
    Policies,        \* names in the policy registry
    Known,           \* the policies the snapshot builder resolves
    Pods,
    PolicyOf,        \* the policy each pod resolves to
    Threshold,       \* timePendingMax, in seconds
    InformerResync,  \* period of the informers' resync
    MayStop,         \* whether Stop may be called
    MaxTime,         \* bound: the clock
    MaxChanges,      \* bound: pods turning unschedulable or being bound
    MaxFailures,     \* bound: failed reconciles
    MaxBackoff       \* bound: the rate limiter's delay after a failure

ASSUME PoliciesAssumption == Known \subseteq Policies /\ NoKey \notin Policies
ASSUME PodsAssumption == PolicyOf \in [Pods -> Policies]
ASSUME TimesAssumption ==
    /\ Threshold \in Nat
    /\ InformerResync \in Nat \ {0}
    /\ MayStop \in BOOLEAN
    /\ MaxTime \in Nat /\ MaxChanges \in Nat /\ MaxFailures \in Nat
    /\ MaxBackoff \in Nat

Never == 0   \* no deadline, no timestamp: the clock starts at 1

VARIABLES
    queue,         \* workqueue: keys ready to be taken, in order
    dirty,         \* workqueue: keys that need processing
    processing,    \* workqueue: keys taken and not yet done
    waiting,       \* workqueue: when the delayed add of a key comes due
    requeues,      \* rate limiter: failures of a key since it was forgotten
    shuttingDown,  \* workqueue: ShutDown was called
    pendingWork,   \* PendingWorkMap: the earliest deferred deadline of a policy
    worker,        \* where the worker goroutine is, and with which key
    inFlight,      \* the manager's in-flight counter
    stop,          \* where Stop is
    pendingSince,  \* when a pod turned unschedulable, as the pod cache says
    toResync,      \* pods whose resync update the handler has yet to see
    nextResync,    \* when the informers resync next
    clock,
    changes,
    failures,
    reconciledAt   \* history: when a policy's pods were last looked at

workqueue == <<queue, dirty, processing, waiting, requeues, shuttingDown>>
podVars   == <<pendingSince, toResync, nextResync>>
bounds    == <<changes, failures>>
vars == <<workqueue, pendingWork, worker, inFlight, stop, podVars, clock,
          bounds, reconciledAt>>

Init ==
    /\ queue = <<>>
    /\ dirty = {}
    /\ processing = {}
    /\ waiting = [k \in Policies |-> Never]
    /\ requeues = [k \in Policies |-> 0]
    /\ shuttingDown = FALSE
    /\ pendingWork = [k \in Policies |-> Never]
    /\ worker = [at |-> "get", key |-> NoKey]
    /\ inFlight = 0
    /\ stop = "running"
    /\ pendingSince = [p \in Pods |-> Never]
    /\ toResync = {}
    /\ clock = 1
    /\ nextResync = clock + InformerResync
    /\ changes = 0
    /\ failures = 0
    /\ reconciledAt = [k \in Policies |-> Never]

-----------------------------------------------------------------------------
(* client-go's workqueue.  A key that is added while it is processed goes  *)
(* back into the queue when it is done; a delayed add keeps the earliest   *)
(* time asked for; after ShutDown nothing is added.                        *)

Add(key) ==
    IF shuttingDown \/ key \in dirty
    THEN UNCHANGED <<dirty, queue>>
    ELSE /\ dirty' = dirty \cup {key}
         /\ queue' = IF key \in processing THEN queue ELSE Append(queue, key)

Earliest(a, b) == IF a # Never /\ a <= b THEN a ELSE b

AddAfter(key, delay) ==
    waiting' = IF shuttingDown THEN waiting
               ELSE [waiting EXCEPT ![key] = Earliest(@, clock + delay)]

DelayedAdd(key) ==
    /\ waiting[key] # Never /\ waiting[key] <= clock
    /\ ~ shuttingDown
    /\ waiting' = [waiting EXCEPT ![key] = Never]
    /\ Add(key)
    /\ UNCHANGED <<processing, requeues, shuttingDown, pendingWork, worker, inFlight,
                   stop, podVars, clock, bounds, reconciledAt>>

-----------------------------------------------------------------------------
(* Pod handlers                                                            *)

\* PendingWorkMap.ShouldEnqueueAfter: an earlier or equal deadline wins.
ShouldEnqueueAfter(key, deadline) ==
    pendingWork[key] = Never \/ pendingWork[key] > deadline

Enqueue(key) == Add(key) /\ UNCHANGED <<waiting, pendingWork>>

EnqueueAfter(key, delay) ==
    /\ IF ShouldEnqueueAfter(key, clock + delay)
       THEN /\ pendingWork' = [pendingWork EXCEPT ![key] = clock + delay]
            /\ AddAfter(key, delay)
       ELSE UNCHANGED <<pendingWork, waiting>>
    /\ UNCHANGED <<queue, dirty>>

\* Mutant: a wait that has reached the threshold is nobody's business.
CheckStalePendingDeferOnly(pod, since) ==
    LET elapsed == clock - since
    IN  IF since # Never /\ elapsed < Threshold
        THEN EnqueueAfter(PolicyOf[pod], Threshold - elapsed + 1)
        ELSE UNCHANGED <<queue, dirty, waiting, pendingWork>>

\* A pod whose wait has reached the threshold enqueues its policy; one that
\* has not defers the enqueue to one second past the threshold.
CheckStalePending(pod, since) ==
    LET elapsed == clock - since
    IN  \/ /\ since = Never
           /\ UNCHANGED <<queue, dirty, waiting, pendingWork>>
        \/ /\ since # Never /\ elapsed >= Threshold
           /\ Enqueue(PolicyOf[pod])
        \/ /\ since # Never /\ elapsed < Threshold
           /\ EnqueueAfter(PolicyOf[pod], Threshold - elapsed + 1)

PodUpdate(pod, since) ==
    /\ stop = "running"
    /\ changes < MaxChanges
    /\ changes' = changes + 1
    /\ pendingSince' = [pendingSince EXCEPT ![pod] = since]
    /\ CheckStalePending(pod, since)
    /\ UNCHANGED <<processing, requeues, shuttingDown, worker, inFlight, stop,
                   toResync, nextResync, clock, failures, reconciledAt>>

PodUnschedulable(pod) == pendingSince[pod] = Never /\ PodUpdate(pod, clock)

PodBinds(pod) == pendingSince[pod] # Never /\ PodUpdate(pod, Never)

\* The informers replay every object as an update, one handler call each.
ResyncInformers ==
    /\ stop = "running"
    /\ clock >= nextResync
    /\ nextResync' = clock + InformerResync
    /\ toResync' = Pods
    /\ UNCHANGED <<workqueue, pendingWork, worker, inFlight, stop, pendingSince,
                   clock, bounds, reconciledAt>>

ResyncPod(pod) ==
    /\ pod \in toResync
    /\ toResync' = toResync \ {pod}
    /\ CheckStalePending(pod, pendingSince[pod])
    /\ UNCHANGED <<processing, requeues, shuttingDown, worker, inFlight, stop,
                   pendingSince, nextResync, clock, bounds, reconciledAt>>

-----------------------------------------------------------------------------
(* The worker                                                              *)

Running == stop \in {"running", "waiting"}   \* after Stop, the process exits

GetItem ==
    /\ Running
    /\ worker.at = "get"
    /\ queue # <<>>
    /\ LET key == Head(queue)
       IN  /\ queue' = Tail(queue)
           /\ dirty' = dirty \ {key}
           /\ processing' = processing \cup {key}
           /\ worker' = [at |-> "got", key |-> key]
    /\ UNCHANGED <<waiting, requeues, shuttingDown, pendingWork, inFlight, stop,
                   podVars, clock, bounds, reconciledAt>>

WorkerExits ==
    /\ Running
    /\ worker.at = "get"
    /\ queue = <<>> /\ shuttingDown
    /\ worker' = [at |-> "exited", key |-> NoKey]
    /\ UNCHANGED <<workqueue, pendingWork, inFlight, stop, podVars, clock, bounds,
                   reconciledAt>>

\* Mutant: the deadline is not forgotten.
BeginReconcileKeepsDeadline ==
    /\ Running
    /\ worker.at = "got"
    /\ inFlight' = inFlight + 1
    /\ worker' = [worker EXCEPT !.at = "reconciling"]
    /\ UNCHANGED <<workqueue, pendingWork, stop, podVars, clock, bounds, reconciledAt>>

\* The deferred deadline of the key is forgotten, then the item is counted.
BeginReconcile ==
    /\ Running
    /\ worker.at = "got"
    /\ pendingWork' = [pendingWork EXCEPT ![worker.key] = Never]
    /\ inFlight' = inFlight + 1
    /\ worker' = [worker EXCEPT !.at = "reconciling"]
    /\ UNCHANGED <<workqueue, stop, podVars, clock, bounds, reconciledAt>>

\* Mutant: the in-flight counter is not taken down.
ReturnedUncounted ==
    /\ Running
    /\ worker.at = "reconciling"
    /\ worker' = [worker EXCEPT !.at = "returned"]
    /\ UNCHANGED <<queue, dirty, processing, shuttingDown, pendingWork, stop,
                   podVars, clock, changes, inFlight>>

\* ReconcilePolicy returned: the in-flight counter goes down first.
Returned ==
    /\ Running
    /\ worker.at = "reconciling"
    /\ worker' = [worker EXCEPT !.at = "returned"]
    /\ inFlight' = inFlight - 1
    /\ UNCHANGED <<queue, dirty, processing, shuttingDown, pendingWork, stop,
                   podVars, clock, changes>>

Forget == requeues' = [requeues EXCEPT ![worker.key] = 0]

ReconcileSucceeds ==
    /\ worker.key \in Known
    /\ Returned
    /\ Forget
    /\ reconciledAt' = [reconciledAt EXCEPT ![worker.key] = clock]
    /\ UNCHANGED <<waiting, failures>>

\* ErrUnknownPolicy: the item is dropped.
ReconcileUnknown ==
    /\ worker.key \notin Known
    /\ Returned
    /\ Forget
    /\ UNCHANGED <<waiting, failures, reconciledAt>>

\* Any other error: a rate-limited re-add.
ReconcileFails ==
    /\ worker.key \in Known
    /\ failures < MaxFailures
    /\ failures' = failures + 1
    /\ Returned
    /\ \E delay \in 0..MaxBackoff : AddAfter(worker.key, delay)
    /\ requeues' = [requeues EXCEPT ![worker.key] = @ + 1]
    /\ UNCHANGED reconciledAt

\* Mutant: a key that was added while it was processed is not queued again.
DoneForgets ==
    /\ Running
    /\ worker.at = "returned"
    /\ processing' = processing \ {worker.key}
    /\ worker' = [at |-> "get", key |-> NoKey]
    /\ UNCHANGED <<queue, dirty, waiting, requeues, shuttingDown, pendingWork,
                   inFlight, stop, podVars, clock, bounds, reconciledAt>>

\* workqueue.Done: a key that was added meanwhile is queued again.
Done ==
    /\ Running
    /\ worker.at = "returned"
    /\ processing' = processing \ {worker.key}
    /\ queue' = IF worker.key \in dirty THEN Append(queue, worker.key) ELSE queue
    /\ worker' = [at |-> "get", key |-> NoKey]
    /\ UNCHANGED <<dirty, waiting, requeues, shuttingDown, pendingWork, inFlight,
                   stop, podVars, clock, bounds, reconciledAt>>

Worker ==
    \/ GetItem \/ WorkerExits \/ BeginReconcile \/ Done
    \/ ReconcileSucceeds \/ ReconcileUnknown \/ ReconcileFails

-----------------------------------------------------------------------------
(* Periodic resync, shutdown and time                                      *)

\* One round of the loop over the registry's policies that each tick runs.
PeriodicResync(key) ==
    /\ stop = "running"
    /\ Add(key)
    /\ UNCHANGED <<processing, waiting, requeues, shuttingDown, pendingWork, worker,
                   inFlight, stop, podVars, clock, bounds, reconciledAt>>

\* Stop closes the stop channel and shuts the workqueue down ...
BeginStop ==
    /\ MayStop
    /\ stop = "running"
    /\ stop' = "waiting"
    /\ shuttingDown' = TRUE
    /\ UNCHANGED <<queue, dirty, processing, waiting, requeues, pendingWork, worker,
                   inFlight, podVars, clock, bounds, reconciledAt>>

\* ... and polls until nothing is counted in flight or queued, or time is up.
StopReturns ==
    /\ stop = "waiting"
    /\ \/ inFlight = 0 /\ queue = <<>> /\ stop' = "clean"
       \/ stop' = "timed out"
    /\ UNCHANGED <<workqueue, pendingWork, worker, inFlight, podVars, clock, bounds,
                   reconciledAt>>

Exited == ~ Running /\ UNCHANGED vars

Rested ==
    /\ worker.at = "get" /\ queue = <<>>
    /\ toResync = {} /\ nextResync > clock
    /\ \A k \in Policies : waiting[k] = Never \/ waiting[k] > clock

Tick ==
    /\ stop = "running"
    /\ Rested
    /\ clock < MaxTime
    /\ clock' = clock + 1
    /\ UNCHANGED <<workqueue, pendingWork, worker, inFlight, stop, podVars, bounds,
                   reconciledAt>>

Next ==
    \/ Worker
    \/ \E k \in Policies : DelayedAdd(k) \/ PeriodicResync(k)
    \/ \E p \in Pods : PodUnschedulable(p) \/ PodBinds(p) \/ ResyncPod(p)
    \/ ResyncInformers
    \/ BeginStop \/ StopReturns \/ Exited
    \/ Tick

Spec == Init /\ [][Next]_vars

\* The worker goroutine is scheduled; Stop's poll loop is.
Fairness == WF_vars(Worker) /\ WF_vars(StopReturns)

FairSpec == Spec /\ Fairness

-----------------------------------------------------------------------------
(* Properties                                                              *)

TypeOK ==
    /\ queue \in Seq(Policies)
    /\ dirty \subseteq Policies
    /\ processing \subseteq Policies
    /\ waiting \in [Policies -> Nat]
    /\ requeues \in [Policies -> Nat]
    /\ shuttingDown \in BOOLEAN
    /\ pendingWork \in [Policies -> Nat]
    /\ worker \in [at : {"get", "got", "reconciling", "returned", "exited"},
                   key : Policies \cup {NoKey}]
    /\ inFlight \in {0, 1}
    /\ stop \in {"running", "waiting", "clean", "timed out"}
    /\ pendingSince \in [Pods -> Nat]
    /\ toResync \subseteq Pods
    /\ nextResync \in Nat /\ clock \in Nat /\ changes \in Nat /\ failures \in Nat
    /\ reconciledAt \in [Policies -> Nat]

\* Stale pods are looked at in time.  A pod that stays unschedulable past
\* its threshold has its policy reconciled, after the threshold, before more
\* than one informer resync period has gone by - although PendingWorkMap
\* drops later deadlines, the workqueue keeps only the earliest delayed add,
\* the worker forgets deadlines whenever it takes the key, and reconciles
\* fail and back off.
StalePodRevisited ==
    \A p \in Pods :
        (/\ stop = "running" /\ Rested
         /\ pendingSince[p] # Never /\ PolicyOf[p] \in Known
         /\ \A k \in Policies : requeues[k] = 0)
        => \/ clock < pendingSince[p] + Threshold + InformerResync
           \/ reconciledAt[PolicyOf[p]] > pendingSince[p] + Threshold

\* A recorded deadline is a kept promise: calls for later deadlines are only
\* dropped while the policy is about to be taken by the worker, or a delayed
\* add that comes due by the recorded deadline is waiting.
DeadlineBacked ==
    \A k \in Policies :
        (pendingWork[k] # Never /\ ~ shuttingDown)
        => \/ k \in dirty
           \/ worker = [at |-> "got", key |-> k]
           \/ waiting[k] # Never /\ waiting[k] <= pendingWork[k]

\* No enqueue is lost: a policy that is added to the workqueue, also while it
\* is being reconciled or while the queue drains, is reconciled afterwards,
\* unless the process exits first.
EnqueueServed ==
    \A k \in Policies :
        (k \in dirty) ~> ((worker.at = "reconciling" /\ worker.key = k) \/ ~ Running)

\* The worker exits with nothing left behind: everything accepted before
\* ShutDown has been taken.
WorkerDrains == worker.at = "exited" => dirty = {} /\ queue = <<>> /\ processing = {}

\* Stop waits for the in-flight item: when it reports a clean stop, the
\* worker has no item in hand (comment on Manager.Stop).
StopDrains == stop = "clean" => worker.at \in {"get", "exited"}
=============================================================================
