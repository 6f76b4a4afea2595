------------------------ MODULE WatcherManagerProofs ------------------------
(***************************************************************************)
(* Proofs about WatcherManager, for any policies, pods, thresholds and     *)
(* bounds.                                                                 *)
(*                                                                         *)
(* The queue holds, once each, the keys that are dirty and not being       *)
(* processed, and the worker's place says what is being processed and what *)
(* is in flight.  The deadlines and the drain follow from that.            *)
(***************************************************************************)
EXTENDS WatcherManager, SequenceTheorems, TLAPS

Indices == 1..Len(queue)

\* The workqueue holds each dirty key once, except the one in the worker's hands.
QueueSane ==
    /\ \A i \in Indices : queue[i] \in dirty \ processing
    /\ \A k \in dirty \ processing : \E i \in Indices : queue[i] = k
    /\ \A i, j \in Indices : queue[i] = queue[j] => i = j

Busy == {"got", "reconciling", "returned"}

\* The worker's place, the processing set and the in-flight counter agree.
WorkerSane ==
    /\ worker.at \in Busy => worker.key \in Policies /\ processing = {worker.key}
    /\ worker.at \notin Busy => processing = {}
    /\ inFlight = IF worker.at = "reconciling" THEN 1 ELSE 0
    /\ worker.at = "exited" => shuttingDown
    /\ clock > 0

Inv == TypeOK /\ QueueSane /\ WorkerSane

ManagerInv == Inv /\ DeadlineBacked /\ WorkerDrains

\* TypeOK in parts that the steps change apart.
QueueTyped  == queue \in Seq(Policies) /\ dirty \subseteq Policies /\ processing \subseteq Policies
TimersTyped == waiting \in [Policies -> Nat] /\ pendingWork \in [Policies -> Nat]
FailsTyped  == requeues \in [Policies -> Nat] /\ failures \in Nat
WorkerTyped ==
    /\ worker \in [at : {"get", "got", "reconciling", "returned", "exited"},
                   key : Policies \cup {NoKey}]
    /\ inFlight \in {0, 1}
StopTyped   == shuttingDown \in BOOLEAN /\ stop \in {"running", "waiting", "clean", "timed out"}
PodsTyped   ==
    /\ pendingSince \in [Pods -> Nat] /\ toResync \subseteq Pods
    /\ nextResync \in Nat /\ changes \in Nat
ClockTyped  == clock \in Nat /\ reconciledAt \in [Policies -> Nat]

LEMMA TypeParts ==
    TypeOK <=> /\ QueueTyped /\ TimersTyped /\ FailsTyped /\ WorkerTyped /\ StopTyped
               /\ PodsTyped /\ ClockTyped
BY DEF TypeOK, QueueTyped, TimersTyped, FailsTyped, WorkerTyped, StopTyped, PodsTyped,
   ClockTyped

LEMMA TypePartsNext ==
    /\ QueueTyped' /\ TimersTyped' /\ FailsTyped' /\ WorkerTyped' /\ StopTyped'
    /\ PodsTyped' /\ ClockTyped'
    => TypeOK'
BY DEF TypeOK, QueueTyped, TimersTyped, FailsTyped, WorkerTyped, StopTyped, PodsTyped,
   ClockTyped

\* What a step leaves alone keeps its type.
LEMMA TypesStay ==
    /\ UNCHANGED <<queue, dirty, processing>> => (QueueTyped => QueueTyped')
    /\ UNCHANGED <<waiting, pendingWork>> => (TimersTyped => TimersTyped')
    /\ UNCHANGED <<requeues, failures>> => (FailsTyped => FailsTyped')
    /\ UNCHANGED <<worker, inFlight>> => (WorkerTyped => WorkerTyped')
    /\ UNCHANGED <<shuttingDown, stop>> => (StopTyped => StopTyped')
    /\ UNCHANGED <<pendingSince, toResync, nextResync, changes>> => (PodsTyped => PodsTyped')
    /\ UNCHANGED <<clock, reconciledAt>> => (ClockTyped => ClockTyped')
BY DEF QueueTyped, TimersTyped, FailsTyped, WorkerTyped, StopTyped, PodsTyped, ClockTyped

-----------------------------------------------------------------------------
(* The workqueue                                                           *)

\* Appending a key that is not queued keeps the queue sane.
LEMMA AppendSane ==
    ASSUME queue \in Seq(Policies), NEW k \in Policies,
           queue' = Append(queue, k),
           \A i \in Indices : queue[i] \in (dirty \ processing)' /\ queue[i] # k,
           k \in (dirty \ processing)',
           \A j \in (dirty \ processing)' : j = k \/ \E i \in Indices : queue[i] = j,
           \A i, j \in Indices : queue[i] = queue[j] => i = j
    PROVE  QueueSane' /\ queue' \in Seq(Policies)
<1>1. /\ queue' \in Seq(Policies)
      /\ Len(queue') = Len(queue) + 1
      /\ \A i \in 1..Len(queue) : queue'[i] = queue[i]
      /\ queue'[Len(queue) + 1] = k
  BY AppendProperties
<1>2. Len(queue) \in Nat
  BY LenProperties
<1>3. \A i \in 1..Len(queue') : i \in 1..Len(queue) \/ i = Len(queue) + 1
  BY <1>1, <1>2
<1>4. \A i \in 1..Len(queue) : i \in 1..Len(queue')
  BY <1>1, <1>2
<1>5. Len(queue) + 1 \in 1..Len(queue')
  BY <1>1, <1>2
<1>6. \A i \in Indices' : queue'[i] \in (dirty \ processing)'
  BY <1>1, <1>3 DEF Indices
<1>7. \A j \in (dirty \ processing)' : \E i \in Indices' : queue'[i] = j
  BY <1>1, <1>4, <1>5 DEF Indices
<1>8. \A i, j \in Indices' : queue'[i] = queue'[j] => i = j
  BY <1>1, <1>3 DEF Indices
<1> QED BY <1>1, <1>6, <1>7, <1>8 DEF QueueSane

\* Add keeps the queue sane, and the key is dirty afterwards unless the queue
\* is shut down.
LEMMA AddSane ==
    ASSUME Inv, NEW k \in Policies, Add(k), UNCHANGED processing
    PROVE  /\ QueueSane' /\ queue' \in Seq(Policies) /\ dirty' \subseteq Policies
           /\ dirty \subseteq dirty'
           /\ shuttingDown => UNCHANGED <<queue, dirty>>
           /\ ~ shuttingDown => k \in dirty'
<1>1. CASE shuttingDown \/ k \in dirty
  BY <1>1 DEF Add, Inv, TypeOK, QueueSane, Indices
<1>2. CASE ~ shuttingDown /\ k \notin dirty /\ k \in processing
  <2>1. queue' = queue /\ dirty' = dirty \cup {k} /\ processing' = processing
    BY <1>2 DEF Add
  <2>2. dirty' \ processing' = dirty \ processing
    BY <2>1, <1>2
  <2>3. QueueSane'
    BY <2>1, <2>2 DEF Inv, QueueSane, Indices
  <2> QED BY <2>1, <2>3, <1>2 DEF Inv, TypeOK
<1>3. CASE ~ shuttingDown /\ k \notin dirty /\ k \notin processing
  <2>1. queue' = Append(queue, k) /\ dirty' = dirty \cup {k} /\ processing' = processing
    BY <1>3 DEF Add
  <2>2. dirty' \ processing' = (dirty \ processing) \cup {k}
    BY <2>1, <1>3
  <2>3. \A i \in Indices : queue[i] \in (dirty \ processing)' /\ queue[i] # k
    BY <2>2, <1>3 DEF Inv, QueueSane
  <2>4. \A j \in (dirty \ processing)' : j = k \/ \E i \in Indices : queue[i] = j
    BY <2>2 DEF Inv, QueueSane
  <2>5. queue \in Seq(Policies) /\ \A i, j \in Indices : queue[i] = queue[j] => i = j
    BY DEF Inv, TypeOK, QueueSane
  <2>6. QueueSane' /\ queue' \in Seq(Policies)
    BY <2>1, <2>2, <2>3, <2>4, <2>5, AppendSane
  <2> QED BY <2>1, <2>6, <1>3 DEF Inv, TypeOK
<1> QED BY <1>1, <1>2, <1>3

\* Taking the head keeps the queue sane.
LEMMA TakeSane ==
    ASSUME Inv, GetItem, processing = {}
    PROVE  /\ QueueSane' /\ queue' \in Seq(Policies)
           /\ Head(queue) \in Policies
<1> DEFINE key == Head(queue)
<1>1. /\ queue \in Seq(Policies) /\ queue # <<>>
      /\ queue' = Tail(queue) /\ dirty' = dirty \ {key}
      /\ processing' = processing \cup {key}
  BY DEF Inv, TypeOK, GetItem
<1>2. /\ key \in Policies /\ key = queue[1] /\ queue' \in Seq(Policies)
      /\ Len(queue') = Len(queue) - 1
      /\ \A i \in 1..Len(queue') : queue'[i] = queue[i + 1]
      /\ Len(queue) \in Nat /\ Len(queue) >= 1
  BY <1>1, HeadTailProperties, LenProperties, EmptySeq
<1>3. \A i \in 1..Len(queue') : i + 1 \in 1..Len(queue) /\ i + 1 # 1
  BY <1>2
<1>4. \A i \in 1..Len(queue) : i = 1 \/ (i - 1 \in 1..Len(queue') /\ (i - 1) + 1 = i)
  BY <1>2
<1>5. 1 \in 1..Len(queue)
  BY <1>2
<1>6. \A i \in Indices' : queue'[i] \in dirty' \ processing'
  BY <1>1, <1>2, <1>3, <1>5 DEF Inv, QueueSane, Indices
<1>7. \A k \in dirty' \ processing' : \E i \in Indices' : queue'[i] = k
  <2> SUFFICES ASSUME NEW k \in dirty' \ processing' PROVE \E i \in Indices' : queue'[i] = k
    OBVIOUS
  <2>1. PICK i \in Indices : queue[i] = k
    BY <1>1 DEF Inv, QueueSane
  <2>2. i # 1
    BY <2>1, <1>1, <1>2
  <2>3. i - 1 \in Indices' /\ (i - 1) + 1 = i
    BY <2>2, <1>4 DEF Indices
  <2>4. queue'[i - 1] = queue[i]
    BY <2>3, <1>2 DEF Indices
  <2> QED BY <2>1, <2>3, <2>4
<1>8. \A i, j \in Indices' : queue'[i] = queue'[j] => i = j
  <2> SUFFICES ASSUME NEW i \in Indices', NEW j \in Indices', queue'[i] = queue'[j]
               PROVE  i = j
    OBVIOUS
  <2>1. queue[i + 1] = queue[j + 1] /\ i + 1 \in Indices /\ j + 1 \in Indices
    BY <1>2, <1>3 DEF Indices
  <2>2. i + 1 = j + 1
    BY <2>1 DEF Inv, QueueSane
  <2> QED BY <2>2, <1>2 DEF Indices
<1> QED BY <1>2, <1>6, <1>7, <1>8 DEF QueueSane

-----------------------------------------------------------------------------
(* One lemma per kind of step: the manager's invariant is kept             *)

\* The invariants follow from what a step did to the variables they read.
LEMMA EnqueueSane ==
    ASSUME ManagerInv, NEW k \in Policies, Add(k),
           UNCHANGED <<processing, worker, inFlight, shuttingDown, clock>>,
           TypeOK',
           \A j \in Policies :
               \/ pendingWork'[j] = pendingWork[j]
                  /\ (waiting'[j] = waiting[j] \/ (j = k /\ ~ shuttingDown))
               \/ waiting'[j] # Never /\ waiting'[j] <= pendingWork'[j]
    PROVE  ManagerInv'
<1>1. /\ QueueSane' /\ dirty \subseteq dirty'
      /\ shuttingDown => UNCHANGED <<queue, dirty>>
      /\ ~ shuttingDown => k \in dirty'
  BY AddSane DEF ManagerInv
<1>2. WorkerSane'
  BY DEF ManagerInv, Inv, WorkerSane, Busy
<1>3. DeadlineBacked'
  BY <1>1 DEF ManagerInv, DeadlineBacked
<1>4. WorkerDrains'
  BY <1>1 DEF ManagerInv, Inv, WorkerDrains, WorkerSane, Busy
<1> QED BY <1>1, <1>2, <1>3, <1>4 DEF ManagerInv, Inv

\* Steps that leave the queue and the worker alone and keep every deadline
\* backed.
LEMMA RestSane ==
    ASSUME ManagerInv, TypeOK',
           UNCHANGED <<queue, dirty, processing, worker, inFlight>>,
           clock' >= clock,
           shuttingDown => shuttingDown',
           ~ shuttingDown' =>
               \A j \in Policies :
                   \/ pendingWork'[j] = pendingWork[j] /\ waiting'[j] = waiting[j]
                   \/ waiting'[j] # Never /\ waiting'[j] <= pendingWork'[j]
    PROVE  ManagerInv'
<1>1. QueueSane' /\ WorkerDrains'
  BY DEF ManagerInv, Inv, QueueSane, Indices, WorkerDrains
<1>2. clock > 0 /\ clock \in Nat /\ clock' \in Nat
  BY DEF ManagerInv, Inv, TypeOK, WorkerSane
<1>3. WorkerSane'
  BY <1>2 DEF ManagerInv, Inv, WorkerSane, Busy
<1>4. DeadlineBacked'
  BY DEF ManagerInv, DeadlineBacked
<1> QED BY <1>1, <1>3, <1>4 DEF ManagerInv, Inv

\* A delayed add that comes due is replaced by the key being dirty.
LEMMA DelayedAddKeeps ==
    ASSUME ManagerInv, NEW k \in Policies, DelayedAdd(k)
    PROVE  ManagerInv'
<1>1. QueueSane' /\ queue' \in Seq(Policies) /\ dirty' \subseteq Policies
  BY AddSane DEF ManagerInv, DelayedAdd
<1>2. TypeOK'
  BY <1>1 DEF ManagerInv, Inv, TypeOK, DelayedAdd, podVars, bounds, Never
<1>3. \A j \in Policies : waiting'[j] = waiting[j] \/ j = k
  BY DEF ManagerInv, Inv, TypeOK, DelayedAdd
<1> QED BY <1>2, <1>3, EnqueueSane DEF DelayedAdd

\* A deferred enqueue records a deadline and asks for a delayed add by then.
LEMMA EnqueueAfterKeeps ==
    ASSUME ManagerInv, TypeOK', NEW k \in Policies, NEW delay \in Nat,
           EnqueueAfter(k, delay),
           UNCHANGED <<processing, worker, inFlight, shuttingDown, clock>>
    PROVE  ManagerInv'
<1>a. clock \in Nat /\ clock' = clock
  BY TypeParts DEF ManagerInv, Inv, ClockTyped
<1>0. clock' >= clock
  BY <1>a
<1>1. CASE ~ ShouldEnqueueAfter(k, clock + delay)
  BY <1>0, <1>1, RestSane DEF EnqueueAfter
<1>2. CASE ShouldEnqueueAfter(k, clock + delay) /\ shuttingDown
  BY <1>0, <1>2, RestSane DEF EnqueueAfter
<1>3. CASE ShouldEnqueueAfter(k, clock + delay) /\ ~ shuttingDown
  <2>1. /\ pendingWork' = [pendingWork EXCEPT ![k] = clock + delay]
        /\ waiting' = [waiting EXCEPT ![k] = Earliest(waiting[k], clock + delay)]
    BY <1>3 DEF EnqueueAfter, AddAfter
  <2>2. waiting[k] \in Nat /\ clock \in Nat /\ clock > 0
    BY DEF ManagerInv, Inv, TypeOK, WorkerSane
  <2>3. /\ Earliest(waiting[k], clock + delay) # Never
        /\ Earliest(waiting[k], clock + delay) <= clock + delay
    BY <2>2 DEF Earliest, Never
  <2>4. \A j \in Policies :
            \/ pendingWork'[j] = pendingWork[j] /\ waiting'[j] = waiting[j]
            \/ waiting'[j] # Never /\ waiting'[j] <= pendingWork'[j]
    BY <2>1, <2>3 DEF ManagerInv, Inv, TypeOK
  <2> QED BY <1>0, <2>4, RestSane DEF EnqueueAfter
<1> QED BY <1>1, <1>2, <1>3

\* The pod handlers enqueue the pod's policy, defer it, or do nothing.
LEMMA PodHandlerKeeps ==
    ASSUME ManagerInv, NEW pod \in Pods, NEW since \in Nat,
           CheckStalePending(pod, since),
           UNCHANGED <<processing, requeues, shuttingDown, worker, inFlight, stop,
                       clock, reconciledAt>>,
           pendingSince' \in [Pods -> Nat], toResync' \subseteq Pods,
           nextResync' \in Nat, changes' \in Nat, failures' \in Nat
    PROVE  ManagerInv'
<1> DEFINE elapsed == clock - since
           key     == PolicyOf[pod]
<1>1. key \in Policies
  BY PodsAssumption
<1>2. clock \in Nat /\ Threshold \in Nat
  BY TimesAssumption DEF ManagerInv, Inv, TypeOK
<1>3. CASE UNCHANGED <<queue, dirty, waiting, pendingWork>>
  <2>1. TypeOK'
    BY <1>3 DEF ManagerInv, Inv, TypeOK
  <2> QED BY <1>3, <2>1, RestSane, <1>2
<1>4. CASE Enqueue(key)
  <2>1. queue' \in Seq(Policies) /\ dirty' \subseteq Policies
    BY <1>1, <1>4, AddSane DEF ManagerInv, Enqueue
  <2>2. TypeOK'
    BY <1>4, <2>1 DEF ManagerInv, Inv, TypeOK, Enqueue
  <2> QED BY <1>1, <1>4, <2>2, EnqueueSane DEF Enqueue
<1>5. CASE elapsed < Threshold /\ EnqueueAfter(key, Threshold - elapsed + 1)
  <2> DEFINE delay == Threshold - elapsed + 1
  <2>1. delay \in Nat
    BY <1>2, <1>5
  <2> HIDE DEF delay, elapsed, key
  <2>2. EnqueueAfter(key, delay)
    BY <1>5 DEF delay
  <2>3. TimersTyped /\ clock + delay \in Nat
    BY <1>2, <2>1, TypeParts DEF ManagerInv, Inv
  <2>4. TimersTyped'
    <3>1. pendingWork' \in [Policies -> Nat]
      BY <1>1, <2>2, <2>3 DEF EnqueueAfter, TimersTyped
    <3>2. waiting[key] \in Nat /\ Earliest(waiting[key], clock + delay) \in Nat
      BY <1>1, <2>3 DEF TimersTyped, Earliest
    <3>3. waiting' = waiting \/
          waiting' = [waiting EXCEPT ![key] = Earliest(waiting[key], clock + delay)]
      BY <2>2 DEF EnqueueAfter, AddAfter
    <3> QED BY <1>1, <2>3, <3>1, <3>2, <3>3 DEF TimersTyped
  <2>5. TypeOK'
    <3>1. QueueTyped' /\ WorkerTyped' /\ StopTyped' /\ ClockTyped'
      BY <2>2, TypeParts, TypesStay DEF ManagerInv, Inv, EnqueueAfter
    <3>2. PodsTyped' /\ FailsTyped'
      BY TypeParts DEF ManagerInv, Inv, PodsTyped, FailsTyped
    <3> QED BY <2>4, <3>1, <3>2, TypePartsNext
  <2> QED BY <1>1, <2>1, <2>2, <2>5, EnqueueAfterKeeps
<1> QED BY <1>3, <1>4, <1>5 DEF CheckStalePending

LEMMA PodStepKeeps ==
    ASSUME ManagerInv, NEW pod \in Pods,
           PodUnschedulable(pod) \/ PodBinds(pod) \/ ResyncPod(pod)
    PROVE  ManagerInv'
<1>1. PodsTyped /\ FailsTyped /\ ClockTyped
  BY TypeParts DEF ManagerInv, Inv
<1>2. ASSUME NEW since \in Nat, PodUpdate(pod, since)
      PROVE  ManagerInv'
  <2>1. CheckStalePending(pod, since)
    BY <1>2 DEF PodUpdate
  <2>2. UNCHANGED <<processing, requeues, shuttingDown, worker, inFlight, stop, clock, reconciledAt>>
    BY <1>2 DEF PodUpdate
  <2>3. /\ pendingSince' \in [Pods -> Nat] /\ toResync' \subseteq Pods
        /\ nextResync' \in Nat /\ changes' \in Nat /\ failures' \in Nat
    BY <1>1, <1>2 DEF PodUpdate, PodsTyped, FailsTyped
  <2> QED BY <2>1, <2>2, <2>3, PodHandlerKeeps
<1>3. CASE PodUnschedulable(pod) \/ PodBinds(pod)
  BY <1>1, <1>2, <1>3 DEF PodUnschedulable, PodBinds, ClockTyped, Never
<1>4. CASE ResyncPod(pod)
  <2>1. pendingSince[pod] \in Nat
    BY <1>1 DEF PodsTyped
  <2>2. /\ pendingSince' \in [Pods -> Nat] /\ toResync' \subseteq Pods
        /\ nextResync' \in Nat /\ changes' \in Nat /\ failures' \in Nat
    BY <1>1, <1>4 DEF ResyncPod, bounds, PodsTyped, FailsTyped
  <2> QED BY <1>4, <2>1, <2>2, PodHandlerKeeps DEF ResyncPod, bounds
<1> QED BY <1>3, <1>4

LEMMA PeriodicResyncKeeps ==
    ASSUME ManagerInv, NEW k \in Policies, PeriodicResync(k)
    PROVE  ManagerInv'
<1>1. queue' \in Seq(Policies) /\ dirty' \subseteq Policies
  BY AddSane DEF ManagerInv, PeriodicResync
<1>2. TypeOK'
  BY <1>1 DEF ManagerInv, Inv, TypeOK, PeriodicResync, podVars, bounds
<1> QED BY <1>2, EnqueueSane DEF PeriodicResync

\* The worker takes a key: it was dirty and is now in the worker's hands.
LEMMA GetItemKeeps ==
    ASSUME ManagerInv, GetItem
    PROVE  ManagerInv'
<1> DEFINE key == Head(queue)
<1>1. processing = {} /\ worker.at = "get"
  BY DEF ManagerInv, Inv, WorkerSane, Busy, GetItem
<1>2. QueueSane' /\ queue' \in Seq(Policies) /\ key \in Policies
  BY <1>1, TakeSane DEF ManagerInv
<1>3. /\ dirty' = dirty \ {key} /\ processing' = {key}
      /\ worker' = [at |-> "got", key |-> key]
      /\ UNCHANGED <<waiting, requeues, shuttingDown, pendingWork, inFlight, stop,
                     podVars, clock, bounds, reconciledAt>>
  BY <1>1 DEF GetItem
<1> HIDE DEF key
<1>4. TypeOK'
  BY <1>2, <1>3 DEF ManagerInv, Inv, TypeOK, podVars, bounds
<1>5. WorkerSane'
  BY <1>1, <1>2, <1>3 DEF ManagerInv, Inv, WorkerSane, Busy
<1>6. DeadlineBacked'
  BY <1>1, <1>3 DEF ManagerInv, DeadlineBacked
<1>7. WorkerDrains'
  BY <1>3 DEF WorkerDrains
<1> QED BY <1>2, <1>4, <1>5, <1>6, <1>7 DEF ManagerInv, Inv

LEMMA WorkerExitsKeeps ==
    ASSUME ManagerInv, WorkerExits
    PROVE  ManagerInv'
<1>1. processing = {} /\ queue = <<>> /\ shuttingDown /\ worker.at = "get"
  BY DEF ManagerInv, Inv, WorkerSane, Busy, WorkerExits
<1>2. dirty = {}
  BY <1>1 DEF ManagerInv, Inv, QueueSane, Indices
<1>3. worker' = [at |-> "exited", key |-> NoKey] /\ UNCHANGED <<workqueue, inFlight, clock>>
  BY DEF WorkerExits
<1>4. TypeOK'
  BY DEF ManagerInv, Inv, TypeOK, WorkerExits, workqueue, podVars, bounds
<1>5. QueueSane' /\ WorkerSane' /\ WorkerDrains'
  BY <1>1, <1>2, <1>3 DEF ManagerInv, Inv, QueueSane, Indices, WorkerSane, Busy,
     WorkerDrains, workqueue
<1>6. DeadlineBacked'
  BY <1>1, <1>3 DEF DeadlineBacked, workqueue
<1> QED BY <1>4, <1>5, <1>6 DEF ManagerInv, Inv

LEMMA BeginReconcileKeeps ==
    ASSUME ManagerInv, BeginReconcile
    PROVE  ManagerInv'
<1>1. /\ worker.at = "got" /\ worker.key \in Policies
      /\ worker' = [worker EXCEPT !.at = "reconciling"]
      /\ pendingWork' = [pendingWork EXCEPT ![worker.key] = Never]
      /\ UNCHANGED <<workqueue, clock>>
  BY DEF ManagerInv, Inv, WorkerSane, Busy, BeginReconcile
<1>2. worker'.at = "reconciling" /\ worker'.key = worker.key
  BY <1>1 DEF ManagerInv, Inv, TypeOK
<1>3. TypeOK'
  <2>1. inFlight' = 1
    BY <1>1 DEF ManagerInv, Inv, WorkerSane, BeginReconcile
  <2>2. WorkerTyped'
    BY <1>1, <2>1, TypeParts DEF ManagerInv, Inv, WorkerTyped
  <2>3. TimersTyped'
    BY <1>1, TypeParts DEF ManagerInv, Inv, TimersTyped, workqueue, Never
  <2>4. QueueTyped' /\ FailsTyped' /\ StopTyped' /\ PodsTyped' /\ ClockTyped'
    BY TypeParts, TypesStay DEF ManagerInv, Inv, BeginReconcile, workqueue, podVars, bounds
  <2> QED BY <2>2, <2>3, <2>4, TypePartsNext
<1>4. QueueSane' /\ WorkerDrains'
  BY <1>1, <1>2 DEF ManagerInv, Inv, QueueSane, Indices, WorkerDrains, workqueue
<1>5. WorkerSane'
  BY <1>1, <1>2 DEF ManagerInv, Inv, WorkerSane, Busy, BeginReconcile, workqueue
<1>6. DeadlineBacked'
  <2> SUFFICES ASSUME NEW k \in Policies, pendingWork'[k] # Never, ~ shuttingDown'
               PROVE  \/ k \in dirty'
                      \/ worker' = [at |-> "got", key |-> k]
                      \/ waiting'[k] # Never /\ waiting'[k] <= pendingWork'[k]
    BY DEF DeadlineBacked
  <2>1. k # worker.key /\ pendingWork'[k] = pendingWork[k]
    BY <1>1 DEF ManagerInv, Inv, TypeOK
  <2>2. worker # [at |-> "got", key |-> k]
    BY <2>1
  <2> QED BY <1>1, <2>1, <2>2 DEF ManagerInv, DeadlineBacked, workqueue
<1> QED BY <1>3, <1>4, <1>5, <1>6 DEF ManagerInv, Inv

\* Whatever a reconcile returned, a rate-limited re-add only brings a delayed
\* add forward.
LEMMA ReturnedKeeps ==
    ASSUME ManagerInv, Returned,
           TypeOK',
           \A j \in Policies :
               waiting'[j] = waiting[j] \/ (waiting'[j] # Never
                 /\ (waiting[j] # Never => waiting'[j] <= waiting[j]))
    PROVE  ManagerInv'
<1>1. /\ worker.at = "reconciling" /\ inFlight = 1 /\ inFlight' = 0
      /\ worker'.at = "returned" /\ worker'.key = worker.key
      /\ UNCHANGED <<queue, dirty, processing, shuttingDown, pendingWork, clock>>
  <2>1. worker.at = "reconciling" /\ worker' = [worker EXCEPT !.at = "returned"]
    BY DEF Returned
  <2>2. worker'.at = "returned" /\ worker'.key = worker.key
    BY <2>1, TypeParts DEF ManagerInv, Inv, WorkerTyped
  <2>3. inFlight = 1 /\ inFlight' = 0
    BY <2>1 DEF ManagerInv, Inv, WorkerSane, Returned
  <2> QED BY <2>1, <2>2, <2>3 DEF Returned
<1>2. QueueSane' /\ WorkerDrains'
  BY <1>1 DEF ManagerInv, Inv, QueueSane, Indices, WorkerDrains
<1>3. WorkerSane'
  BY <1>1 DEF ManagerInv, Inv, WorkerSane, Busy
<1>4. DeadlineBacked'
  <2> SUFFICES ASSUME NEW k \in Policies, pendingWork'[k] # Never, ~ shuttingDown'
               PROVE  \/ k \in dirty'
                      \/ worker' = [at |-> "got", key |-> k]
                      \/ waiting'[k] # Never /\ waiting'[k] <= pendingWork'[k]
    BY DEF DeadlineBacked
  <2>1. worker # [at |-> "got", key |-> k]
    BY <1>1
  <2>2. k \in dirty \/ (waiting[k] # Never /\ waiting[k] <= pendingWork[k])
    BY <1>1, <2>1 DEF ManagerInv, DeadlineBacked
  <2>3. waiting[k] \in Nat /\ waiting'[k] \in Nat /\ pendingWork[k] \in Nat
    BY DEF ManagerInv, Inv, TypeOK
  <2> QED BY <1>1, <2>2, <2>3
<1> QED BY <1>2, <1>3, <1>4 DEF ManagerInv, Inv

LEMMA ReconcileReturnsKeeps ==
    ASSUME ManagerInv, ReconcileSucceeds \/ ReconcileUnknown \/ ReconcileFails
    PROVE  ManagerInv'
<1>1. Returned /\ worker.key \in Policies
  BY DEF ManagerInv, Inv, WorkerSane, Busy, ReconcileSucceeds, ReconcileUnknown,
     ReconcileFails, Returned
<1>2. clock \in Nat /\ clock > 0
  BY TypeParts DEF ManagerInv, Inv, ClockTyped, WorkerSane
<1>3. QueueTyped' /\ StopTyped' /\ PodsTyped'
  BY <1>1, TypeParts, TypesStay DEF ManagerInv, Inv, Returned, podVars
<1>4. WorkerTyped'
  <2>1. inFlight' = 0
    BY <1>1 DEF ManagerInv, Inv, WorkerSane, Returned
  <2> QED BY <1>1, <2>1, TypeParts DEF ManagerInv, Inv, WorkerTyped, Returned
<1>5. FailsTyped'
  BY <1>1, TypeParts DEF ManagerInv, Inv, FailsTyped, ReconcileSucceeds, ReconcileUnknown,
     ReconcileFails, Forget
<1>6. ClockTyped'
  BY <1>1, <1>2, TypeParts DEF ManagerInv, Inv, ClockTyped, ReconcileSucceeds,
     ReconcileUnknown, ReconcileFails, Returned
<1>7. CASE ReconcileSucceeds \/ ReconcileUnknown
  <2>1. UNCHANGED <<waiting, pendingWork>>
    BY <1>7 DEF ReconcileSucceeds, ReconcileUnknown, Returned
  <2>2. TypeOK'
    <3>1. TimersTyped'
      BY <2>1, TypeParts, TypesStay DEF ManagerInv, Inv
    <3> QED BY <1>3, <1>4, <1>5, <1>6, <3>1, TypePartsNext
  <2> QED BY <1>1, <2>1, <2>2, ReturnedKeeps
<1>8. CASE ReconcileFails
  <2>1. PICK delay \in 0..MaxBackoff : AddAfter(worker.key, delay)
    BY <1>8 DEF ReconcileFails
  <2>2. waiting \in [Policies -> Nat] /\ pendingWork \in [Policies -> Nat]
    BY TypeParts DEF ManagerInv, Inv, TimersTyped
  <2> DEFINE due == clock + delay
  <2>3. due \in Nat /\ due > 0
    BY <1>2, TimesAssumption
  <2> HIDE DEF due
  <2>4. /\ Earliest(waiting[worker.key], due) \in Nat \ {Never}
        /\ waiting[worker.key] # Never =>
             Earliest(waiting[worker.key], due) <= waiting[worker.key]
    BY <1>1, <2>2, <2>3 DEF Earliest, Never
  <2>5. waiting' = waiting \/
        waiting' = [waiting EXCEPT ![worker.key] = Earliest(waiting[worker.key], due)]
    BY <2>1 DEF AddAfter, due
  <2>6. TimersTyped'
    BY <1>1, <2>2, <2>4, <2>5 DEF TimersTyped, Returned
  <2>7. TypeOK'
    BY <2>6, <1>3, <1>4, <1>5, <1>6, TypePartsNext
  <2>8. \A j \in Policies :
            waiting'[j] = waiting[j] \/ (waiting'[j] # Never
              /\ (waiting[j] # Never => waiting'[j] <= waiting[j]))
    BY <1>1, <2>2, <2>4, <2>5
  <2> QED BY <1>1, <2>7, <2>8, ReturnedKeeps
<1> QED BY <1>7, <1>8

\* Done: a key that turned dirty while it was processed is queued again.
LEMMA DoneKeeps ==
    ASSUME ManagerInv, Done
    PROVE  ManagerInv'
<1> DEFINE k == worker.key
<1>1. /\ worker.at = "returned" /\ k \in Policies /\ processing = {k}
      /\ processing' = {} /\ dirty' = dirty
      /\ worker' = [at |-> "get", key |-> NoKey]
      /\ queue' = IF k \in dirty THEN Append(queue, k) ELSE queue
      /\ UNCHANGED <<waiting, requeues, shuttingDown, pendingWork, inFlight, stop,
                     podVars, clock, bounds, reconciledAt>>
  BY DEF ManagerInv, Inv, WorkerSane, Busy, Done
<1> HIDE DEF k
<1>2. dirty \subseteq Policies /\ queue \in Seq(Policies)
  BY DEF ManagerInv, Inv, TypeOK
<1>3. QueueSane' /\ queue' \in Seq(Policies)
  <2>1. CASE k \notin dirty
    <3>1. dirty' \ processing' = dirty \ processing /\ queue' = queue
      BY <1>1, <2>1
    <3> QED BY <3>1, <1>2 DEF ManagerInv, Inv, QueueSane, Indices
  <2>2. CASE k \in dirty
    <3>1. (dirty \ processing)' = (dirty \ processing) \cup {k}
      BY <1>1, <2>2
    <3>2. \A i \in Indices : queue[i] \in (dirty \ processing)' /\ queue[i] # k
      BY <1>1, <3>1 DEF ManagerInv, Inv, QueueSane
    <3>3. \A j \in (dirty \ processing)' : j = k \/ \E i \in Indices : queue[i] = j
      BY <3>1 DEF ManagerInv, Inv, QueueSane
    <3>4. \A i, j \in Indices : queue[i] = queue[j] => i = j
      BY DEF ManagerInv, Inv, QueueSane
    <3>5. queue' = Append(queue, k) /\ k \in (dirty \ processing)'
      BY <1>1, <2>2, <3>1
    <3> QED BY <1>1, <1>2, <3>2, <3>3, <3>4, <3>5, AppendSane
  <2> QED BY <2>1, <2>2
<1>4. TypeOK'
  BY <1>1, <1>2, <1>3 DEF ManagerInv, Inv, TypeOK, podVars, bounds
<1>5. WorkerSane' /\ WorkerDrains'
  BY <1>1 DEF ManagerInv, Inv, WorkerSane, Busy, WorkerDrains
<1>6. DeadlineBacked'
  <2>1. \A j \in Policies : worker # [at |-> "got", key |-> j]
    BY <1>1
  <2> QED BY <1>1, <2>1 DEF ManagerInv, DeadlineBacked
<1> QED BY <1>3, <1>4, <1>5, <1>6 DEF ManagerInv, Inv

\* Stop, the informers' resync and time leave the queue and the worker alone.
LEMMA OtherStepsKeep ==
    ASSUME ManagerInv,
           ResyncInformers \/ BeginStop \/ StopReturns \/ Tick \/ UNCHANGED vars
    PROVE  ManagerInv'
<1>0. UNCHANGED <<queue, dirty, processing, worker, inFlight, waiting, pendingWork>>
  BY DEF ResyncInformers, BeginStop, StopReturns, Tick, vars, workqueue, podVars, bounds
<1>1. clock \in Nat /\ clock' \in Nat /\ clock' >= clock
  <2>1. clock \in Nat
    BY TypeParts DEF ManagerInv, Inv, ClockTyped
  <2>2. clock' = clock \/ clock' = clock + 1
    BY DEF ResyncInformers, BeginStop, StopReturns, Tick, vars
  <2> QED BY <2>1, <2>2
<1>2. QueueTyped' /\ TimersTyped' /\ FailsTyped' /\ WorkerTyped'
  BY <1>0, TypeParts, TypesStay DEF ManagerInv, Inv, ResyncInformers, BeginStop, StopReturns,
     Tick, vars, workqueue, bounds
<1>4. ClockTyped'
  BY <1>1, TypeParts DEF ManagerInv, Inv, ClockTyped, ResyncInformers, BeginStop, StopReturns,
     Tick, vars
<1>5. PodsTyped'
  <2>1. PodsTyped
    BY TypeParts DEF ManagerInv, Inv
  <2>2. CASE ResyncInformers
    BY <1>1, <2>1, <2>2, TimesAssumption DEF PodsTyped, ResyncInformers, bounds
  <2>3. CASE BeginStop \/ StopReturns \/ Tick \/ UNCHANGED vars
    BY <2>1, <2>3, TypesStay DEF BeginStop, StopReturns, Tick, vars, podVars, bounds
  <2> QED BY <2>2, <2>3
<1>6. StopTyped' /\ (shuttingDown => shuttingDown')
  BY TypeParts DEF ManagerInv, Inv, StopTyped, ResyncInformers, BeginStop, StopReturns, Tick,
     vars, workqueue
<1>7. TypeOK'
  BY <1>2, <1>4, <1>5, <1>6, TypePartsNext
<1> QED BY <1>0, <1>1, <1>6, <1>7, RestSane

-----------------------------------------------------------------------------
(* Theorems                                                                *)

LEMMA InitKeeps == Init => ManagerInv
<1> SUFFICES ASSUME Init PROVE ManagerInv
  OBVIOUS
<1>1. TypeOK
  <2>1. QueueTyped /\ TimersTyped /\ FailsTyped
    BY EmptySeq DEF Init, QueueTyped, TimersTyped, FailsTyped, Never
  <2>2. WorkerTyped /\ StopTyped
    BY DEF Init, WorkerTyped, StopTyped
  <2>3. PodsTyped /\ ClockTyped
    BY TimesAssumption DEF Init, PodsTyped, ClockTyped, Never
  <2> QED BY <2>1, <2>2, <2>3, TypeParts
<1>2. QueueSane
  BY DEF Init, QueueSane, Indices
<1>3. WorkerSane /\ DeadlineBacked /\ WorkerDrains
  BY DEF Init, WorkerSane, Busy, DeadlineBacked, WorkerDrains
<1> QED BY <1>1, <1>2, <1>3 DEF ManagerInv, Inv

LEMMA NextKeeps == ManagerInv /\ [Next]_vars => ManagerInv'
<1> SUFFICES ASSUME ManagerInv, [Next]_vars PROVE ManagerInv'
  OBVIOUS
<1>1. CASE Worker
  BY <1>1, GetItemKeeps, WorkerExitsKeeps, BeginReconcileKeeps, DoneKeeps,
     ReconcileReturnsKeeps DEF Worker
<1>2. CASE \E k \in Policies : DelayedAdd(k) \/ PeriodicResync(k)
  BY <1>2, DelayedAddKeeps, PeriodicResyncKeeps
<1>3. CASE \E p \in Pods : PodUnschedulable(p) \/ PodBinds(p) \/ ResyncPod(p)
  BY <1>3, PodStepKeeps
<1>4. CASE ResyncInformers \/ BeginStop \/ StopReturns \/ Exited \/ Tick \/ UNCHANGED vars
  BY <1>4, OtherStepsKeep DEF Exited
<1> QED BY <1>1, <1>2, <1>3, <1>4 DEF Next

LEMMA AlwaysManaged == Spec => []ManagerInv
BY InitKeeps, NextKeeps, PTL DEF Spec

\* Every variable has its type; in particular the in-flight counter that
\* Stop polls is zero or one, and no clock or deadline is ever negative.
THEOREM TypeCorrect == Spec => []TypeOK
<1>1. ManagerInv => TypeOK
  BY DEF ManagerInv, Inv
<1> QED BY <1>1, AlwaysManaged, PTL

\* A deadline in PendingWorkMap always has something behind it that makes the
\* worker take the policy by then, whatever handlers, retries and the worker
\* do in between.
THEOREM DeadlinesAlwaysBacked == Spec => []DeadlineBacked
<1>1. ManagerInv => DeadlineBacked
  BY DEF ManagerInv
<1> QED BY <1>1, AlwaysManaged, PTL

\* When the worker has exited, the workqueue is empty.
THEOREM WorkerAlwaysDrains == Spec => []WorkerDrains
<1>1. ManagerInv => WorkerDrains
  BY DEF ManagerInv
<1> QED BY <1>1, AlwaysManaged, PTL

-----------------------------------------------------------------------------
(* Stale pods                                                              *)

\* While the manager runs its queue is open, and the next resync is at most
\* one period away.
ResyncSane ==
    /\ stop = "running" => ~ shuttingDown
    /\ nextResync <= clock + InformerResync

\* The worker has, or will have, the policy in its hands.
Due(k) ==
    \/ k \in dirty
    \/ worker.key = k /\ worker.at \in {"got", "reconciling"}

\* The last resync came after the pod went stale: the pod's handler has yet to
\* run, or the policy is due, has failed, or was reconciled since then.
Revisited(p) ==
    (/\ stop = "running" /\ pendingSince[p] # Never /\ PolicyOf[p] \in Known
     /\ nextResync > pendingSince[p] + Threshold + InformerResync)
    => \/ p \in toResync
       \/ Due(PolicyOf[p])
       \/ requeues[PolicyOf[p]] # 0
       \/ reconciledAt[PolicyOf[p]] > pendingSince[p] + Threshold

RevisitInv == ManagerInv /\ ResyncSane /\ \A p \in Pods : Revisited(p)

LEMMA Numbers ==
    ASSUME TypeOK
    PROVE  /\ clock \in Nat /\ nextResync \in Nat
           /\ Threshold \in Nat /\ InformerResync \in Nat /\ InformerResync > 0
           /\ \A p \in Pods : pendingSince[p] \in Nat /\ PolicyOf[p] \in Policies
           /\ \A k \in Policies : requeues[k] \in Nat /\ reconciledAt[k] \in Nat
<1>1. clock \in Nat /\ nextResync \in Nat
  BY DEF TypeOK
<1>2. Threshold \in Nat /\ InformerResync \in Nat /\ InformerResync > 0
  BY TimesAssumption
<1>3. \A p \in Pods : pendingSince[p] \in Nat /\ PolicyOf[p] \in Policies
  BY PodsAssumption DEF TypeOK
<1>4. \A k \in Policies : requeues[k] \in Nat /\ reconciledAt[k] \in Nat
  BY DEF TypeOK
<1> QED BY <1>1, <1>2, <1>3, <1>4

LEMMA ResyncStaysSane ==
    ASSUME TypeOK, ResyncSane, [Next]_vars
    PROVE  ResyncSane'
<1>1. clock \in Nat /\ nextResync \in Nat /\ InformerResync \in Nat
  BY Numbers
<1>2. clock' = clock \/ clock' = clock + 1
  BY DEF Next, vars, Worker, GetItem, WorkerExits, BeginReconcile, Done, ReconcileSucceeds,
     ReconcileUnknown, ReconcileFails, Returned, DelayedAdd, PeriodicResync,
     PodUnschedulable, PodBinds, PodUpdate, ResyncPod, ResyncInformers, BeginStop,
     StopReturns, Exited, Tick
<1>3. nextResync' = nextResync \/ (nextResync' = clock + InformerResync /\ clock' = clock)
  BY DEF Next, vars, Worker, GetItem, WorkerExits, BeginReconcile, Done, ReconcileSucceeds,
     ReconcileUnknown, ReconcileFails, Returned, DelayedAdd, PeriodicResync,
     PodUnschedulable, PodBinds, PodUpdate, ResyncPod, ResyncInformers, BeginStop,
     StopReturns, Exited, Tick, podVars
<1>4. stop' = "running" => stop = "running" /\ shuttingDown' = shuttingDown
  BY DEF Next, vars, Worker, GetItem, WorkerExits, BeginReconcile, Done, ReconcileSucceeds,
     ReconcileUnknown, ReconcileFails, Returned, DelayedAdd, PeriodicResync,
     PodUnschedulable, PodBinds, PodUpdate, ResyncPod, ResyncInformers, BeginStop,
     StopReturns, Exited, Tick, workqueue
<1> QED BY <1>1, <1>2, <1>3, <1>4 DEF ResyncSane

\* Whoever adds a key leaves the others dirty.
LEMMA AddKeepsDirty ==
    ASSUME NEW k, Add(k)
    PROVE  dirty \subseteq dirty' /\ (~ shuttingDown => k \in dirty')
BY DEF Add

\* What a handler does leaves dirty keys dirty.
LEMMA HandlerKeepsDirty ==
    ASSUME NEW pod \in Pods, NEW since, CheckStalePending(pod, since)
    PROVE  dirty \subseteq dirty'
<1>1. CASE UNCHANGED <<queue, dirty, waiting, pendingWork>>
  BY <1>1
<1>2. CASE Enqueue(PolicyOf[pod])
  BY <1>2, AddKeepsDirty DEF Enqueue
<1>3. CASE EnqueueAfter(PolicyOf[pod], Threshold - (clock - since) + 1)
  BY <1>3 DEF EnqueueAfter
<1> QED BY <1>1, <1>2, <1>3 DEF CheckStalePending

\* Steps that take nothing from anybody: not from the dirty keys, not from the
\* worker, not from the record of failures and reconciles.
LEMMA RevisitStays ==
    ASSUME NEW p \in Pods, Revisited(p),
           dirty \subseteq dirty',
           UNCHANGED <<worker, requeues, reconciledAt, pendingSince[p], nextResync>>,
           stop' = "running" => stop = "running",
           p \in toResync => p \in toResync'
    PROVE  Revisited(p)'
BY DEF Revisited, Due

\* A pod's own handler: a pod that is stale by the last resync is past its
\* threshold, so the handler enqueues.
LEMMA HandlerRevisits ==
    ASSUME RevisitInv, TypeOK', ResyncSane', NEW pod \in Pods, NEW p \in Pods,
           PodUnschedulable(pod) \/ PodBinds(pod) \/ ResyncPod(pod)
    PROVE  Revisited(p)'
<1>0. TypeOK /\ ResyncSane /\ Revisited(p)
  BY DEF RevisitInv, ManagerInv, Inv
<1>1. CASE PodUnschedulable(pod) \/ PodBinds(pod)
  <2>1. PICK since \in {clock, Never} : PodUpdate(pod, since)
    BY <1>1 DEF PodUnschedulable, PodBinds
  <2>2. /\ dirty \subseteq dirty'
        /\ UNCHANGED <<worker, requeues, reconciledAt, nextResync, toResync, stop, clock>>
        /\ pendingSince' = [pendingSince EXCEPT ![pod] = since]
    BY <2>1, HandlerKeepsDirty DEF PodUpdate
  <2>3. CASE p # pod
    <3>1. pendingSince'[p] = pendingSince[p]
      BY <1>0, <2>2, <2>3 DEF TypeOK
    <3> QED BY <1>0, <2>2, <3>1, RevisitStays
  <2>4. CASE p = pod
    <3>1. pendingSince'[p] = since
      BY <1>0, <2>2, <2>4 DEF TypeOK
    <3>2. ~ (since # Never /\ nextResync' > since + Threshold + InformerResync)
      BY <1>0, <2>2, Numbers DEF ResyncSane
    <3> QED BY <3>1, <3>2 DEF Revisited
  <2> QED BY <2>3, <2>4
<1>2. CASE ResyncPod(pod)
  <2>1. /\ dirty \subseteq dirty'
        /\ UNCHANGED <<worker, requeues, reconciledAt, nextResync, stop, clock, pendingSince>>
        /\ toResync' = toResync \ {pod}
        /\ CheckStalePending(pod, pendingSince[pod])
    BY <1>2, HandlerKeepsDirty DEF ResyncPod
  <2>2. CASE p # pod
    BY <1>0, <2>1, <2>2, RevisitStays
  <2>3. CASE p = pod
    <3> SUFFICES ASSUME stop = "running", pendingSince[p] # Never,
                        nextResync > pendingSince[p] + Threshold + InformerResync
                 PROVE  PolicyOf[p] \in dirty'
      BY <2>1 DEF Revisited, Due
    <3>1. ~ (clock - pendingSince[p] < Threshold)
      BY <1>0, Numbers DEF ResyncSane
    <3>2. Enqueue(PolicyOf[p])
      BY <2>1, <2>3, <3>1 DEF CheckStalePending
    <3> QED BY <1>0, <3>2, AddKeepsDirty DEF Enqueue, ResyncSane
  <2> QED BY <2>2, <2>3
<1> QED BY <1>1, <1>2

\* The worker takes the key, and then reconciles it after the pod went stale,
\* or counts a failure.
LEMMA WorkerRevisits ==
    ASSUME RevisitInv, Worker, TypeOK', NEW p \in Pods
    PROVE  Revisited(p)'
<1> DEFINE k == PolicyOf[p]
<1>0. TypeOK /\ ResyncSane /\ Revisited(p) /\ k \in Policies
  BY Numbers DEF RevisitInv, ManagerInv, Inv
<1>1. CASE GetItem
  <2>1. /\ UNCHANGED <<requeues, reconciledAt, nextResync, toResync, stop, pendingSince>>
        /\ worker.at = "get" /\ dirty' = dirty \ {Head(queue)}
        /\ worker' = [at |-> "got", key |-> Head(queue)]
    BY <1>1 DEF GetItem, podVars
  <2>2. Due(k) => Due(k)'
    BY <2>1 DEF Due
  <2> QED BY <1>0, <2>1, <2>2 DEF Revisited
<1>2. CASE WorkerExits
  BY <1>0, <1>2 DEF WorkerExits, Revisited, ResyncSane, workqueue, podVars
<1>3. CASE BeginReconcile
  <2>1. /\ UNCHANGED <<dirty, requeues, reconciledAt, nextResync, toResync, stop, pendingSince>>
        /\ worker' = [worker EXCEPT !.at = "reconciling"]
    BY <1>3 DEF BeginReconcile, podVars, workqueue
  <2>2. Due(k) => Due(k)'
    BY <1>0, <2>1 DEF Due, TypeOK
  <2> QED BY <1>0, <2>1, <2>2 DEF Revisited
<1>4. CASE Done
  <2>1. /\ UNCHANGED <<dirty, requeues, reconciledAt, nextResync, toResync, stop, pendingSince>>
        /\ worker.at = "returned"
    BY <1>4 DEF Done, podVars
  <2>2. Due(k) => Due(k)'
    BY <2>1 DEF Due
  <2> QED BY <1>0, <2>1, <2>2 DEF Revisited
<1>5. CASE ReconcileSucceeds \/ ReconcileUnknown \/ ReconcileFails
  <2>1. /\ UNCHANGED <<dirty, nextResync, toResync, stop, clock, pendingSince>>
        /\ worker.at = "reconciling" /\ worker' = [worker EXCEPT !.at = "returned"]
    BY <1>5 DEF ReconcileSucceeds, ReconcileUnknown, ReconcileFails, Returned, podVars
  <2>2. CASE worker.key # k
    <3>1. requeues'[k] = requeues[k] /\ reconciledAt'[k] = reconciledAt[k]
      BY <1>0, <1>5, <2>2 DEF ReconcileSucceeds, ReconcileUnknown, ReconcileFails, Forget, TypeOK
    <3>2. Due(k) => Due(k)'
      BY <2>1, <2>2 DEF Due
    <3> QED BY <1>0, <2>1, <3>1, <3>2 DEF Revisited
  <2>3. CASE worker.key = k
    <3> SUFFICES ASSUME pendingSince[p] # Never, k \in Known,
                        nextResync > pendingSince[p] + Threshold + InformerResync
                 PROVE  \/ requeues'[k] # 0
                        \/ reconciledAt'[k] > pendingSince[p] + Threshold
      BY <2>1 DEF Revisited
    <3>1. CASE ReconcileFails
      <4>1. requeues'[k] = requeues[k] + 1
        BY <1>0, <2>3, <3>1 DEF ReconcileFails, TypeOK
      <4> QED BY <1>0, <4>1, Numbers
    <3>2. CASE ReconcileSucceeds
      <4>1. reconciledAt'[k] = clock
        BY <1>0, <2>3, <3>2 DEF ReconcileSucceeds, TypeOK
      <4> QED BY <1>0, <4>1, Numbers DEF ResyncSane
    <3>3. ~ ReconcileUnknown
      BY <2>3 DEF ReconcileUnknown
    <3> QED BY <1>5, <3>1, <3>2, <3>3
  <2> QED BY <2>2, <2>3
<1> QED BY <1>1, <1>2, <1>3, <1>4, <1>5 DEF Worker

\* Everything else neither takes work away nor makes a pod stale.
LEMMA OthersRevisit ==
    ASSUME RevisitInv, NEW p \in Pods,
           \/ \E k \in Policies : DelayedAdd(k) \/ PeriodicResync(k)
           \/ ResyncInformers \/ BeginStop \/ StopReturns \/ Tick \/ UNCHANGED vars
    PROVE  Revisited(p)'
<1>0. Revisited(p)
  BY DEF RevisitInv
<1>1. CASE \E k \in Policies : DelayedAdd(k) \/ PeriodicResync(k)
  <2>1. dirty \subseteq dirty'
    BY <1>1, AddKeepsDirty DEF DelayedAdd, PeriodicResync
  <2>2. UNCHANGED <<worker, requeues, reconciledAt, pendingSince, nextResync, stop, toResync>>
    BY <1>1 DEF DelayedAdd, PeriodicResync, podVars
  <2> QED BY <1>0, <2>1, <2>2, RevisitStays
<1>2. CASE ResyncInformers
  BY <1>2 DEF ResyncInformers, Revisited
<1>3. CASE BeginStop \/ StopReturns
  BY <1>3 DEF BeginStop, StopReturns, Revisited
<1>4. CASE Tick \/ UNCHANGED vars
  <2>1. UNCHANGED <<dirty, worker, requeues, reconciledAt, pendingSince, nextResync, stop, toResync>>
    BY <1>4 DEF Tick, vars, workqueue, podVars
  <2> QED BY <1>0, <2>1, RevisitStays
<1> QED BY <1>1, <1>2, <1>3, <1>4

LEMMA AlwaysRevisited == Spec => []RevisitInv
<1>1. Init => RevisitInv
  <2> SUFFICES ASSUME Init PROVE RevisitInv
    OBVIOUS
  <2>1. ManagerInv
    BY InitKeeps
  <2>2. ResyncSane
    BY TimesAssumption DEF Init, ResyncSane
  <2>3. \A p \in Pods : Revisited(p)
    BY DEF Init, Revisited
  <2> QED BY <2>1, <2>2, <2>3 DEF RevisitInv
<1>2. RevisitInv /\ [Next]_vars => RevisitInv'
  <2> SUFFICES ASSUME RevisitInv, [Next]_vars PROVE RevisitInv'
    OBVIOUS
  <2>1. ManagerInv'
    BY NextKeeps DEF RevisitInv
  <2>2. ResyncSane'
    BY ResyncStaysSane DEF RevisitInv, ManagerInv, Inv
  <2>3. ASSUME NEW p \in Pods PROVE Revisited(p)'
    <3>1. TypeOK'
      BY <2>1 DEF ManagerInv, Inv
    <3> QED BY <2>2, <3>1, HandlerRevisits, WorkerRevisits, OthersRevisit DEF Next, Exited
  <2> QED BY <2>1, <2>2, <2>3 DEF RevisitInv
<1> QED BY <1>1, <1>2, PTL DEF Spec

\* A pod that stays unschedulable past its threshold has its policy reconciled
\* within one informer resync, for any number of policies and pods, however
\* deadlines were dropped, forgotten and overtaken by retries.
THEOREM StalePodsRevisited == Spec => []StalePodRevisited
<1>1. RevisitInv => StalePodRevisited
  <2> SUFFICES ASSUME RevisitInv, NEW p \in Pods,
                      stop = "running", Rested, pendingSince[p] # Never,
                      PolicyOf[p] \in Known, \A k \in Policies : requeues[k] = 0,
                      ~ (clock < pendingSince[p] + Threshold + InformerResync)
               PROVE  reconciledAt[PolicyOf[p]] > pendingSince[p] + Threshold
    BY DEF StalePodRevisited
  <2>1. TypeOK /\ QueueSane /\ WorkerSane /\ Revisited(p)
    BY DEF RevisitInv, ManagerInv, Inv
  <2>2. PolicyOf[p] \in Policies
    BY <2>1, Numbers
  <2>3. nextResync > pendingSince[p] + Threshold + InformerResync
    BY <2>1, Numbers DEF Rested
  <2>4. ~ Due(PolicyOf[p])
    <3>1. worker.at = "get" /\ processing = {} /\ Indices = {}
      BY <2>1 DEF Rested, WorkerSane, Busy, Indices
    <3> QED BY <2>1, <3>1 DEF QueueSane, Due
  <2> QED BY <2>1, <2>2, <2>3, <2>4 DEF Revisited, Rested
<1> QED BY <1>1, AlwaysRevisited, PTL
=============================================================================
