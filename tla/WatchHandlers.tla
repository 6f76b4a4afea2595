--------------------------- MODULE WatchHandlers ---------------------------
(***************************************************************************)
(* The informers, the watch handlers and the reads of Build.               *)
(*                                                                         *)
(* Each informer keeps a store and runs its handlers in a goroutine of its *)
(* own: a change is in the store first, and a notice of it reaches the     *)
(* handler some time later, when this and the other stores may have moved  *)
(* on.  The worker takes a policy and lists the stores one by one.  What   *)
(* the handlers do not enqueue is looked at only when something comes back *)
(* by itself.                                                              *)
(***************************************************************************)
EXTENDS PolicySignals

CONSTANTS
    AtStart,      \* objects the cluster may have when the controller starts
    MaxChanges    \* bound: changes of objects, and replays by informers

Kinds == {"podGroups", "pods", "nodes", "queues", "events"}

ASSUME StartAssumption ==
    AtStart \subseteq PodGroupType \cup PodType \cup NodeType \cup QueueObjectType \cup EventType
ASSUME ChangesAssumption == MaxChanges \in Nat

VARIABLES
    podGroups, pods, nodes, queues, events,   \* the stores of the informers
    notices,    \* changes whose handler has yet to run
    enqueued,   \* policies in the workqueue
    deferred,   \* policies with a deferred enqueue
    worker,     \* the policy being built, if any, and what it has yet to list
    seen,       \* history: what each policy's last build listed
    changes     \* object changes so far, the resource version of the latest

stores == <<podGroups, pods, nodes, queues, events>>
work   == <<enqueued, deferred, worker, seen>>
vars   == <<podGroups, pods, nodes, queues, events, notices, enqueued, deferred,
            worker, seen, changes>>

ListType ==
    [podGroups : SUBSET PodGroupType, pods : SUBSET PodType, nodes : SUBSET NodeType,
     queues : SUBSET QueueObjectType, events : SUBSET EventType]

\* A notice has the object before, the object after, or both.
NoticeOf(kind, type) ==
    [kind : {kind}, old : SUBSET type, new : SUBSET type, version : Nat]

NoticeType ==
    NoticeOf("podGroups", PodGroupType) \cup NoticeOf("pods", PodType)
    \cup NoticeOf("nodes", NodeType) \cup NoticeOf("queues", QueueObjectType)
    \cup NoticeOf("events", EventType)

NothingListed ==
    [podGroups |-> {}, pods |-> {}, nodes |-> {}, queues |-> {}, events |-> {}]

Idle == [policy |-> {}, toList |-> {}]

UniqueNames(store) == \A a, b \in store : a.name = b.name => a = b

UniqueKeys(store) ==
    \A a, b \in store : <<a.ns, a.name>> = <<b.ns, b.name>> => a = b

-----------------------------------------------------------------------------
(* Objects change.  A store holds at most one object of a namespace and    *)
(* name.                                                                   *)

Notify(kind, old, new) ==
    /\ changes < MaxChanges
    /\ changes' = changes + 1
    /\ notices' = notices \cup
                    {[kind |-> kind, old |-> old, new |-> new, version |-> changes + 1]}
    /\ UNCHANGED work

PodGroupChanges(old, new) ==
    /\ podGroups' = (podGroups \ old) \cup new
    /\ Notify("podGroups", old, new)
    /\ UNCHANGED <<pods, nodes, queues, events>>

PodGroupAdded ==
    \E g \in PodGroupType :
        /\ \A h \in podGroups : <<h.ns, h.name>> # <<g.ns, g.name>>
        /\ PodGroupChanges({}, {g})

\* A PodGroup is bound to another Queue, completes, or is run again.
PodGroupUpdated ==
    \E g \in podGroups, queue \in Queues \cup {None}, completed \in BOOLEAN :
        PodGroupChanges({g}, {[g EXCEPT !.queue = queue, !.completed = completed]})

PodGroupDeleted == \E g \in podGroups : PodGroupChanges({g}, {})

PodChanges(old, new) ==
    /\ pods' = (pods \ old) \cup new
    /\ Notify("pods", old, new)
    /\ UNCHANGED <<podGroups, nodes, queues, events>>

PodAdded ==
    \E pod \in PodType :
        /\ \A q \in pods : <<q.ns, q.name>> # <<pod.ns, pod.name>>
        /\ pod.node # None => ~ pod.stuck
        /\ PodChanges({}, {pod})

\* A pod gets its PodGroup, turns unschedulable, or is bound, once.
PodUpdated ==
    \E pod \in pods, group \in GroupNames \cup {None},
       node \in NodeNames \cup {None}, stuck \in BOOLEAN :
        /\ pod.group \in {None, group} /\ pod.node \in {None, node}
        /\ node # None => ~ stuck
        /\ PodChanges({pod}, {[pod EXCEPT !.group = group, !.node = node,
                                          !.stuck = stuck]})

PodDeleted == \E pod \in pods : PodChanges({pod}, {})

NodeChanges(old, new) ==
    /\ nodes' = (nodes \ old) \cup new
    /\ Notify("nodes", old, new)
    /\ UNCHANGED <<podGroups, pods, queues, events>>

NodeAdded ==
    \E n \in NodeType :
        /\ \A m \in nodes : m.name # n.name
        /\ NodeChanges({}, {n})

NodeUpdated ==
    \E n \in nodes, group \in NodeGroups, supply \in Supplies :
        NodeChanges({n}, {[n EXCEPT !.group = group, !.supply = supply]})

\* The node is gone, or its label is: the filtered watch says the same.
NodeDeleted == \E n \in nodes : NodeChanges({n}, {})

QueueChanges(old, new) ==
    /\ queues' = (queues \ old) \cup new
    /\ Notify("queues", old, new)
    /\ UNCHANGED <<podGroups, pods, nodes, events>>

QueueAdded ==
    \E q \in QueueObjectType :
        /\ \A r \in queues : r.name # q.name
        /\ QueueChanges({}, {q})

QueueUpdated ==
    \E q \in queues, ledger \in Ledgers : QueueChanges({q}, {[q EXCEPT !.ledger = ledger]})

QueueDeleted == \E q \in queues : QueueChanges({q}, {})

EventChanges(old, new) ==
    /\ events' = (events \ old) \cup new
    /\ Notify("events", old, new)
    /\ UNCHANGED <<podGroups, pods, nodes, queues>>

EventAdded == \E e \in EventType \ events : EventChanges({}, {e})

EventExpired == \E e \in events : EventChanges({e}, {})

ObjectChanges ==
    \/ PodGroupAdded \/ PodGroupUpdated \/ PodGroupDeleted
    \/ PodAdded \/ PodUpdated \/ PodDeleted
    \/ NodeAdded \/ NodeUpdated \/ NodeDeleted
    \/ QueueAdded \/ QueueUpdated \/ QueueDeleted
    \/ EventAdded \/ EventExpired

-----------------------------------------------------------------------------
(* Handlers: the policies that a notice enqueues, given the stores at the  *)
(* time the handler runs.  An update that changes nothing a handler        *)
(* compares (old = new) enqueues nothing, except for pods.                 *)

\* NodeWatch: the values before and after; a change of supply has but one.
NodeEnqueues(n) ==
    IF n.old = n.new THEN {}
    ELSE UNION {PoliciesForNodeGroup(m.group) : m \in n.old \cup n.new}

\* Mutant: a change of phase goes unnoticed.
PodGroupEnqueuesRebound(n) ==
    IF {g.queue : g \in n.old} = {g.queue : g \in n.new} THEN {}
    ELSE UNION {PolicyByQueue(g.queue) : g \in n.old \cup n.new}

\* PodGroupWatch: the Queues before and after.
PodGroupEnqueues(n) ==
    IF n.old = n.new THEN {}
    ELSE UNION {PolicyByQueue(g.queue) : g \in n.old \cup n.new}

\* Mutant: the deletion of a Queue is left to the resync.
QueueEnqueuesPresent(n) ==
    IF n.old = n.new THEN {}
    ELSE UNION {PolicyByQueue(q.name) : q \in n.new}

\* QueueWatch: the fields the controller owns or reads.
QueueEnqueues(n) ==
    IF n.old = n.new THEN {}
    ELSE UNION {PolicyByQueue(q.name) : q \in n.old \cup n.new}

\* Mutant: only a pod that has just turned unschedulable is looked at.
StalePendingOfTurned(n) ==
    UNION {ResolvePodToPolicy(pod, podGroups) :
               pod \in {q \in n.new : q.stuck /\ ~ \E o \in n.old : o.stuck}}

\* checkStalePending: the policy of an unschedulable pod, at once or deferred;
\* nothing for a pod that is bound, schedulable or deleted.
StalePendingOf(n) ==
    UNION {ResolvePodToPolicy(pod, podGroups) : pod \in Unschedulable(n.new)}

\* onEventAdd: the policy of the event's pod, if the pod is in the store.
EventEnqueues(n) ==
    IF n.old # {} THEN {}
    ELSE UNION {ResolvePodToPolicy(pod, podGroups) :
                    pod \in {q \in pods : \E e \in n.new : e.ns = q.ns /\ e.pod = q.name}}

Enqueues(n) ==
    (IF n.kind = "podGroups" THEN PodGroupEnqueues(n) ELSE {})
    \cup (IF n.kind = "nodes" THEN NodeEnqueues(n) ELSE {})
    \cup (IF n.kind = "queues" THEN QueueEnqueues(n) ELSE {})

Handled(n) ==
    /\ notices' = notices \ {n}
    /\ UNCHANGED <<stores, worker, seen, changes>>

HandleNotice ==
    \E n \in notices :
        /\ n.kind \in {"podGroups", "nodes", "queues"}
        /\ Handled(n)
        /\ enqueued' = enqueued \cup Enqueues(n)
        /\ UNCHANGED deferred

HandleEventNotice ==
    \E n \in notices :
        /\ n.kind = "events"
        /\ Handled(n)
        /\ enqueued' = enqueued \cup EventEnqueues(n)
        /\ UNCHANGED deferred

\* How long the pod has been waiting decides between the two: any time may
\* have passed.
HandlePodNotice ==
    \E n \in notices :
        /\ n.kind = "pods"
        /\ Handled(n)
        /\ \/ enqueued' = enqueued \cup StalePendingOf(n) /\ UNCHANGED deferred
           \/ deferred' = deferred \cup StalePendingOf(n) /\ UNCHANGED enqueued

DeferredFires ==
    \E p \in deferred :
        /\ deferred' = deferred \ {p}
        /\ enqueued' = enqueued \cup {p}
        /\ UNCHANGED <<stores, notices, worker, seen, changes>>

\* The periodic resync of the manager.
PeriodicResync ==
    /\ enqueued' = Policies
    /\ UNCHANGED <<stores, notices, deferred, worker, seen, changes>>

-----------------------------------------------------------------------------
(* Build                                                                   *)

Take ==
    \E p \in enqueued :
        /\ worker = Idle
        /\ enqueued' = enqueued \ {p}
        /\ worker' = [policy |-> {p}, toList |-> Kinds]
        /\ UNCHANGED <<stores, notices, deferred, seen, changes>>

\* Build lists one store; the last one ends it.
Listed(kind, p) ==
    /\ kind \in worker.toList
    /\ p \in worker.policy
    /\ worker' = IF worker.toList = {kind} THEN Idle
                 ELSE [worker EXCEPT !.toList = @ \ {kind}]
    /\ UNCHANGED <<stores, notices, enqueued, deferred, changes>>

ListPodGroups(p) ==
    Listed("podGroups", p) /\ seen' = [seen EXCEPT ![p].podGroups = podGroups]

ListPods(p) ==
    /\ "podGroups" \notin worker.toList
    /\ Listed("pods", p)
    /\ seen' = [seen EXCEPT ![p].pods = pods]

ListNodes(p) ==
    /\ "pods" \notin worker.toList
    /\ Listed("nodes", p)
    /\ seen' = [seen EXCEPT ![p].nodes = nodes]

GetQueue(p) ==
    /\ "nodes" \notin worker.toList
    /\ Listed("queues", p)
    /\ seen' = [seen EXCEPT ![p].queues = queues]

ListEvents(p) ==
    /\ "queues" \notin worker.toList
    /\ Listed("events", p)
    /\ seen' = [seen EXCEPT ![p].events = events]

Build ==
    \E p \in worker.policy :
        ListPodGroups(p) \/ ListPods(p) \/ ListNodes(p) \/ GetQueue(p) \/ ListEvents(p)

-----------------------------------------------------------------------------
(* The start                                                               *)

Initially(type) == SUBSET (AtStart \cap type)

\* An informer tells its handlers of every object it lists first.
Listing(kind, store) ==
    {[kind |-> kind, old |-> {}, new |-> {object}, version |-> 0] : object \in store}

Listings ==
    Listing("podGroups", podGroups) \cup Listing("pods", pods)
    \cup Listing("nodes", nodes) \cup Listing("queues", queues)
    \cup Listing("events", events)

\* The worker starts when every store holds the objects the cluster has
\* (WaitForCacheSync on the informers).  Some handlers have run by then; those
\* of pods and events may have found the other stores still empty.
Init ==
    /\ podGroups \in Initially(PodGroupType) /\ UniqueKeys(podGroups)
    /\ pods \in Initially(PodType) /\ UniqueKeys(pods)
    /\ \A pod \in pods : pod.node # None => ~ pod.stuck
    /\ nodes \in Initially(NodeType) /\ UniqueNames(nodes)
    /\ queues \in Initially(QueueObjectType) /\ UniqueNames(queues)
    /\ events \in Initially(EventType)
    /\ notices \in SUBSET Listings
    /\ LET handled == Listings \ notices
           told    == {p \in Policies : \E n \in handled : p \in Enqueues(n)}
           stuck   == {p \in Policies : \E n \in handled :
                          n.kind = "pods" /\ p \in StalePendingOf(n)}
           scaled  == {p \in Policies : \E n \in handled :
                          n.kind = "events" /\ p \in EventEnqueues(n)}
       IN  /\ \E more \in SUBSET (stuck \cup scaled) : enqueued = told \cup more
           /\ deferred \in SUBSET stuck
    /\ worker = Idle
    /\ seen = [p \in Policies |-> NothingListed]
    /\ changes = 0

Next ==
    \/ ObjectChanges
    \/ HandleNotice \/ HandleEventNotice \/ HandlePodNotice
    \/ DeferredFires \/ PeriodicResync
    \/ Take \/ Build

Spec == Init /\ [][Next]_vars

-----------------------------------------------------------------------------
(* Properties                                                              *)

TypeOK ==
    /\ podGroups \subseteq PodGroupType
    /\ pods \subseteq PodType
    /\ nodes \subseteq NodeType
    /\ queues \subseteq QueueObjectType
    /\ events \subseteq EventType
    /\ notices \subseteq NoticeType
    /\ enqueued \subseteq Policies
    /\ deferred \subseteq Policies
    /\ worker \in [policy : SUBSET Policies, toList : SUBSET Kinds]
    /\ seen \in [Policies -> ListType]
    /\ changes \in Nat

\* The policy is in the workqueue, or the node, PodGroup or Queue handler is
\* about to put it there.
Coming(p) == p \in enqueued \/ \E n \in notices : p \in Enqueues(n)

\* The same, or the pod or event handler is, or has deferred it.
ComingForStuck(p) ==
    \/ Coming(p) \/ p \in deferred
    \/ \E n \in notices : n.kind = "pods" /\ p \in StalePendingOf(n)
    \/ \E n \in notices : n.kind = "events" /\ p \in EventEnqueues(n)

OverflowNow(p) == OverflowPods(p, podGroups, pods, nodes)

OverflowSeen(p) == OverflowPods(p, seen[p].podGroups, seen[p].pods, seen[p].nodes)

\* No pod changes pools behind the controller's back.  A pod that is as it
\* was when the policy was last built counts as an overflow pod of the policy
\* now exactly if it did then - however nodes were relabelled, lost or
\* regained, and PodGroups rebound, completed or deleted meanwhile - unless
\* the policy is on its way to the next build.  Pods that are bound or
\* deleted are the exception, they have no handler.
OverflowKnown ==
    \A p \in Policies \ worker.policy : \A pod \in pods \cap seen[p].pods :
        Coming(p) \/ (pod \in OverflowNow(p) <=> pod \in OverflowSeen(p))

\* What the reconcile loop is promised about the workload: a step after which
\* nothing is on its way to the policy - though objects of every kind may have
\* changed - leaves the policy's overflow pods as they were, up to the one pod
\* that was itself created, bound, given a PodGroup or deleted in that step.
\* (QueueSpill: PodBinds and PodGone enqueue nothing and move one pod;
\* NodesMove and PodGroupsMove move any number and enqueue.)
SilentMovesOnePod ==
    [][\A p \in Policies :
          \/ Coming(p)'
          \/ UNCHANGED OverflowNow(p)
          \/ \E key \in Namespaces \X PodNames :
                /\ ~ UNCHANGED {pod \in pods : <<pod.ns, pod.name>> = key}
                /\ UNCHANGED {pod \in OverflowNow(p) : <<pod.ns, pod.name>> # key}]_vars

\* No unschedulable pod goes unnoticed, and no autoscaler event about one,
\* in whatever order the pod, its annotation, its PodGroup and the event
\* reach the stores and their handlers: the last build of its policy saw
\* both, or a build is on its way or deferred.
StuckKnown ==
    \A p \in Policies \ worker.policy : \A pod \in StuckPods(p, podGroups, pods) :
        \/ ComingForStuck(p)
        \/ /\ pod \in StuckPods(p, seen[p].podGroups, seen[p].pods)
           /\ AutoscalerExhausted({pod}, events) =>
                  AutoscalerExhausted({pod}, seen[p].events)

\* The ledger the last build read is the one in the Queue informer's store,
\* unless a build is on its way.
LedgerKnown ==
    \A p \in Policies \ worker.policy :
        Coming(p) \/ LedgerOf(p, queues) = LedgerOf(p, seen[p].queues)

\* The builder counts a pod for a policy only if the pod's own PodGroup makes
\* it the policy's (comment on policyPods, builder.go; docs/design.md 3.1).
OnlyOwnPods ==
    \A p \in Policies : \A pod \in PolicyPods(p, podGroups, pods) :
        p \in ResolvePodToPolicy(pod, podGroups)
=============================================================================
