--------------------------- MODULE PolicySignals ---------------------------
(***************************************************************************)
(* Which PodGroups, pods, nodes and events the snapshot builder counts as  *)
(* a policy's, and which policy the watch handlers think a pod belongs to. *)
(* The two are computed by different code: the builder joins pods to       *)
(* PodGroups, and events to pods, by name alone; the handlers look both up *)
(* by namespace and name.                                                  *)
(*                                                                         *)
(* Objects are records, an informer's store is a set of them.              *)
(***************************************************************************)
EXTENDS Naturals, FiniteSets

CONSTANTS
    Policies,     \* names in the policy registry
    Registry,     \* the registry: policy name to Queue and node groups
    Namespaces,
    PodNames,
    GroupNames,   \* names of PodGroups
    NodeNames,
    Queues,       \* names of Queues
    NodeGroups,   \* values of the node group label
    Supplies,     \* readiness, taints and allocatable resources of a node
    Ledgers,      \* contents of the Queue fields the controller owns or reads
    None          \* no annotation, no node, a Queue of no policy

RegistryType ==
    [Policies -> [queue : Queues, dedicated : NodeGroups, overflow : NodeGroups]]

ASSUME RegistryAssumption ==
    /\ Registry \in RegistryType
    /\ \A p, q \in Policies : Registry[p].queue = Registry[q].queue => p = q
    /\ \A p \in Policies : Registry[p].dedicated # Registry[p].overflow
ASSUME NoneAssumption == None \notin GroupNames \cup NodeNames \cup Queues

PodGroupType ==
    [ns : Namespaces, name : GroupNames, queue : Queues \cup {None}, completed : BOOLEAN]

PodType ==
    [ns : Namespaces, name : PodNames, group : GroupNames \cup {None},
     node : NodeNames \cup {None}, stuck : BOOLEAN]

\* The node informer is filtered by the presence of the label.
NodeType == [name : NodeNames, group : NodeGroups, supply : Supplies]

QueueObjectType == [name : Queues, ledger : Ledgers]

\* An autoscaler event that says FailedScaling or NotTriggerScaleUp of a pod.
EventType == [ns : Namespaces, pod : PodNames]

-----------------------------------------------------------------------------
(* The registry's lookups                                                  *)

\* Mutant: the Queue's own name is looked up as if it were the policy's.
PolicyByQueueName(queue) == {queue}

PolicyByQueue(queue) == {p \in Policies : Registry[p].queue = queue}

PoliciesForNodeGroup(value) ==
    {p \in Policies : value \in {Registry[p].dedicated, Registry[p].overflow}}

-----------------------------------------------------------------------------
(* The builder                                                             *)

PolicyPodGroups(p, groups) ==
    {g \in groups : g.queue = Registry[p].queue /\ ~ g.completed}

PolicyPods(p, groups, pods) ==
    {pod \in pods : \E g \in PolicyPodGroups(p, groups) : g.name = pod.group}

PoolNodes(value, nodes) == {n \in nodes : n.group = value}

NodeNameSet(nodes) == {n.name : n \in nodes}

PodsOnNodes(pods, names) == {pod \in pods : pod.node \in names}

OverflowPods(p, groups, pods, nodes) ==
    PodsOnNodes(PolicyPods(p, groups, pods),
                NodeNameSet(PoolNodes(Registry[p].overflow, nodes)))

Unschedulable(pods) == {pod \in pods : pod.stuck}

StuckPods(p, groups, pods) == Unschedulable(PolicyPods(p, groups, pods))

AutoscalerExhausted(pods, events) ==
    \E e \in events : \E pod \in pods : e.pod = pod.name

LedgerOf(p, queues) == {q \in queues : q.name = Registry[p].queue}

-----------------------------------------------------------------------------
(* The handlers                                                            *)

\* Pod to PodGroup, in the pod's namespace, to Queue to policy.
ResolvePodToPolicy(pod, groups) ==
    {p \in Policies : \E g \in groups :
        g.ns = pod.ns /\ g.name = pod.group /\ g.queue = Registry[p].queue}
=============================================================================
