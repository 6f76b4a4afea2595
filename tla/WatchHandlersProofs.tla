------------------------ MODULE WatchHandlersProofs ------------------------
(***************************************************************************)
(* Proofs about WatchHandlers, for every registry, cluster and bound.      *)
(*                                                                         *)
(* A build is owed for a difference between a store and what the last      *)
(* build listed, store by store: the difference begins with a notice that  *)
(* names the policy, the handler turns the notice into an enqueue, and the *)
(* enqueue is used up by a build that has yet to list that store.          *)
(***************************************************************************)
EXTENDS WatchHandlers, TLAPS

-----------------------------------------------------------------------------
(* Types                                                                   *)

\* A change of objects keeps the notices typed.
LEMMA NotifyTypes ==
    ASSUME TypeOK, NEW kind, NEW old, NEW new, Notify(kind, old, new),
           [kind |-> kind, old |-> old, new |-> new, version |-> changes + 1] \in NoticeType
    PROVE  /\ notices' \subseteq NoticeType
           /\ changes' \in Nat
           /\ enqueued' = enqueued /\ deferred' = deferred
           /\ worker' = worker /\ seen' = seen
BY DEF TypeOK, Notify, work

LEMMA PodGroupTypes == ASSUME TypeOK, PodGroupAdded \/ PodGroupUpdated \/ PodGroupDeleted
                       PROVE  TypeOK'
<1>1. PICK old \in SUBSET PodGroupType, new \in SUBSET PodGroupType :
          PodGroupChanges(old, new)
  BY DEF TypeOK, PodGroupAdded, PodGroupUpdated, PodGroupDeleted, PodGroupType
<1>2. [kind |-> "podGroups", old |-> old, new |-> new, version |-> changes + 1] \in NoticeType
  BY DEF TypeOK, NoticeType, NoticeOf
<1> QED BY <1>1, <1>2, NotifyTypes DEF PodGroupChanges, TypeOK

LEMMA PodTypes == ASSUME TypeOK, PodAdded \/ PodUpdated \/ PodDeleted
                  PROVE  TypeOK'
<1>1. PICK old \in SUBSET PodType, new \in SUBSET PodType : PodChanges(old, new)
  BY DEF TypeOK, PodAdded, PodUpdated, PodDeleted, PodType
<1>2. [kind |-> "pods", old |-> old, new |-> new, version |-> changes + 1] \in NoticeType
  BY DEF TypeOK, NoticeType, NoticeOf
<1> QED BY <1>1, <1>2, NotifyTypes DEF PodChanges, TypeOK

LEMMA NodeTypes == ASSUME TypeOK, NodeAdded \/ NodeUpdated \/ NodeDeleted
                   PROVE  TypeOK'
<1>1. PICK old \in SUBSET NodeType, new \in SUBSET NodeType : NodeChanges(old, new)
  BY DEF TypeOK, NodeAdded, NodeUpdated, NodeDeleted, NodeType
<1>2. [kind |-> "nodes", old |-> old, new |-> new, version |-> changes + 1] \in NoticeType
  BY DEF TypeOK, NoticeType, NoticeOf
<1> QED BY <1>1, <1>2, NotifyTypes DEF NodeChanges, TypeOK

LEMMA QueueTypes == ASSUME TypeOK, QueueAdded \/ QueueUpdated \/ QueueDeleted
                    PROVE  TypeOK'
<1>1. PICK old \in SUBSET QueueObjectType, new \in SUBSET QueueObjectType :
          QueueChanges(old, new)
  BY DEF TypeOK, QueueAdded, QueueUpdated, QueueDeleted, QueueObjectType
<1>2. [kind |-> "queues", old |-> old, new |-> new, version |-> changes + 1] \in NoticeType
  BY DEF TypeOK, NoticeType, NoticeOf
<1> QED BY <1>1, <1>2, NotifyTypes DEF QueueChanges, TypeOK

LEMMA EventTypes == ASSUME TypeOK, EventAdded \/ EventExpired
                    PROVE  TypeOK'
<1>1. PICK old \in SUBSET EventType, new \in SUBSET EventType : EventChanges(old, new)
  BY DEF TypeOK, EventAdded, EventExpired
<1>2. [kind |-> "events", old |-> old, new |-> new, version |-> changes + 1] \in NoticeType
  BY DEF TypeOK, NoticeType, NoticeOf
<1> QED BY <1>1, <1>2, NotifyTypes DEF EventChanges, TypeOK

\* Handlers enqueue names of the registry and nothing else.
LEMMA EnqueuesTypes ==
    ASSUME NEW n
    PROVE  /\ Enqueues(n) \subseteq Policies
           /\ EventEnqueues(n) \subseteq Policies
           /\ StalePendingOf(n) \subseteq Policies
BY DEF Enqueues, EventEnqueues, StalePendingOf, NodeEnqueues, PodGroupEnqueues,
       QueueEnqueues, PolicyByQueue, PoliciesForNodeGroup, ResolvePodToPolicy

LEMMA HandlerTypes ==
    ASSUME TypeOK, HandleNotice \/ HandleEventNotice \/ HandlePodNotice
                   \/ DeferredFires \/ PeriodicResync
    PROVE  TypeOK'
BY EnqueuesTypes
   DEF TypeOK, HandleNotice, HandleEventNotice, HandlePodNotice, Handled,
       DeferredFires, PeriodicResync, stores

LEMMA BuildTypes == ASSUME TypeOK, Take \/ Build PROVE TypeOK'
<1>1. CASE Take
  BY <1>1 DEF Take, TypeOK, stores, Kinds
<1>2. CASE Build
  <2>1. PICK p \in worker.policy :
            ListPodGroups(p) \/ ListPods(p) \/ ListNodes(p) \/ GetQueue(p) \/ ListEvents(p)
    BY <1>2 DEF Build
  <2>2. PICK kind \in Kinds : Listed(kind, p)
    BY <2>1 DEF ListPodGroups, ListPods, ListNodes, GetQueue, ListEvents, Kinds
  <2>3. seen' \in [Policies -> ListType]
    BY <2>1 DEF ListPodGroups, ListPods, ListNodes, GetQueue, ListEvents, TypeOK, ListType
  <2>4. worker' \in [policy : SUBSET Policies, toList : SUBSET Kinds]
    BY <2>2 DEF Listed, TypeOK, Idle
  <2> QED BY <2>2, <2>3, <2>4 DEF Listed, TypeOK, stores
<1> QED BY <1>1, <1>2

LEMMA StoresTyped ==
    ASSUME Init
    PROVE  /\ podGroups \subseteq PodGroupType /\ pods \subseteq PodType
           /\ nodes \subseteq NodeType /\ queues \subseteq QueueObjectType
           /\ events \subseteq EventType
BY DEF Init, Initially

\* Every variable has its type, in every reachable state.
THEOREM TypeCorrect == Spec => []TypeOK
<1>1. Init => TypeOK
  <2> SUFFICES ASSUME Init PROVE TypeOK
    OBVIOUS
  <2>1. enqueued \subseteq Policies
    BY DEF Init
  <2>2. deferred \subseteq Policies
    BY DEF Init
  <2>4. notices \subseteq NoticeType
    <3>1. Listings \subseteq NoticeType
      BY StoresTyped DEF Listings, Listing, NoticeType, NoticeOf
    <3> QED BY <3>1 DEF Init
  <2>3. seen \in [Policies -> ListType]
    BY DEF Init, NothingListed, ListType
  <2> QED BY <2>1, <2>2, <2>3, <2>4, StoresTyped DEF Init, TypeOK, Idle
<1>2. TypeOK /\ [Next]_vars => TypeOK'
  <2> SUFFICES ASSUME TypeOK, [Next]_vars PROVE TypeOK'
    OBVIOUS
  <2>1. CASE UNCHANGED vars
    BY <2>1 DEF vars, TypeOK
  <2>2. CASE ObjectChanges
    BY <2>2, PodGroupTypes, PodTypes, NodeTypes, QueueTypes, EventTypes
       DEF ObjectChanges
  <2> QED BY <2>1, <2>2, HandlerTypes, BuildTypes DEF Next
<1> QED BY <1>1, <1>2, PTL DEF Spec

-----------------------------------------------------------------------------
(* What each build is owed                                                 *)

\* The build of p in progress has yet to list this store.
Unlisted(kind, p) == p \in worker.policy /\ kind \in worker.toList

\* A build of p that has yet to list this store is coming or under way.
Owed(kind, p) == Coming(p) \/ Unlisted(kind, p)

GroupsTracked ==
    \A p \in Policies :
        \/ PolicyPodGroups(p, podGroups) = PolicyPodGroups(p, seen[p].podGroups)
        \/ Owed("podGroups", p)

PoolTracked ==
    \A p \in Policies :
        \/ PoolNodes(Registry[p].overflow, nodes) =
               PoolNodes(Registry[p].overflow, seen[p].nodes)
        \/ Owed("nodes", p)

LedgerTracked ==
    \A p \in Policies :
        \/ LedgerOf(p, queues) = LedgerOf(p, seen[p].queues)
        \/ Owed("queues", p)

\* The handler has yet to see this version of the pod.
PodNoticed(pod) == \E n \in notices : n.kind = "pods" /\ n.new = {pod}

\* The handler has yet to see this event.
EventNoticed(e) == \E n \in notices : n.kind = "events" /\ n.old = {} /\ n.new = {e}

PodsTracked ==
    \A p \in Policies : \A pod \in Unschedulable(pods) :
        p \in ResolvePodToPolicy(pod, podGroups) =>
            \/ pod \in seen[p].pods
            \/ Owed("pods", p) \/ p \in deferred \/ PodNoticed(pod)

EventsTracked ==
    \A p \in Policies : \A pod \in Unschedulable(pods) : \A e \in events :
        (p \in ResolvePodToPolicy(pod, podGroups) /\ e.ns = pod.ns /\ e.pod = pod.name) =>
            \/ e \in seen[p].events
            \/ Owed("events", p) \/ p \in deferred
            \/ PodNoticed(pod) \/ EventNoticed(e)

OneAtATime == \A p, q \in worker.policy : p = q

Tracked ==
    /\ TypeOK /\ OneAtATime
    /\ GroupsTracked /\ PoolTracked /\ LedgerTracked
    /\ PodsTracked /\ EventsTracked

\* Handlers of nodes, PodGroups and Queues read nothing but their notice.
LEMMA EnqueuesNames ==
    ASSUME NEW n, n.old # n.new, NEW p \in Policies
    PROVE  /\ \A g \in n.old \cup n.new : n.kind = "podGroups" /\ g.queue = Registry[p].queue
                                            => p \in Enqueues(n)
           /\ \A m \in n.old \cup n.new : n.kind = "nodes" /\ m.group = Registry[p].overflow
                                            => p \in Enqueues(n)
           /\ \A q \in n.old \cup n.new : n.kind = "queues" /\ q.name = Registry[p].queue
                                            => p \in Enqueues(n)
BY DEF Enqueues, PodGroupEnqueues, NodeEnqueues, QueueEnqueues, PolicyByQueue,
       PoliciesForNodeGroup

\* A change of objects keeps what is owed and adds its own notice.
LEMMA NotifyOwes ==
    ASSUME TypeOK, NEW kind, NEW old, NEW new, Notify(kind, old, new)
    PROVE  LET n == [kind |-> kind, old |-> old, new |-> new, version |-> changes + 1]
           IN  /\ n \in notices'
               /\ \A p : p \in Enqueues(n) => Coming(p)'
               /\ \A p : Coming(p) => Coming(p)'
               /\ \A k, p : Owed(k, p) => Owed(k, p)'
               /\ \A pod : PodNoticed(pod) => PodNoticed(pod)'
               /\ \A e : EventNoticed(e) => EventNoticed(e)'
               /\ UNCHANGED work
BY DEF Notify, work, Coming, Owed, Unlisted, PodNoticed, EventNoticed

-----------------------------------------------------------------------------
(* Objects change                                                          *)

LEMMA PodGroupTracks ==
    ASSUME Tracked, PodGroupAdded \/ PodGroupUpdated \/ PodGroupDeleted
    PROVE  Tracked'
<1> USE DEF Tracked
<1>1. PICK old, new : old \subseteq podGroups /\ PodGroupChanges(old, new)
  BY DEF PodGroupAdded, PodGroupUpdated, PodGroupDeleted
<1> DEFINE n == [kind |-> "podGroups", old |-> old, new |-> new, version |-> changes + 1]
<1>2. /\ \A p : p \in Enqueues(n) => Coming(p)'
      /\ \A k, p : Owed(k, p) => Owed(k, p)'
      /\ \A pod : PodNoticed(pod) => PodNoticed(pod)'
      /\ \A e : EventNoticed(e) => EventNoticed(e)'
      /\ UNCHANGED work
      /\ UNCHANGED <<pods, nodes, queues, events>>
  BY <1>1, NotifyOwes DEF PodGroupChanges
<1>3. ASSUME NEW p \in Policies, NEW g, g.queue = Registry[p].queue,
             (g \in podGroups) # (g \in podGroups')
      PROVE  Coming(p)'
  <2>1. g \in old \cup new /\ old # new
    BY <1>1, <1>3 DEF PodGroupChanges
  <2>2. p \in Enqueues(n)
    BY <2>1, <1>3, EnqueuesNames
  <2> QED BY <2>2, <1>2
<1>4. TypeOK' /\ OneAtATime'
  BY PodGroupTypes, <1>2 DEF OneAtATime, work
<1>5. GroupsTracked'
  <2> SUFFICES ASSUME NEW p \in Policies, ~ Coming(p)', ~ Owed("podGroups", p)'
               PROVE  (PolicyPodGroups(p, podGroups)
                           = PolicyPodGroups(p, seen[p].podGroups))'
    BY DEF GroupsTracked, Owed
  <2>1. PolicyPodGroups(p, podGroups') = PolicyPodGroups(p, podGroups)
    BY <1>3 DEF PolicyPodGroups
  <2> QED BY <2>1, <1>2 DEF GroupsTracked, work
<1>6. PoolTracked' /\ LedgerTracked'
  BY <1>2 DEF PoolTracked, LedgerTracked, work
<1>7. ASSUME NEW p \in Policies, NEW pod, ~ Coming(p)',
             p \in ResolvePodToPolicy(pod, podGroups')
      PROVE  p \in ResolvePodToPolicy(pod, podGroups)
  BY <1>3, <1>7 DEF ResolvePodToPolicy
<1>8. PodsTracked'
  BY <1>2, <1>7 DEF PodsTracked, Owed, work
<1>9. EventsTracked'
  BY <1>2, <1>7 DEF EventsTracked, Owed, work
<1> QED BY <1>4, <1>5, <1>6, <1>8, <1>9

LEMMA PodTracks ==
    ASSUME Tracked, PodAdded \/ PodUpdated \/ PodDeleted
    PROVE  Tracked'
<1> USE DEF Tracked
<1>1. PICK old, new : /\ new = {} \/ \E pod : new = {pod}
                      /\ PodChanges(old, new)
  BY DEF PodAdded, PodUpdated, PodDeleted
<1> DEFINE n == [kind |-> "pods", old |-> old, new |-> new, version |-> changes + 1]
<1>2. /\ n \in notices'
      /\ \A k, p : Owed(k, p) => Owed(k, p)'
      /\ \A pod : PodNoticed(pod) => PodNoticed(pod)'
      /\ \A e : EventNoticed(e) => EventNoticed(e)'
      /\ UNCHANGED work
      /\ UNCHANGED <<podGroups, nodes, queues, events>>
  BY <1>1, NotifyOwes DEF PodChanges
<1>3. \A pod \in pods' : pod \in pods \/ PodNoticed(pod)'
  BY <1>1, <1>2 DEF PodChanges, PodNoticed
<1>4. TypeOK' /\ OneAtATime'
  BY PodTypes, <1>2 DEF OneAtATime, work
<1>5. GroupsTracked' /\ PoolTracked' /\ LedgerTracked'
  BY <1>2 DEF GroupsTracked, PoolTracked, LedgerTracked, work
<1>6. PodsTracked'
  BY <1>2, <1>3 DEF PodsTracked, Unschedulable, work
<1>7. EventsTracked'
  BY <1>2, <1>3 DEF EventsTracked, Unschedulable, work
<1> QED BY <1>4, <1>5, <1>6, <1>7

LEMMA NodeTracks ==
    ASSUME Tracked, NodeAdded \/ NodeUpdated \/ NodeDeleted
    PROVE  Tracked'
<1> USE DEF Tracked
<1>1. PICK old, new : old \subseteq nodes /\ NodeChanges(old, new)
  BY DEF NodeAdded, NodeUpdated, NodeDeleted
<1> DEFINE n == [kind |-> "nodes", old |-> old, new |-> new, version |-> changes + 1]
<1>2. /\ \A p : p \in Enqueues(n) => Coming(p)'
      /\ \A k, p : Owed(k, p) => Owed(k, p)'
      /\ \A pod : PodNoticed(pod) => PodNoticed(pod)'
      /\ \A e : EventNoticed(e) => EventNoticed(e)'
      /\ UNCHANGED work
      /\ UNCHANGED <<podGroups, pods, queues, events>>
  BY <1>1, NotifyOwes DEF NodeChanges
<1>3. ASSUME NEW p \in Policies, NEW m, m.group = Registry[p].overflow,
             (m \in nodes) # (m \in nodes')
      PROVE  Coming(p)'
  <2>1. m \in old \cup new /\ old # new
    BY <1>1, <1>3 DEF NodeChanges
  <2>2. p \in Enqueues(n)
    BY <2>1, <1>3, EnqueuesNames
  <2> QED BY <2>2, <1>2
<1>4. TypeOK' /\ OneAtATime'
  BY NodeTypes, <1>2 DEF OneAtATime, work
<1>5. PoolTracked'
  <2> SUFFICES ASSUME NEW p \in Policies, ~ Coming(p)', ~ Owed("nodes", p)'
               PROVE  (PoolNodes(Registry[p].overflow, nodes)
                           = PoolNodes(Registry[p].overflow, seen[p].nodes))'
    BY DEF PoolTracked, Owed
  <2>1. PoolNodes(Registry[p].overflow, nodes') = PoolNodes(Registry[p].overflow, nodes)
    BY <1>3 DEF PoolNodes
  <2> QED BY <2>1, <1>2 DEF PoolTracked, work
<1>6. GroupsTracked' /\ LedgerTracked'
  BY <1>2 DEF GroupsTracked, LedgerTracked, work
<1>7. PodsTracked' /\ EventsTracked'
  BY <1>2 DEF PodsTracked, EventsTracked, work
<1> QED BY <1>4, <1>5, <1>6, <1>7

LEMMA QueueTracks ==
    ASSUME Tracked, QueueAdded \/ QueueUpdated \/ QueueDeleted
    PROVE  Tracked'
<1> USE DEF Tracked
<1>1. PICK old, new : old \subseteq queues /\ QueueChanges(old, new)
  BY DEF QueueAdded, QueueUpdated, QueueDeleted
<1> DEFINE n == [kind |-> "queues", old |-> old, new |-> new, version |-> changes + 1]
<1>2. /\ \A p : p \in Enqueues(n) => Coming(p)'
      /\ \A k, p : Owed(k, p) => Owed(k, p)'
      /\ \A pod : PodNoticed(pod) => PodNoticed(pod)'
      /\ \A e : EventNoticed(e) => EventNoticed(e)'
      /\ UNCHANGED work
      /\ UNCHANGED <<podGroups, pods, nodes, events>>
  BY <1>1, NotifyOwes DEF QueueChanges
<1>3. ASSUME NEW p \in Policies, NEW q, q.name = Registry[p].queue,
             (q \in queues) # (q \in queues')
      PROVE  Coming(p)'
  <2>1. q \in old \cup new /\ old # new
    BY <1>1, <1>3 DEF QueueChanges
  <2>2. p \in Enqueues(n)
    BY <2>1, <1>3, EnqueuesNames
  <2> QED BY <2>2, <1>2
<1>4. TypeOK' /\ OneAtATime'
  BY QueueTypes, <1>2 DEF OneAtATime, work
<1>5. LedgerTracked'
  <2> SUFFICES ASSUME NEW p \in Policies, ~ Coming(p)', ~ Owed("queues", p)'
               PROVE  (LedgerOf(p, queues) = LedgerOf(p, seen[p].queues))'
    BY DEF LedgerTracked, Owed
  <2>1. LedgerOf(p, queues') = LedgerOf(p, queues)
    BY <1>3 DEF LedgerOf
  <2> QED BY <2>1, <1>2 DEF LedgerTracked, work
<1>6. GroupsTracked' /\ PoolTracked'
  BY <1>2 DEF GroupsTracked, PoolTracked, work
<1>7. PodsTracked' /\ EventsTracked'
  BY <1>2 DEF PodsTracked, EventsTracked, work
<1> QED BY <1>4, <1>5, <1>6, <1>7

LEMMA EventTracks ==
    ASSUME Tracked, EventAdded \/ EventExpired
    PROVE  Tracked'
<1> USE DEF Tracked
<1>1. PICK old, new : /\ new = {} \/ (old = {} /\ \E e : new = {e})
                      /\ EventChanges(old, new)
  BY DEF EventAdded, EventExpired
<1> DEFINE n == [kind |-> "events", old |-> old, new |-> new, version |-> changes + 1]
<1>2. /\ n \in notices'
      /\ \A k, p : Owed(k, p) => Owed(k, p)'
      /\ \A pod : PodNoticed(pod) => PodNoticed(pod)'
      /\ \A e : EventNoticed(e) => EventNoticed(e)'
      /\ UNCHANGED work
      /\ UNCHANGED <<podGroups, pods, nodes, queues>>
  BY <1>1, NotifyOwes DEF EventChanges
<1>3. \A e \in events' : e \in events \/ EventNoticed(e)'
  BY <1>1, <1>2 DEF EventChanges, EventNoticed
<1>4. TypeOK' /\ OneAtATime'
  BY EventTypes, <1>2 DEF OneAtATime, work
<1>5. GroupsTracked' /\ PoolTracked' /\ LedgerTracked'
  BY <1>2 DEF GroupsTracked, PoolTracked, LedgerTracked, work
<1>6. PodsTracked'
  BY <1>2 DEF PodsTracked, work
<1>7. EventsTracked'
  BY <1>2, <1>3 DEF EventsTracked, work
<1> QED BY <1>4, <1>5, <1>6, <1>7

-----------------------------------------------------------------------------
(* Handlers run                                                            *)

\* What a handler must do with its notice for nothing to be forgotten.
LEMMA HandledKeeps ==
    ASSUME Tracked, TypeOK', UNCHANGED <<stores, worker, seen>>,
           \A k, p : Owed(k, p) => Owed(k, p)',
           \A p \in deferred : p \in deferred' \/ Coming(p)',
           \A p \in Policies, pod \in Unschedulable(pods) :
               (PodNoticed(pod) /\ p \in ResolvePodToPolicy(pod, podGroups)) =>
                   PodNoticed(pod)' \/ Coming(p)' \/ p \in deferred',
           \A p \in Policies, pod \in Unschedulable(pods), e \in events :
               (/\ EventNoticed(e) /\ p \in ResolvePodToPolicy(pod, podGroups)
                /\ e.ns = pod.ns /\ e.pod = pod.name) =>
                   EventNoticed(e)' \/ Coming(p)'
    PROVE  Tracked'
<1>1. OneAtATime' /\ GroupsTracked' /\ PoolTracked' /\ LedgerTracked'
  BY DEF Tracked, OneAtATime, GroupsTracked, PoolTracked, LedgerTracked, stores
<1>2. PodsTracked'
  BY DEF Tracked, PodsTracked, Owed, stores
<1>3. EventsTracked'
  BY DEF Tracked, EventsTracked, Owed, stores
<1> QED BY <1>1, <1>2, <1>3 DEF Tracked

LEMMA NoticeTracks == ASSUME Tracked, HandleNotice PROVE Tracked'
<1> USE DEF Tracked
<1>1. PICK n \in notices : /\ n.kind \in {"podGroups", "nodes", "queues"}
                           /\ Handled(n)
                           /\ enqueued' = enqueued \cup Enqueues(n)
                           /\ UNCHANGED deferred
  BY DEF HandleNotice
<1>2. \A k, p : Owed(k, p) => Owed(k, p)'
  BY <1>1 DEF Handled, Owed, Coming, Unlisted
<1>3. \A x : (PodNoticed(x) => PodNoticed(x)') /\ (EventNoticed(x) => EventNoticed(x)')
  BY <1>1 DEF Handled, PodNoticed, EventNoticed
<1> QED BY <1>1, <1>2, <1>3, HandlerTypes, HandledKeeps DEF Handled

LEMMA EventNoticeTracks == ASSUME Tracked, HandleEventNotice PROVE Tracked'
<1> USE DEF Tracked
<1>1. PICK n \in notices : /\ n.kind = "events"
                           /\ Handled(n)
                           /\ enqueued' = enqueued \cup EventEnqueues(n)
                           /\ UNCHANGED deferred
  BY DEF HandleEventNotice
<1>2. Enqueues(n) = {}
  BY <1>1 DEF Enqueues
<1>3. \A k, p : Owed(k, p) => Owed(k, p)'
  BY <1>1, <1>2 DEF Handled, Owed, Coming, Unlisted
<1>4. \A pod : PodNoticed(pod) => PodNoticed(pod)'
  BY <1>1 DEF Handled, PodNoticed
<1>5. ASSUME NEW p \in Policies, NEW pod \in Unschedulable(pods), NEW e \in events,
             EventNoticed(e), p \in ResolvePodToPolicy(pod, podGroups),
             e.ns = pod.ns, e.pod = pod.name
      PROVE  EventNoticed(e)' \/ Coming(p)'
  <2>1. CASE n.old = {} /\ n.new = {e}
    <3>1. pod \in {q \in pods : \E f \in n.new : f.ns = q.ns /\ f.pod = q.name}
      BY <2>1, <1>5 DEF Unschedulable
    <3>2. p \in EventEnqueues(n)
      BY <2>1, <3>1, <1>5 DEF EventEnqueues
    <3> QED BY <3>2, <1>1 DEF Coming
  <2>2. CASE ~ (n.old = {} /\ n.new = {e})
    BY <2>2, <1>5, <1>1 DEF EventNoticed, Handled
  <2> QED BY <2>1, <2>2
<1> QED BY <1>1, <1>3, <1>4, <1>5, HandlerTypes, HandledKeeps DEF Handled

LEMMA PodNoticeTracks == ASSUME Tracked, HandlePodNotice PROVE Tracked'
<1> USE DEF Tracked
<1>1. PICK n \in notices :
          /\ n.kind = "pods"
          /\ Handled(n)
          /\ \/ enqueued' = enqueued \cup StalePendingOf(n) /\ UNCHANGED deferred
             \/ deferred' = deferred \cup StalePendingOf(n) /\ UNCHANGED enqueued
  BY DEF HandlePodNotice
<1>2. Enqueues(n) = {}
  BY <1>1 DEF Enqueues
<1>3. \A k, p : Owed(k, p) => Owed(k, p)'
  BY <1>1, <1>2 DEF Handled, Owed, Coming, Unlisted
<1>4. \A e : EventNoticed(e) => EventNoticed(e)'
  BY <1>1 DEF Handled, EventNoticed
<1>5. ASSUME NEW p \in Policies, NEW pod \in Unschedulable(pods), PodNoticed(pod),
             p \in ResolvePodToPolicy(pod, podGroups)
      PROVE  PodNoticed(pod)' \/ Coming(p)' \/ p \in deferred'
  <2>1. CASE n.new = {pod}
    <3>1. pod \in Unschedulable(n.new)
      BY <2>1 DEF Unschedulable
    <3>2. p \in StalePendingOf(n)
      BY <3>1, <1>5 DEF StalePendingOf
    <3> QED BY <3>2, <1>1 DEF Coming
  <2>2. CASE n.new # {pod}
    BY <2>2, <1>5, <1>1 DEF PodNoticed, Handled
  <2> QED BY <2>1, <2>2
<1> QED BY <1>1, <1>3, <1>4, <1>5, HandlerTypes, HandledKeeps DEF Handled

LEMMA ReturnTracks == ASSUME Tracked, DeferredFires \/ PeriodicResync PROVE Tracked'
<1> USE DEF Tracked
<1>1. enqueued \subseteq enqueued' /\ UNCHANGED <<stores, notices, worker, seen>>
  BY DEF DeferredFires, PeriodicResync, TypeOK
<1>2. \A k, p : Owed(k, p) => Owed(k, p)'
  BY <1>1 DEF Owed, Coming, Unlisted
<1>3. \A p \in deferred : p \in deferred' \/ Coming(p)'
  BY DEF DeferredFires, PeriodicResync, Coming
<1>4. \A x : (PodNoticed(x) => PodNoticed(x)') /\ (EventNoticed(x) => EventNoticed(x)')
  BY <1>1 DEF PodNoticed, EventNoticed
<1> QED BY <1>1, <1>2, <1>3, <1>4, HandlerTypes, HandledKeeps

-----------------------------------------------------------------------------
(* The worker builds                                                       *)

\* An enqueue that is taken becomes a build that has yet to list every store.
LEMMA TakeTracks == ASSUME Tracked, Take PROVE Tracked'
<1> USE DEF Tracked
<1>1. \A k \in Kinds : \A p : Owed(k, p) => Owed(k, p)'
  BY DEF Take, Owed, Coming, Unlisted, Idle
<1>2. UNCHANGED <<stores, notices, deferred, seen>>
  BY DEF Take
<1>3. TypeOK' /\ OneAtATime'
  BY BuildTypes DEF Take, OneAtATime
<1>4. GroupsTracked' /\ PoolTracked' /\ LedgerTracked'
  BY <1>1, <1>2 DEF GroupsTracked, PoolTracked, LedgerTracked, stores, Kinds
<1>5. PodsTracked'
  BY <1>1, <1>2 DEF PodsTracked, PodNoticed, stores, Kinds
<1>6. EventsTracked'
  BY <1>1, <1>2 DEF EventsTracked, PodNoticed, EventNoticed, stores, Kinds
<1> QED BY <1>3, <1>4, <1>5, <1>6

\* Listing one store leaves what is owed for the others.
LEMMA ListedOwes ==
    ASSUME Tracked, NEW kind, NEW p, Listed(kind, p)
    PROVE  /\ \A k, q : Owed(k, q) => Owed(k, q)' \/ (k = kind /\ q = p)
           /\ \A x : (PodNoticed(x) => PodNoticed(x)') /\ (EventNoticed(x) => EventNoticed(x)')
           /\ UNCHANGED <<stores, notices, enqueued, deferred>>
           /\ OneAtATime'
BY DEF Tracked, Listed, Owed, Coming, Unlisted, Idle, OneAtATime, PodNoticed, EventNoticed

LEMMA ListPodGroupsTracks == ASSUME Tracked, NEW p \in Policies, ListPodGroups(p), TypeOK'
                             PROVE  Tracked'
<1>1. \A k, q : Owed(k, q) => Owed(k, q)' \/ (k = "podGroups" /\ q = p)
  BY ListedOwes DEF ListPodGroups
<1>2. /\ \A x : (PodNoticed(x) => PodNoticed(x)') /\ (EventNoticed(x) => EventNoticed(x)')
      /\ UNCHANGED <<stores, deferred>> /\ OneAtATime'
  BY ListedOwes DEF ListPodGroups
<1>3. /\ seen'[p].podGroups = podGroups
      /\ \A q \in Policies : /\ q # p => seen'[q].podGroups = seen[q].podGroups
                             /\ seen'[q].pods = seen[q].pods
                             /\ seen'[q].nodes = seen[q].nodes
                             /\ seen'[q].queues = seen[q].queues
                             /\ seen'[q].events = seen[q].events
  BY DEF ListPodGroups, Tracked, TypeOK, ListType
<1> QED BY <1>1, <1>2, <1>3
        DEF Tracked, GroupsTracked, PoolTracked, LedgerTracked, PodsTracked,
            EventsTracked, stores

LEMMA ListPodsTracks == ASSUME Tracked, NEW p \in Policies, ListPods(p), TypeOK'
                        PROVE  Tracked'
<1>1. \A k, q : Owed(k, q) => Owed(k, q)' \/ (k = "pods" /\ q = p)
  BY ListedOwes DEF ListPods
<1>2. /\ \A x : (PodNoticed(x) => PodNoticed(x)') /\ (EventNoticed(x) => EventNoticed(x)')
      /\ UNCHANGED <<stores, deferred>> /\ OneAtATime'
  BY ListedOwes DEF ListPods
<1>3. /\ seen'[p].pods = pods
      /\ \A q \in Policies : /\ q # p => seen'[q].pods = seen[q].pods
                             /\ seen'[q].podGroups = seen[q].podGroups
                             /\ seen'[q].nodes = seen[q].nodes
                             /\ seen'[q].queues = seen[q].queues
                             /\ seen'[q].events = seen[q].events
  BY DEF ListPods, Tracked, TypeOK, ListType
<1> QED BY <1>1, <1>2, <1>3
        DEF Tracked, GroupsTracked, PoolTracked, LedgerTracked, PodsTracked,
            EventsTracked, stores, Unschedulable

LEMMA ListNodesTracks == ASSUME Tracked, NEW p \in Policies, ListNodes(p), TypeOK'
                         PROVE  Tracked'
<1>1. \A k, q : Owed(k, q) => Owed(k, q)' \/ (k = "nodes" /\ q = p)
  BY ListedOwes DEF ListNodes
<1>2. /\ \A x : (PodNoticed(x) => PodNoticed(x)') /\ (EventNoticed(x) => EventNoticed(x)')
      /\ UNCHANGED <<stores, deferred>> /\ OneAtATime'
  BY ListedOwes DEF ListNodes
<1>3. /\ seen'[p].nodes = nodes
      /\ \A q \in Policies : /\ q # p => seen'[q].nodes = seen[q].nodes
                             /\ seen'[q].podGroups = seen[q].podGroups
                             /\ seen'[q].pods = seen[q].pods
                             /\ seen'[q].queues = seen[q].queues
                             /\ seen'[q].events = seen[q].events
  BY DEF ListNodes, Tracked, TypeOK, ListType
<1> QED BY <1>1, <1>2, <1>3
        DEF Tracked, GroupsTracked, PoolTracked, LedgerTracked, PodsTracked,
            EventsTracked, stores

LEMMA GetQueueTracks == ASSUME Tracked, NEW p \in Policies, GetQueue(p), TypeOK'
                        PROVE  Tracked'
<1>1. \A k, q : Owed(k, q) => Owed(k, q)' \/ (k = "queues" /\ q = p)
  BY ListedOwes DEF GetQueue
<1>2. /\ \A x : (PodNoticed(x) => PodNoticed(x)') /\ (EventNoticed(x) => EventNoticed(x)')
      /\ UNCHANGED <<stores, deferred>> /\ OneAtATime'
  BY ListedOwes DEF GetQueue
<1>3. /\ seen'[p].queues = queues
      /\ \A q \in Policies : /\ q # p => seen'[q].queues = seen[q].queues
                             /\ seen'[q].podGroups = seen[q].podGroups
                             /\ seen'[q].pods = seen[q].pods
                             /\ seen'[q].nodes = seen[q].nodes
                             /\ seen'[q].events = seen[q].events
  BY DEF GetQueue, Tracked, TypeOK, ListType
<1> QED BY <1>1, <1>2, <1>3
        DEF Tracked, GroupsTracked, PoolTracked, LedgerTracked, PodsTracked,
            EventsTracked, stores

LEMMA ListEventsTracks == ASSUME Tracked, NEW p \in Policies, ListEvents(p), TypeOK'
                          PROVE  Tracked'
<1>1. \A k, q : Owed(k, q) => Owed(k, q)' \/ (k = "events" /\ q = p)
  BY ListedOwes DEF ListEvents
<1>2. /\ \A x : (PodNoticed(x) => PodNoticed(x)') /\ (EventNoticed(x) => EventNoticed(x)')
      /\ UNCHANGED <<stores, deferred>> /\ OneAtATime'
  BY ListedOwes DEF ListEvents
<1>3. /\ seen'[p].events = events
      /\ \A q \in Policies : /\ q # p => seen'[q].events = seen[q].events
                             /\ seen'[q].podGroups = seen[q].podGroups
                             /\ seen'[q].pods = seen[q].pods
                             /\ seen'[q].nodes = seen[q].nodes
                             /\ seen'[q].queues = seen[q].queues
  BY DEF ListEvents, Tracked, TypeOK, ListType
<1> QED BY <1>1, <1>2, <1>3
        DEF Tracked, GroupsTracked, PoolTracked, LedgerTracked, PodsTracked,
            EventsTracked, stores

LEMMA BuildTracks == ASSUME Tracked, Build PROVE Tracked'
BY BuildTypes, ListPodGroupsTracks, ListPodsTracks, ListNodesTracks, GetQueueTracks,
   ListEventsTracks DEF Build, Tracked, TypeOK

-----------------------------------------------------------------------------
(* The inductive invariant and what follows from it                        *)

LEMMA InitTracked == ASSUME Init, TypeOK PROVE Tracked
<1>1. OneAtATime
  BY DEF Init, Idle, OneAtATime
<1>2. \A p \in Policies : /\ seen[p].podGroups = {} /\ seen[p].nodes = {}
                          /\ seen[p].queues = {}
  BY DEF Init, NothingListed
<1>3. \A n \in Listings, p \in Policies : p \in Enqueues(n) => Coming(p)
  BY DEF Init, Coming
<1>4. ASSUME NEW p \in Policies, NEW g \in podGroups, g.queue = Registry[p].queue
      PROVE  Coming(p)
  <2> DEFINE n == [kind |-> "podGroups", old |-> {}, new |-> {g}, version |-> 0]
  <2>1. n \in Listings
    BY DEF Listings, Listing
  <2>2. p \in Enqueues(n)
    BY <1>4, EnqueuesNames
  <2> QED BY <2>1, <2>2, <1>3
<1>5. ASSUME NEW p \in Policies, NEW m \in nodes, m.group = Registry[p].overflow
      PROVE  Coming(p)
  <2> DEFINE n == [kind |-> "nodes", old |-> {}, new |-> {m}, version |-> 0]
  <2>1. n \in Listings
    BY DEF Listings, Listing
  <2>2. p \in Enqueues(n)
    BY <1>5, EnqueuesNames
  <2> QED BY <2>1, <2>2, <1>3
<1>6. ASSUME NEW p \in Policies, NEW q \in queues, q.name = Registry[p].queue
      PROVE  Coming(p)
  <2> DEFINE n == [kind |-> "queues", old |-> {}, new |-> {q}, version |-> 0]
  <2>1. n \in Listings
    BY DEF Listings, Listing
  <2>2. p \in Enqueues(n)
    BY <1>6, EnqueuesNames
  <2> QED BY <2>1, <2>2, <1>3
<1>7. GroupsTracked
  BY <1>2, <1>4 DEF GroupsTracked, Owed, PolicyPodGroups
<1>8. PoolTracked
  BY <1>2, <1>5 DEF PoolTracked, Owed, PoolNodes
<1>9. LedgerTracked
  BY <1>2, <1>6 DEF LedgerTracked, Owed, LedgerOf
<1>10. PodsTracked /\ EventsTracked
  BY <1>4 DEF PodsTracked, EventsTracked, Owed, ResolvePodToPolicy
<1> QED BY <1>1, <1>7, <1>8, <1>9, <1>10 DEF Tracked

LEMMA StutterTracks == ASSUME Tracked, UNCHANGED vars PROVE Tracked'
<1>1. TypeOK'
  BY DEF Tracked, TypeOK, vars
<1>2. \A k, p : Owed(k, p) => Owed(k, p)'
  BY DEF Owed, Coming, Unlisted, vars
<1>3. \A x : (PodNoticed(x) => PodNoticed(x)') /\ (EventNoticed(x) => EventNoticed(x)')
  BY DEF PodNoticed, EventNoticed, vars
<1>4. UNCHANGED <<stores, deferred, worker, seen>>
  BY DEF vars, stores
<1> QED BY <1>1, <1>2, <1>3, <1>4, HandledKeeps

LEMMA AlwaysTracked == Spec => []Tracked
<1>1. Init /\ TypeOK => Tracked
  BY InitTracked
<1>2. Tracked /\ [Next]_vars => Tracked'
  <2> SUFFICES ASSUME Tracked, [Next]_vars PROVE Tracked'
    OBVIOUS
  <2>1. CASE UNCHANGED vars
    BY <2>1, StutterTracks
  <2>2. CASE ObjectChanges
    BY <2>2, PodGroupTracks, PodTracks, NodeTracks, QueueTracks, EventTracks
       DEF ObjectChanges
  <2> QED BY <2>1, <2>2, NoticeTracks, EventNoticeTracks, PodNoticeTracks, ReturnTracks,
             TakeTracks, BuildTracks DEF Next
<1> QED BY <1>1, <1>2, TypeCorrect, PTL DEF Spec

\* No pod changes pools behind the controller's back.
THEOREM OverflowAlwaysKnown == Spec => []OverflowKnown
<1>1. Tracked => OverflowKnown
  <2> SUFFICES ASSUME Tracked, NEW p \in Policies, p \notin worker.policy, ~ Coming(p),
                      NEW pod \in pods \cap seen[p].pods
               PROVE  pod \in OverflowNow(p) <=> pod \in OverflowSeen(p)
    BY DEF OverflowKnown
  <2>1. /\ PolicyPodGroups(p, podGroups) = PolicyPodGroups(p, seen[p].podGroups)
        /\ PoolNodes(Registry[p].overflow, nodes) =
               PoolNodes(Registry[p].overflow, seen[p].nodes)
    BY DEF Tracked, GroupsTracked, PoolTracked, Owed, Unlisted
  <2> QED BY <2>1 DEF OverflowNow, OverflowSeen, OverflowPods, PodsOnNodes, PolicyPods
<1> QED BY <1>1, AlwaysTracked, PTL

\* The ledger that the last build read is current, or a build is coming.
THEOREM LedgerAlwaysKnown == Spec => []LedgerKnown
<1>1. Tracked => LedgerKnown
  BY DEF Tracked, LedgerTracked, LedgerKnown, Owed, Unlisted
<1> QED BY <1>1, AlwaysTracked, PTL

-----------------------------------------------------------------------------
(* Attribution by name is attribution by owner when names are unique.      *)

OneNamespace == \A a, b \in Namespaces : a = b

\* With one namespace, the builder counts only pods that the handlers would
\* attribute to the policy too.
THEOREM OwnPodsOnly == ASSUME OneNamespace PROVE Spec => []OnlyOwnPods
<1>1. TypeOK => OnlyOwnPods
  BY OneNamespace DEF TypeOK, OnlyOwnPods, PolicyPods, PolicyPodGroups, ResolvePodToPolicy,
         PodGroupType, PodType, OneNamespace
<1> QED BY <1>1, TypeCorrect, PTL

\* With one namespace, no unschedulable pod of a policy goes unnoticed, and no
\* autoscaler event about one.
THEOREM StuckAlwaysKnown == ASSUME OneNamespace PROVE Spec => []StuckKnown
<1>1. Tracked /\ OnlyOwnPods => StuckKnown
  <2> SUFFICES ASSUME Tracked, OnlyOwnPods, NEW p \in Policies, p \notin worker.policy,
                      ~ ComingForStuck(p), NEW pod \in StuckPods(p, podGroups, pods)
               PROVE  /\ pod \in StuckPods(p, seen[p].podGroups, seen[p].pods)
                      /\ AutoscalerExhausted({pod}, events) =>
                             AutoscalerExhausted({pod}, seen[p].events)
    BY DEF StuckKnown
  <2>1. /\ pod \in Unschedulable(pods) /\ pod \in PolicyPods(p, podGroups, pods)
        /\ p \in ResolvePodToPolicy(pod, podGroups)
    BY DEF StuckPods, Unschedulable, OnlyOwnPods, PolicyPods
  <2>2. ~ Coming(p) /\ p \notin deferred
    BY DEF ComingForStuck
  <2>3. ~ PodNoticed(pod)
    <3> SUFFICES ASSUME NEW n \in notices, n.kind = "pods", n.new = {pod} PROVE FALSE
      BY DEF PodNoticed
    <3>1. pod \in Unschedulable(n.new)
      BY <2>1 DEF Unschedulable
    <3>2. p \in StalePendingOf(n)
      BY <2>1, <3>1 DEF StalePendingOf
    <3> QED BY <3>2 DEF ComingForStuck
  <2>4. pod \in seen[p].pods
    BY <2>1, <2>2, <2>3 DEF Tracked, PodsTracked, Owed, Unlisted
  <2>5. PolicyPodGroups(p, podGroups) = PolicyPodGroups(p, seen[p].podGroups)
    BY <2>2 DEF Tracked, GroupsTracked, Owed, Unlisted
  <2>6. pod \in StuckPods(p, seen[p].podGroups, seen[p].pods)
    BY <2>1, <2>4, <2>5 DEF StuckPods, PolicyPods, Unschedulable
  <2>7. ASSUME NEW e \in events, e.pod = pod.name PROVE e \in seen[p].events
    <3>1. e.ns = pod.ns
      BY OneNamespace, <2>1
         DEF Tracked, TypeOK, EventType, PodType, OneNamespace, Unschedulable
    <3>2. ~ EventNoticed(e)
      <4> SUFFICES ASSUME NEW n \in notices, n.kind = "events", n.old = {}, n.new = {e}
                   PROVE FALSE
        BY DEF EventNoticed
      <4>1. pod \in {q \in pods : \E f \in n.new : f.ns = q.ns /\ f.pod = q.name}
        BY <3>1, <2>7, <2>1 DEF Unschedulable
      <4>2. p \in EventEnqueues(n)
        BY <4>1, <2>1 DEF EventEnqueues
      <4> QED BY <4>2 DEF ComingForStuck
    <3> QED BY <3>1, <3>2, <2>1, <2>2, <2>3, <2>7 DEF Tracked, EventsTracked, Owed, Unlisted
  <2> QED BY <2>6, <2>7 DEF AutoscalerExhausted
<1> QED BY <1>1, AlwaysTracked, OwnPodsOnly, PTL

-----------------------------------------------------------------------------
(* What a silent step may do                                               *)

\* A policy's overflow pods depend on its PodGroups, the pods, and the nodes
\* of its overflow pool.
LEMMA SameOverflow ==
    ASSUME NEW p \in Policies,
           PolicyPodGroups(p, podGroups') = PolicyPodGroups(p, podGroups),
           PoolNodes(Registry[p].overflow, nodes') = PoolNodes(Registry[p].overflow, nodes),
           pods' = pods
    PROVE  UNCHANGED OverflowNow(p)
BY DEF OverflowNow, OverflowPods, PolicyPods

\* A change of PodGroups that touches a policy's own enqueues the policy.
LEMMA PodGroupSilence ==
    ASSUME TypeOK, PodGroupAdded \/ PodGroupUpdated \/ PodGroupDeleted,
           NEW p \in Policies, ~ Coming(p)'
    PROVE  UNCHANGED OverflowNow(p)
<1>1. PICK old, new : old \subseteq podGroups /\ PodGroupChanges(old, new)
  BY DEF PodGroupAdded, PodGroupUpdated, PodGroupDeleted
<1> DEFINE n == [kind |-> "podGroups", old |-> old, new |-> new, version |-> changes + 1]
<1>2. p \notin Enqueues(n) /\ pods' = pods /\ nodes' = nodes
  BY <1>1, NotifyOwes DEF PodGroupChanges
<1>3. ASSUME NEW g, g.queue = Registry[p].queue PROVE (g \in podGroups) = (g \in podGroups')
  <2> SUFFICES ASSUME (g \in podGroups) # (g \in podGroups') PROVE FALSE
    OBVIOUS
  <2>1. g \in old \cup new /\ old # new
    BY <1>1 DEF PodGroupChanges
  <2> QED BY <2>1, <1>2, <1>3, EnqueuesNames
<1>4. PolicyPodGroups(p, podGroups') = PolicyPodGroups(p, podGroups)
  BY <1>3 DEF PolicyPodGroups
<1> QED BY <1>2, <1>4, SameOverflow

\* So does a change of the nodes of its overflow pool.
LEMMA NodeSilence ==
    ASSUME TypeOK, NodeAdded \/ NodeUpdated \/ NodeDeleted,
           NEW p \in Policies, ~ Coming(p)'
    PROVE  UNCHANGED OverflowNow(p)
<1>1. PICK old, new : old \subseteq nodes /\ NodeChanges(old, new)
  BY DEF NodeAdded, NodeUpdated, NodeDeleted
<1> DEFINE n == [kind |-> "nodes", old |-> old, new |-> new, version |-> changes + 1]
<1>2. p \notin Enqueues(n) /\ pods' = pods /\ podGroups' = podGroups
  BY <1>1, NotifyOwes DEF NodeChanges
<1>3. ASSUME NEW m, m.group = Registry[p].overflow PROVE (m \in nodes) = (m \in nodes')
  <2> SUFFICES ASSUME (m \in nodes) # (m \in nodes') PROVE FALSE
    OBVIOUS
  <2>1. m \in old \cup new /\ old # new
    BY <1>1 DEF NodeChanges
  <2> QED BY <2>1, <1>2, <1>3, EnqueuesNames
<1>4. PoolNodes(Registry[p].overflow, nodes') = PoolNodes(Registry[p].overflow, nodes)
  BY <1>3 DEF PoolNodes
<1> QED BY <1>2, <1>4, SameOverflow

\* A change of pods is a change of the pod of one namespace and name.
LEMMA PodMoves ==
    ASSUME TypeOK, PodAdded \/ PodUpdated \/ PodDeleted, NEW p \in Policies
    PROVE  \/ UNCHANGED OverflowNow(p)
           \/ \E key \in Namespaces \X PodNames :
                 /\ ~ UNCHANGED {pod \in pods : <<pod.ns, pod.name>> = key}
                 /\ UNCHANGED {pod \in OverflowNow(p) : <<pod.ns, pod.name>> # key}
<1>1. PICK key \in Namespaces \X PodNames :
          \E old, new : /\ PodChanges(old, new)
                        /\ old \subseteq pods
                        /\ \A pod \in old \cup new : <<pod.ns, pod.name>> = key
  <2>1. CASE PodAdded
    <3>1. PICK pod \in PodType : PodChanges({}, {pod})
      BY <2>1 DEF PodAdded
    <3>2. <<pod.ns, pod.name>> \in Namespaces \X PodNames
      BY DEF PodType
    <3> QED BY <3>1, <3>2
  <2>2. CASE PodUpdated
    <3>1. PICK pod \in pods, group \in GroupNames \cup {None},
               node \in NodeNames \cup {None}, stuck \in BOOLEAN :
              PodChanges({pod}, {[pod EXCEPT !.group = group, !.node = node, !.stuck = stuck]})
      BY <2>2 DEF PodUpdated
    <3> DEFINE after == [pod EXCEPT !.group = group, !.node = node, !.stuck = stuck]
    <3>2. pod \in PodType
      BY DEF TypeOK
    <3>3. <<pod.ns, pod.name>> \in Namespaces \X PodNames
      BY <3>2 DEF PodType
    <3>4. after.ns = pod.ns /\ after.name = pod.name
      BY <3>2 DEF PodType
    <3>5. PodChanges({pod}, {after})
      BY <3>1
    <3> HIDE DEF after
    <3>6. /\ {pod} \subseteq pods
          /\ \A q \in {pod} \cup {after} : <<q.ns, q.name>> = <<pod.ns, pod.name>>
      BY <3>4
    <3> QED BY <3>3, <3>5, <3>6
  <2>3. CASE PodDeleted
    <3>1. PICK pod \in pods : PodChanges({pod}, {})
      BY <2>3 DEF PodDeleted
    <3>2. <<pod.ns, pod.name>> \in Namespaces \X PodNames
      BY DEF TypeOK, PodType
    <3> QED BY <3>1, <3>2
  <2> QED BY <2>1, <2>2, <2>3
<1>2. UNCHANGED <<podGroups, nodes>>
  BY <1>1 DEF PodChanges
<1>3. \A pod : <<pod.ns, pod.name>> # key => (pod \in pods' <=> pod \in pods)
  BY <1>1 DEF PodChanges
<1>4. \A pod : <<pod.ns, pod.name>> # key =>
          (pod \in OverflowNow(p)' <=> pod \in OverflowNow(p))
  BY <1>2, <1>3 DEF OverflowNow, OverflowPods, PolicyPods, PodsOnNodes
<1>5. UNCHANGED {pod \in OverflowNow(p) : <<pod.ns, pod.name>> # key}
  BY <1>4
<1>6. CASE UNCHANGED {pod \in pods : <<pod.ns, pod.name>> = key}
  <2>1. \A pod : <<pod.ns, pod.name>> = key => (pod \in pods' <=> pod \in pods)
    BY <1>6
  <2>2. pods' = pods
    BY <1>3, <2>1
  <2> QED BY <1>2, <2>2, SameOverflow
<1> QED BY <1>5, <1>6

\* The reconcile loop's picture of the workload is right, for any registry
\* and any objects: what changes a policy's overflow pods without a build on
\* its way changes one pod, which was itself touched (NodeWatch,
\* PodGroupWatch).
THEOREM SilentMoves == Spec => SilentMovesOnePod
<1> DEFINE Silent ==
        \A p \in Policies :
          \/ Coming(p)'
          \/ UNCHANGED OverflowNow(p)
          \/ \E key \in Namespaces \X PodNames :
                /\ ~ UNCHANGED {pod \in pods : <<pod.ns, pod.name>> = key}
                /\ UNCHANGED {pod \in OverflowNow(p) : <<pod.ns, pod.name>> # key}
<1>1. TypeOK /\ Next => Silent
  <2> SUFFICES ASSUME TypeOK, Next, NEW p \in Policies, ~ Coming(p)'
               PROVE  \/ UNCHANGED OverflowNow(p)
                      \/ \E key \in Namespaces \X PodNames :
                            /\ ~ UNCHANGED {pod \in pods : <<pod.ns, pod.name>> = key}
                            /\ UNCHANGED {pod \in OverflowNow(p) : <<pod.ns, pod.name>> # key}
    OBVIOUS
  <2>1. CASE PodGroupAdded \/ PodGroupUpdated \/ PodGroupDeleted
    BY <2>1, PodGroupSilence
  <2>2. CASE NodeAdded \/ NodeUpdated \/ NodeDeleted
    BY <2>2, NodeSilence
  <2>3. CASE PodAdded \/ PodUpdated \/ PodDeleted
    BY <2>3, PodMoves
  <2>4. CASE QueueAdded \/ QueueUpdated \/ QueueDeleted \/ EventAdded \/ EventExpired
    <3>1. UNCHANGED <<podGroups, pods, nodes>>
      BY <2>4 DEF QueueAdded, QueueUpdated, QueueDeleted, EventAdded, EventExpired,
         QueueChanges, EventChanges
    <3> QED BY <3>1, SameOverflow
  <2>5. CASE \/ HandleNotice \/ HandleEventNotice \/ HandlePodNotice
             \/ DeferredFires \/ PeriodicResync \/ Take
    <3>1. UNCHANGED stores
      BY <2>5 DEF HandleNotice, HandleEventNotice, HandlePodNotice, Handled, DeferredFires,
         PeriodicResync, Take
    <3> QED BY <3>1, SameOverflow DEF stores
  <2>6. CASE Build
    <3>1. UNCHANGED stores
      BY <2>6 DEF Build, ListPodGroups, ListPods, ListNodes, GetQueue, ListEvents, Listed
    <3> QED BY <3>1, SameOverflow DEF stores
  <2> QED BY <2>1, <2>2, <2>3, <2>4, <2>5, <2>6 DEF Next, ObjectChanges
<1>2. Spec => [][Silent]_vars
  BY <1>1, TypeCorrect, PTL DEF Spec
<1> QED BY <1>2 DEF SilentMovesOnePod
=============================================================================
