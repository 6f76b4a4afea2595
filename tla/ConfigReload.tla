---------------------------- MODULE ConfigReload ----------------------------
(***************************************************************************)
(* Hot reload of the configuration.  The ConfigMap handler loads a new     *)
(* registry, swaps it into the store that the watch handlers read, and     *)
(* enqueues the policies of the old and the new registry; the worker       *)
(* reconciles what is queued, resolving names in the registry that the     *)
(* snapshot builder was given when the manager started.                    *)
(***************************************************************************)
EXTENDS ConfigLoad

CONSTANTS
    Documents,   \* the contents the ConfigMap may have
    FirstDoc,    \* its content when the system is first installed
    MaxEdits,    \* bound: edits of the ConfigMap
    MaxRestarts  \* bound: restarts of the controller

ASSUME DocumentsAssumption == FirstDoc \in Documents /\ LoadFile(FirstDoc) # {}
ASSUME DocumentTypesAssumption ==
    \A doc \in Documents :
        /\ Numeric(doc.defaults)
        /\ DOMAIN doc.policies \subseteq Nat
        /\ \A i \in DOMAIN doc.policies : Numeric(doc.policies[i].thresholds)
ASSUME ReloadBoundsAssumption == MaxEdits \in Nat /\ MaxRestarts \in Nat

VARIABLES
    configMap,  \* content of the ConfigMap in the API server
    mounted,    \* the content the kubelet last projected into the pod's volume
    store,      \* RegistryStore: the active registry
    resolver,   \* the registry the builder captured
    up,         \* the process runs (it exits when its first load fails)
    toEnqueue,  \* policy names the reload in progress has yet to enqueue
    dirty,      \* policies in the workqueue
    reconciling,\* the policy name and the policy the worker is reconciling
    owed,       \* history: policies a swap promised a reconcile
    edits, restarts

vars == <<configMap, mounted, store, resolver, up, toEnqueue, dirty, reconciling,
          owed, edits, restarts>>

Idle == [name |-> "", policy |-> {}]

AllNames == UNION {Names(r) : r \in UNION {Load(doc) : doc \in Documents}}

Installed(doc) == CHOOSE r \in Load(doc) : TRUE

Init ==
    /\ configMap = FirstDoc
    /\ mounted = FirstDoc
    /\ store = Installed(FirstDoc)
    /\ resolver = store
    /\ up = TRUE
    /\ toEnqueue = {}
    /\ dirty = Names(store)
    /\ reconciling = Idle
    /\ owed = {}
    /\ edits = 0
    /\ restarts = 0

-----------------------------------------------------------------------------
EditConfigMap ==
    /\ edits < MaxEdits
    /\ edits' = edits + 1
    /\ configMap' \in Documents \ {configMap}
    /\ UNCHANGED <<mounted, store, resolver, up, toEnqueue, dirty, reconciling, owed,
                   restarts>>

\* The kubelet brings the volume up to date, in its own time.
Project ==
    /\ mounted # configMap
    /\ mounted' = configMap
    /\ UNCHANGED <<configMap, store, resolver, up, toEnqueue, dirty, reconciling,
                   owed, edits, restarts>>

\* Mutants: a registry with the same policy names is taken for the same
\* registry; only the policies of the new registry are enqueued.
SwapRenamed(r) ==
    /\ store' = IF Names(r) = Names(store) THEN store ELSE r
    /\ toEnqueue' = Names(store) \cup Names(r)
    /\ owed' = owed \cup toEnqueue'
SwapForward(r) ==
    /\ store' = r
    /\ toEnqueue' = Names(r)
    /\ owed' = owed \cup Names(store) \cup Names(r)

\* The new registry replaces the old one, and the policies of both are to be
\* enqueued.
Swap(r) ==
    /\ store' = r
    /\ toEnqueue' = Names(store) \cup Names(r)
    /\ owed' = owed \cup Names(store) \cup Names(r)

\* The handler gets the ConfigMap, because it changed or because the
\* informer resyncs.  Content that does not load leaves the store alone.
Reload ==
    /\ up
    /\ toEnqueue = {}
    /\ \/ /\ Load(configMap) = {}
          /\ UNCHANGED <<store, toEnqueue, owed>>
       \/ \E r \in Load(configMap) : Swap(r)
    /\ UNCHANGED <<configMap, mounted, resolver, up, dirty, reconciling, edits, restarts>>

EnqueueUnion ==
    /\ up
    /\ \E name \in toEnqueue :
          /\ toEnqueue' = toEnqueue \ {name}
          /\ dirty' = dirty \cup {name}
    /\ UNCHANGED <<configMap, mounted, store, resolver, up, reconciling, owed, edits,
                   restarts>>

\* The periodic resync, and any watch handler, enqueue policies of the store.
EnqueueFromStore ==
    /\ up
    /\ \E name \in Names(store) : dirty' = dirty \cup {name}
    /\ UNCHANGED <<configMap, mounted, store, resolver, up, toEnqueue, reconciling,
                   owed, edits, restarts>>

\* The worker takes a policy and Build resolves its name.  An unknown policy
\* is dropped by the worker, which comes to the same as finishing at once.
Build ==
    /\ up
    /\ reconciling = Idle
    /\ \E name \in dirty :
          /\ dirty' = dirty \ {name}
          /\ reconciling' = [name |-> name, policy |-> PolicyByName(resolver, name)]
          /\ owed' = owed \ {name}
    /\ UNCHANGED <<configMap, mounted, store, resolver, up, toEnqueue, edits, restarts>>

FinishReconcile ==
    /\ up
    /\ reconciling # Idle
    /\ reconciling' = Idle
    /\ UNCHANGED <<configMap, mounted, store, resolver, up, toEnqueue, dirty, owed,
                   edits, restarts>>

\* The process starts: it loads the mounted file, or exits; the builder gets
\* the registry that is in the store when the manager starts.
Start(doc) ==
    /\ mounted' = doc
    /\ up' = (LoadFile(doc) # {})
    /\ toEnqueue' = {}
    /\ reconciling' = Idle
    /\ owed' = {}
    /\ IF up'
       THEN store' = Installed(doc) /\ resolver' = store' /\ dirty' = Names(store')
       ELSE dirty' = {} /\ UNCHANGED <<store, resolver>>
    /\ UNCHANGED <<configMap, edits>>

\* The container is restarted over the volume it has, or the pod is replaced
\* and its volume mounted anew.
Restart ==
    /\ restarts < MaxRestarts
    /\ restarts' = restarts + 1
    /\ \E doc \in {mounted, configMap} : Start(doc)

\* The kubelet keeps restarting a container that exited; before a file that
\* loads is mounted, it exits again.
RestartAfterExit ==
    /\ ~ up
    /\ LoadFile(mounted) # {}
    /\ Start(mounted)
    /\ UNCHANGED restarts

StillDown ==
    /\ ~ up /\ LoadFile(mounted) = {} /\ mounted = configMap
    /\ edits = MaxEdits
    /\ UNCHANGED vars

Next ==
    \/ EditConfigMap \/ Project \/ Reload \/ EnqueueUnion \/ EnqueueFromStore
    \/ Build \/ FinishReconcile \/ Restart \/ RestartAfterExit \/ StillDown

Spec == Init /\ [][Next]_vars

\* The informer resyncs, the handler goroutine and the worker run, and the
\* kubelet restarts what exited and projects a ConfigMap that has the key it
\* is to mount.  The workqueue is first-in first-out, so every queued name
\* gets its turn.
Fairness ==
    /\ WF_vars(Project /\ configMap.keyed)
    /\ WF_vars(Reload)
    /\ WF_vars(EnqueueUnion)
    /\ \A name \in AllNames : SF_vars(Build /\ reconciling'.name = name)
    /\ WF_vars(FinishReconcile)
    /\ WF_vars(RestartAfterExit)

FairSpec == Spec /\ Fairness

-----------------------------------------------------------------------------
\* The registry that runs is one the rest of the controller can work with:
\* positive times, two different pools, one policy per name and per queue, so
\* that a queue's events reach the policy that writes it, and a hysteresis
\* that keeps the switch-back cooldown between timeOff and twice timeOff - or
\* NaN, for which there is no such bound (see HysteresisClamped).
UsableRegistry(r) ==
    /\ r.defaults.reconcileResyncPeriod > 0
    /\ \A p \in Policies(r) :
          /\ p.timeOn > 0 /\ p.timeOff > 0 /\ p.timePendingMax > 0
          /\ p.hysteresis \in (0..100) \cup {NaN}
          /\ p.dedicatedNodeGroup # p.overflowNodeGroup
          /\ PolicyByName(r, p.name) = {p}
          /\ PolicyByQueue(r, p.queueName) = {p}

InstalledUsable == UsableRegistry(store) /\ UsableRegistry(resolver)

\* Hysteresis is clamped so that the rest of the system never has to defend
\* against out-of-range values (comment on thresholdsFromRaw).
HysteresisClamped == \A p \in Policies(store) : p.hysteresis \in 0..100

\* Fail-closed, and live: when the ConfigMap has stopped changing at a
\* content that loads, that content is what runs in the end; an invalid
\* content in between never gets in the way.  A ConfigMap without its data
\* key loads too, but only into a process that stays up: none starts from it.
StoreConverges ==
    \A doc \in Documents :
        (Load(doc) # {} /\ <>[](configMap = doc /\ (doc.keyed \/ up)))
            => <>[](up /\ store = Installed(doc))

\* Nothing between a swap and the worker forgets a policy: one that a swap
\* promised a reconcile, in the old registry or in the new one, is still to be
\* enqueued or is queued until the worker takes it, across further edits,
\* reloads - also ones that swap it out again - and failures to load.
OwedOnItsWay == owed \subseteq toEnqueue \cup dirty

\* A swap reconciles the union: every policy of the old registry and every
\* policy of the new one is taken by the worker after the swap, whatever
\* reload comes next.
UnionReconciled == \A name \in AllNames : (name \in owed) ~> (name \notin owed)

\* The resolver carries the live policy registry (comment on NewBuilder): a
\* reconcile uses the policy that is installed when its snapshot is built.
BuildUsesInstalled ==
    [][(reconciling = Idle /\ reconciling' # Idle) =>
          reconciling'.policy = PolicyByName(store, reconciling'.name)]_vars
=============================================================================
