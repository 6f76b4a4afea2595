-------------------------- MODULE QueueSpillProofs --------------------------
(***************************************************************************)
(* Theorems about QueueSpill, for every policy, every set of hazards and   *)
(* every bound.                                                            *)
(*                                                                         *)
(* The argument has three layers.  Lemmas about the pure core (what         *)
(* Truncate loses, what Evaluate may answer) come first.  The ledger is    *)
(* well formed wherever a version of it is kept - in the API server, in    *)
(* the cache, on its way there, and in the decision the worker carries -   *)
(* and this needs no assumption on the environment.  The timing            *)
(* properties then follow for a controller whose cache has caught up when  *)
(* Build reads it.                                                         *)
(***************************************************************************)
EXTENDS QueueSpill, TLAPS

-----------------------------------------------------------------------------
(* The pure core                                                           *)

\* Persisting a timestamp loses less than one second, never adds to it, and
\* loses nothing more the second time.
LEMMA TruncateFacts ==
    \A t \in Nat : /\ Truncate(t) \in Nat
                   /\ Truncate(t) <= t
                   /\ t < Truncate(t) + Second
                   /\ Truncate(Truncate(t)) = Truncate(t)
                   /\ t >= Second => Truncate(t) >= Second
  <1> SUFFICES ASSUME NEW t \in Nat
               PROVE  /\ Truncate(t) \in Nat
                      /\ Truncate(t) <= t
                      /\ t < Truncate(t) + Second
                      /\ Truncate(Truncate(t)) = Truncate(t)
                      /\ t >= Second => Truncate(t) >= Second
    OBVIOUS
  <1>1. Truncate(t) \in Nat /\ Truncate(t) <= t /\ t < Truncate(t) + Second
    BY SecondAssumption DEF Truncate
  <1>2. Truncate(Truncate(t)) = Truncate(t)
    BY SecondAssumption DEF Truncate
  <1>3. t >= Second => Truncate(t) >= Second
    BY SecondAssumption DEF Truncate
  <1> QED
    BY <1>1, <1>2, <1>3

SnapshotType ==
    [policy : {Policy}, observedAt : Nat, exhausted : BOOLEAN, waits : SUBSET Nat,
     overflowPods : SUBSET Pods, state : State, since : Nat, hash : HashType]

\* A cooldown is a number of ticks.
LEMMA CooldownType == \A state : CooldownFor(Policy, state) \in Nat
  <1>1. /\ Policy.timeOn \in Nat /\ Policy.timeOff \in Nat
        /\ Policy.hysteresis \in Nat
    BY PolicyAssumption DEF PolicyType
  <1>2. \A a \in Nat : a \div 100 \in Nat
    OBVIOUS
  <1>3. Policy.timeOff * Policy.hysteresis \in Nat
    BY <1>1
  <1> QED
    BY <1>1, <1>2, <1>3 DEF CooldownFor

\* The affinity of a state names the policy's own node groups only.
LEMMA AffinityTypes == /\ \A state : AffinityFor(Policy, state) \in AffinityType
                       /\ NoAffinity \in AffinityType
  BY DEF AffinityFor, NoAffinity, AffinityType, Groups

\* What NextState can answer: four cases, told apart by the condition and
\* the timer.
LEMMA NextStateCases ==
    ASSUME NEW s
    PROVE  \/ ~ InstantCondition(s) /\ NextState(s) = Clear(s)
           \/ InstantCondition(s) /\ s.since = NoTime /\ NextState(s) = Arm(s)
           \/ /\ InstantCondition(s) /\ s.since # NoTime
              /\ ~ CooldownElapsed(s) /\ NextState(s) = Hold(s)
           \/ /\ InstantCondition(s) /\ s.since # NoTime
              /\ CooldownElapsed(s) /\ NextState(s) = Flip(s)
  BY DEF NextState

\* A decision names the state it leaves, enters one of the two states, and
\* carries the affinity and the hash of the state and timer it decided.
LEMMA DecisionFacts ==
    ASSUME NEW s \in SnapshotType
    PROVE  /\ Evaluate(s) \in DecisionType
           /\ Evaluate(s).from = s.state
           /\ Evaluate(s).affinity = AffinityFor(Policy, Evaluate(s).state)
           /\ Evaluate(s).hash =
                 HashDecision(Evaluate(s).state, Evaluate(s).affinity, Evaluate(s).since)
  <1> DEFINE t == NextState(s)
  <1>1. s.state \in State /\ s.since \in Nat /\ s.observedAt \in Nat /\ s.policy = Policy
    BY DEF SnapshotType
  <1>2. /\ t.state \in State /\ t.since \in Nat /\ t.fired \in BOOLEAN
    <2>1. t = Clear(s) \/ t = Arm(s) \/ t = Hold(s) \/ t = Flip(s)
      BY NextStateCases
    <2> HIDE DEF t
    <2>2. t.state \in State
      BY <1>1, <2>1 DEF Clear, Arm, Hold, Flip, FlipState, State
    <2>3. t.since \in Nat
      BY <1>1, <2>1 DEF Clear, Arm, Hold, Flip, NoTime
    <2>4. t.fired = FALSE \/ t.fired = TRUE
      BY <2>1 DEF Clear, Arm, Hold, Flip
    <2> QED
      BY <2>2, <2>3, <2>4
  <1>3. AffinityFor(Policy, t.state) \in AffinityType
    BY AffinityTypes
  <1>4. HashDecision(t.state, AffinityFor(Policy, t.state), t.since) \in HashType
    BY <1>2, <1>3, TruncateFacts DEF HashDecision, HashType
  <1> HIDE DEF t
  <1>5. Evaluate(s) =
           [from |-> s.state, state |-> t.state, since |-> t.since, fired |-> t.fired,
            affinity |-> AffinityFor(Policy, t.state),
            hash |-> HashDecision(t.state, AffinityFor(Policy, t.state), t.since)]
    BY <1>1 DEF Evaluate, t
  <1> QED
    BY <1>1, <1>2, <1>3, <1>4, <1>5 DEF DecisionType

\* What a decision can be, given the snapshot it was computed from.
LEMMA DecisionCases ==
    ASSUME NEW s \in SnapshotType
    PROVE  \/ /\ ~ InstantCondition(s)
              /\ Evaluate(s).state = s.state
              /\ Evaluate(s).since = NoTime
              /\ ~ Evaluate(s).fired
           \/ /\ InstantCondition(s)
              /\ s.since = NoTime
              /\ Evaluate(s).state = s.state
              /\ Evaluate(s).since = s.observedAt
              /\ ~ Evaluate(s).fired
           \/ /\ InstantCondition(s)
              /\ s.since # NoTime
              /\ ~ (s.observedAt >= s.since + CooldownFor(Policy, s.state))
              /\ Evaluate(s).state = s.state
              /\ Evaluate(s).since = s.since
              /\ ~ Evaluate(s).fired
           \/ /\ InstantCondition(s)
              /\ s.since # NoTime
              /\ s.observedAt >= s.since + CooldownFor(Policy, s.state)
              /\ Evaluate(s).state = FlipState(s.state)
              /\ Evaluate(s).since = s.observedAt
              /\ Evaluate(s).fired
  <1>1. /\ Evaluate(s).state = NextState(s).state
        /\ Evaluate(s).since = NextState(s).since
        /\ Evaluate(s).fired = NextState(s).fired
    BY DEF Evaluate
  <1>2. s.policy = Policy
    BY DEF SnapshotType
  <1>3. CooldownElapsed(s) <=> s.observedAt >= s.since + CooldownFor(Policy, s.state)
    BY <1>2 DEF CooldownElapsed
  <1>4. CASE ~ InstantCondition(s) /\ NextState(s) = Clear(s)
    BY <1>1, <1>4 DEF Clear
  <1>5. CASE InstantCondition(s) /\ s.since = NoTime /\ NextState(s) = Arm(s)
    BY <1>1, <1>5 DEF Arm
  <1>6. CASE /\ InstantCondition(s) /\ s.since # NoTime
             /\ ~ CooldownElapsed(s) /\ NextState(s) = Hold(s)
    BY <1>1, <1>3, <1>6 DEF Hold
  <1>7. CASE /\ InstantCondition(s) /\ s.since # NoTime
             /\ CooldownElapsed(s) /\ NextState(s) = Flip(s)
    BY <1>1, <1>3, <1>7 DEF Flip
  <1> QED
    BY <1>4, <1>5, <1>6, <1>7, NextStateCases

\* What a decision materializes to is a Queue.
LEMMA MaterializeTypes == \A d \in DecisionType : MaterializeQueue(d) \in QueueType
  BY TruncateFacts DEF MaterializeQueue, DecisionType, QueueType

LEMMA EmptyQueueType ==
    EmptyQueue \in QueueType /\ NoQueue \in QueueType /\ NoHash \in HashType
  BY AffinityTypes DEF EmptyQueue, NoQueue, NoHash, QueueType, HashType, NoTime

LEMMA NoDecisionType == NoDecision \in DecisionType
  BY AffinityTypes, EmptyQueueType DEF NoDecision, DecisionType, State, NoTime

\* A pod waits for a number of ticks.
LEMMA WaitType == \A since, time \in Nat : UnschedulableFor(since, time) \in Nat
  BY DEF UnschedulableFor, NoTime

\* The snapshot that Build assembles from well-typed caches.
LEMMA CurrentSnapshotFacts ==
    ASSUME TypeOK
    PROVE  /\ CurrentSnapshot \in SnapshotType
           /\ CurrentSnapshot.state = DecodeState(cache.state)
           /\ CurrentSnapshot.since = cache.since
           /\ CurrentSnapshot.hash = cache.hash
           /\ CurrentSnapshot.observedAt = now
           /\ CurrentSnapshot.overflowPods = OverflowPods(seen)
  <1>1. /\ cache.since \in Nat /\ cache.hash \in HashType /\ now \in Nat
        /\ seen.members \subseteq Pods /\ \A p \in Pods : seen.pods[p].since \in Nat
    BY DEF TypeOK, QueueType, SeenType, PodType
  <1>2. DecodeState(cache.state) \in State
    BY DEF DecodeState, State
  <1>3. Waits(seen, now) \subseteq Nat
    BY <1>1, WaitType DEF Waits
  <1>4. OverflowPods(seen) \subseteq Pods
    BY <1>1 DEF OverflowPods
  <1> QED
    BY <1>1, <1>2, <1>3, <1>4 DEF CurrentSnapshot, Snapshot, SnapshotType

-----------------------------------------------------------------------------
(* Types                                                                   *)

LEMMA NothingSeenType == NothingSeen \in SeenType /\ Absent \in PodType
  BY DEF NothingSeen, SeenType, Absent, PodType, NoTime

LEMMA TypeInit == Init => TypeOK
  <1> SUFFICES ASSUME Init PROVE TypeOK
    OBVIOUS
  <1>1. live \in QueueType /\ cache \in QueueType /\ feed \in Seq(QueueType)
    BY EmptyQueueType DEF Init
  <1>2. signal \in SignalType /\ seen \in SeenType /\ dec \in DecisionType
    BY NoDecisionType, NothingSeenType, SignalsAssumption DEF Init
  <1> QED
    BY <1>1, <1>2, StartAssumption DEF Init, TypeOK, NoTime

\* A lister call moves the worker on to the next one and touches nothing else.
LEMMA ListingFrame ==
    ASSUME Listing
    PROVE  /\ UNCHANGED <<queueVars, clock, signal, dirty, retry, now, dec, process,
                          changes, faults, history>>
           /\ \/ pc = "groups" /\ pc' = "pods"
              \/ pc = "pods" /\ pc' = "nodes"
              \/ pc = "nodes" /\ pc' = "read"
  BY DEF Listing, ListPodGroups, ListPods, ListNodes

\* The workload changes the signals, and what that enqueues, and nothing else;
\* no enqueue is lost.
LEMMA WorkloadFrame ==
    ASSUME Workload
    PROVE  /\ UNCHANGED <<queueVars, clock, retry, workerVars, process, faults, history>>
           /\ dirty => dirty'
  BY DEF Workload, AutoscalerEvent, EventExpires, PodUnschedulable, PodBinds, PodGone,
     NodesMove, PodGroupsMove, SignalChange

\* Ending a reconcile leaves the worker's variables well typed.
LEMMA EndReconcileTypes ==
    EndReconcile => /\ pc' = "idle"
                    /\ now' \in Nat
                    /\ seen' \in SeenType
                    /\ dec' \in DecisionType
  BY NoDecisionType, NothingSeenType DEF EndReconcile, NoTime

\* Storing a Queue in the API server leaves the Queue's versions well typed.
LEMMA StoreTypes ==
    ASSUME TypeOK, NEW q \in QueueType, Store(q)
    PROVE  live' \in QueueType /\ cache' \in QueueType /\ feed' \in Seq(QueueType)
  BY DEF TypeOK, Store

LEMMA SignalChangeTypes ==
    ASSUME TypeOK, NEW s \in SignalType, NEW e \in BOOLEAN, SignalChange(s, e)
    PROVE  TypeOK'
  BY DEF TypeOK, SignalChange, queueVars, workerVars, process, history

\* Abandoning a request keeps the decisions on their way well typed.
LEMMA AbandonTypes ==
    TypeOK /\ Abandon => flying' \in SUBSET DecisionType
  BY DEF TypeOK, Abandon

LEMMA TypeNext == TypeOK /\ [Next]_vars => TypeOK'
  <1> SUFFICES ASSUME TypeOK, [Next]_vars PROVE TypeOK'
    OBVIOUS
  <1>1. CASE Dequeue
    BY <1>1 DEF TypeOK, Dequeue, queueVars, process, history
  <1>2. CASE Listing
    <2>1. signal \in SignalType /\ seen \in SeenType
      BY DEF TypeOK
    <2>2. seen' \in SeenType
      <3>1. CASE ListPodGroups
        BY <2>1, <3>1 DEF ListPodGroups, SeenType, SignalType
      <3>2. CASE ListPods
        BY <2>1, <3>2, NothingSeenType DEF ListPods, SeenType, SignalType
      <3>3. CASE ListNodes
        BY <2>1, <3>3 DEF ListNodes, SeenType, SignalType
      <3> QED
        BY <1>2, <3>1, <3>2, <3>3 DEF Listing
    <2> QED
      BY <1>2, <2>2, ListingFrame DEF TypeOK, queueVars, process, history
  <1>3. CASE Decide
    <2> DEFINE s == CurrentSnapshot
               d == Evaluate(s)
    <2>1. d \in DecisionType
      BY CurrentSnapshotFacts, DecisionFacts
    <2>2. falseAt' \in Nat /\ clearLost' \in BOOLEAN
      BY <1>3 DEF TypeOK, Decide
    <2>3. /\ pc' \in {"idle", "apply"} /\ now' \in Nat
          /\ seen' \in SeenType /\ dec' \in DecisionType
      <3>1. CASE EndReconcile
        BY <3>1, EndReconcileTypes
      <3>2. CASE pc' = "apply" /\ dec' = d /\ UNCHANGED <<now, seen>>
        BY <2>1, <3>2 DEF TypeOK
      <3> QED
        BY <1>3, <3>1, <3>2 DEF Decide
    <2> QED
      BY <1>3, <2>2, <2>3 DEF TypeOK, Decide, queueVars, process
  <1>4. CASE ApplyLands
    <2>1. MaterializeQueue(dec) \in QueueType
      BY MaterializeTypes DEF TypeOK
    <2>2. live' \in QueueType /\ cache' \in QueueType /\ feed' \in Seq(QueueType)
      BY <1>4, <2>1, StoreTypes DEF ApplyLands
    <2> QED
      BY <1>4, <2>2 DEF TypeOK, ApplyLands, process
  <1>5. CASE ApplyReplies
    BY <1>5, EndReconcileTypes DEF TypeOK, ApplyReplies, queueVars, process, history
  <1>6. CASE Deliver
    BY <1>6 DEF TypeOK, Deliver, workerVars, process, history
  <1>7. CASE Resync
    BY <1>7 DEF TypeOK, Resync, queueVars, workerVars, process, history
  <1>8. CASE RetryFires
    BY <1>8 DEF TypeOK, RetryFires, queueVars, workerVars, process, history
  <1>9. CASE Workload
    <2>1. CASE AutoscalerEvent
      BY <2>1, SignalChangeTypes DEF AutoscalerEvent, TypeOK, SignalType
    <2>2. CASE EventExpires
      BY <2>2, SignalChangeTypes DEF EventExpires, TypeOK, SignalType
    <2>3. CASE PodUnschedulable
      <3> DEFINE t == Truncate(clock)
      <3>1. PICK p \in Pods :
                SignalChange([signal EXCEPT !.pods[p].since = t],
                             p \in signal.members /\ clock >= t + Policy.timePendingMax)
        BY <2>3 DEF PodUnschedulable
      <3>2. t \in Nat
        BY TruncateFacts DEF TypeOK
      <3> HIDE DEF t
      <3>3. [signal EXCEPT !.pods[p].since = t] \in SignalType
        BY <3>2 DEF TypeOK, SignalType, PodType
      <3>4. (p \in signal.members /\ clock >= t + Policy.timePendingMax) \in BOOLEAN
        OBVIOUS
      <3> QED
        BY <3>1, <3>3, <3>4, SignalChangeTypes
    <2>4. CASE PodBinds
      <3>1. PICK p \in Pods, n \in Nodes :
                SignalChange([signal EXCEPT !.pods[p] = [since |-> NoTime, node |-> n]], FALSE)
        BY <2>4 DEF PodBinds
      <3>2. [signal EXCEPT !.pods[p] = [since |-> NoTime, node |-> n]] \in SignalType
        BY DEF TypeOK, SignalType, PodType, NoTime
      <3> QED
        BY <3>1, <3>2, SignalChangeTypes
    <2>5. CASE PodGone
      <3>1. PICK p \in Pods : SignalChange([signal EXCEPT !.pods[p] = Absent], FALSE)
        BY <2>5 DEF PodGone
      <3>2. [signal EXCEPT !.pods[p] = Absent] \in SignalType
        BY NothingSeenType DEF TypeOK, SignalType
      <3> QED
        BY <3>1, <3>2, SignalChangeTypes
    <2>6. CASE NodesMove
      BY <2>6, SignalChangeTypes DEF NodesMove, TypeOK, SignalType
    <2>7. CASE PodGroupsMove
      BY <2>7, SignalChangeTypes DEF PodGroupsMove, TypeOK, SignalType
    <2> QED
      BY <1>9, <2>1, <2>2, <2>3, <2>4, <2>5, <2>6, <2>7 DEF Workload
  <1>10. CASE Tick
    BY <1>10 DEF TypeOK, Tick, queueVars, workerVars, process, history
  <1>11. CASE ApplyFails
    BY <1>11, EndReconcileTypes, AbandonTypes DEF TypeOK, ApplyFails, RecordLoss, queueVars
  <1>12. CASE Crash
    <2>1. feed' \in Seq(QueueType) /\ cache' \in QueueType
      BY <1>12 DEF TypeOK, Crash
    <2>2. clearLost' \in BOOLEAN
      BY <1>12 DEF Crash, RecordLoss
    <2>3. faults' \in Nat
      BY <1>12 DEF TypeOK, Crash
    <2> QED
      BY <1>12, <2>1, <2>2, <2>3, EndReconcileTypes, AbandonTypes DEF TypeOK, Crash
  <1>13. CASE EditAffinity
    <2>1. PICK a \in AffinityType : Store([live EXCEPT !.affinity = a])
      BY <1>13, AffinityTypes DEF EditAffinity
    <2>2. [live EXCEPT !.affinity = a] \in QueueType
      BY DEF TypeOK, QueueType
    <2> QED
      BY <1>13, <2>1, <2>2, StoreTypes DEF TypeOK, EditAffinity, workerVars, process, history
  <1>14. CASE DeleteQueue
    BY <1>14, StoreTypes, EmptyQueueType DEF TypeOK, DeleteQueue, workerVars, process, NoTime
  <1>15. CASE NopeApplies \/ ApplyForbidden
    BY <1>15, EndReconcileTypes
    DEF TypeOK, NopeApplies, ApplyForbidden, RecordLoss, queueVars, process
  <1>16. CASE LateLands
    <2>1. PICK d \in flying :
              /\ Store(IF live.exists THEN MaterializeQueue(d) ELSE live)
              /\ flying' = flying \ {d}
              /\ flippedAt' = IF live.exists /\ d.fired THEN d.since ELSE flippedAt
      BY <1>16 DEF LateLands
    <2>2. d \in DecisionType /\ d.since \in Nat
      BY DEF TypeOK, DecisionType
    <2>3. live' \in QueueType /\ cache' \in QueueType /\ feed' \in Seq(QueueType)
      BY <2>1, <2>2, MaterializeTypes, StoreTypes DEF TypeOK
    <2>4. flying' \in SUBSET DecisionType /\ flippedAt' \in Nat
      BY <2>1, <2>2 DEF TypeOK
    <2> QED
      BY <1>16, <2>3, <2>4 DEF TypeOK, LateLands, workerVars
  <1>17. CASE CreateQueue
    BY <1>17, StoreTypes, EmptyQueueType DEF TypeOK, CreateQueue, workerVars, process, history
  <1>18. CASE UNCHANGED vars
    BY <1>18 DEF TypeOK, vars
  <1> QED
    BY <1>1, <1>2, <1>3, <1>4, <1>5, <1>6, <1>7, <1>8, <1>9, <1>10, <1>11, <1>12,
       <1>13, <1>14, <1>15, <1>16, <1>17, <1>18 DEF Next, Worker, Enqueuing, Faults

\* Every variable keeps its type, whatever the environment does.
THEOREM TypeCorrect == Spec => []TypeOK
  BY TypeInit, TypeNext, PTL DEF Spec

-----------------------------------------------------------------------------
(* The ledger is well formed wherever it is kept.                          *)

\* A Queue that is not there has no hash, and one without a hash was never
\* written: it has no state and no timer.
\* One with a hash has both, and the hash is theirs; the timer is in whole
\* seconds, so decoding it and persisting it again changes nothing.
WellFormed(q) ==
    /\ HashVouches(q)
    /\ ~ q.exists => q.hash = NoHash
    /\ q.hash = NoHash => q.state = Unset /\ q.since = NoTime
    /\ q.hash # NoHash => q.state \in State
    /\ Truncate(q.since) = q.since

\* What the worker is about to apply will be well formed.
DecisionFormed ==
    pc = "apply" =>
        /\ dec.affinity = AffinityFor(Policy, dec.state)
        /\ dec.hash = HashDecision(dec.state, dec.affinity, dec.since)

\* Nor does an abandoned apply carry anything else; there is none unless the
\* hazard is on.
FlyingFormed ==
    /\ \A d \in flying :
          /\ d.affinity = AffinityFor(Policy, d.state)
          /\ d.hash = HashDecision(d.state, d.affinity, d.since)
    /\ "late" \notin Hazards => flying = {}

LedgerFormed ==
    /\ WellFormed(live)
    /\ WellFormed(cache)
    /\ \A i \in 1..Len(feed) : WellFormed(feed[i])
    /\ DecisionFormed
    /\ FlyingFormed

\* The newest version the watch has to deliver is the one in the API server.
FeedEndsLive == IF feed = <<>> THEN cache = live ELSE feed[Len(feed)] = live

\* The clock of a reconcile is a real one, and not in the future.
ClockSane ==
    /\ clock >= Second
    /\ pc # "idle" => now >= Second /\ now <= clock

LEMMA MaterializeFormed ==
    ASSUME NEW d \in DecisionType,
           d.affinity = AffinityFor(Policy, d.state),
           d.hash = HashDecision(d.state, d.affinity, d.since)
    PROVE  WellFormed(MaterializeQueue(d))
  <1> DEFINE q == MaterializeQueue(d)
  <1>1. /\ q.state = d.state /\ q.since = Truncate(d.since) /\ q.hash = d.hash
        /\ q.exists
    BY DEF MaterializeQueue
  <1>2. d.state \in State /\ d.since \in Nat
    BY DEF DecisionType
  <1>3. Truncate(q.since) = q.since
    BY <1>1, <1>2, TruncateFacts
  <1>4. q.hash = HashDecision(q.state, AffinityFor(Policy, q.state), q.since)
    BY <1>1, <1>3 DEF HashDecision
  <1>5. q.hash # NoHash
    BY <1>1, <1>2, <1>4 DEF HashDecision, NoHash, State, Steady, Spill, Unset
  <1> HIDE DEF q
  <1> QED
    BY <1>1, <1>2, <1>3, <1>4, <1>5 DEF WellFormed, HashVouches, q

LEMMA EmptyQueueFormed == WellFormed(EmptyQueue) /\ WellFormed(NoQueue)
  BY TruncateFacts, SecondAssumption
  DEF WellFormed, HashVouches, EmptyQueue, NoQueue, NoTime, Truncate

\* The affinity is not part of what the hash vouches for.
LEMMA EditFormed ==
    ASSUME NEW q \in QueueType, NEW a, WellFormed(q)
    PROVE  WellFormed([q EXCEPT !.affinity = a])
  <1>1. /\ [q EXCEPT !.affinity = a].state = q.state
        /\ [q EXCEPT !.affinity = a].since = q.since
        /\ [q EXCEPT !.affinity = a].hash = q.hash
        /\ [q EXCEPT !.affinity = a].exists = q.exists
    BY DEF QueueType
  <1> QED
    BY <1>1 DEF WellFormed, HashVouches

LEMMA StoreFormed ==
    ASSUME TypeOK, LedgerFormed, NEW q \in QueueType, WellFormed(q), Store(q)
    PROVE  /\ WellFormed(live)' /\ WellFormed(cache)'
           /\ \A i \in 1..Len(feed') : WellFormed(feed'[i])
  <1>1. live' = q /\ cache' = cache /\ (feed' = feed \/ feed' = Append(feed, q))
    BY DEF Store
  <1>2. WellFormed(live)' /\ WellFormed(cache)'
    BY <1>1 DEF LedgerFormed, WellFormed, HashVouches
  <1>3. ASSUME NEW i \in 1..Len(feed') PROVE WellFormed(feed'[i])
    <2>1. CASE feed' = feed
      BY <1>3, <2>1 DEF LedgerFormed
    <2>2. CASE feed' = Append(feed, q)
      <3>1. feed'[i] = q \/ (i \in 1..Len(feed) /\ feed'[i] = feed[i])
        BY <1>3, <2>2 DEF TypeOK
      <3> QED
        BY <3>1 DEF LedgerFormed
    <2> QED
      BY <1>1, <2>1, <2>2
  <1> QED
    BY <1>2, <1>3

LEMMA StoreFeed ==
    ASSUME TypeOK, FeedEndsLive, NEW q \in QueueType, Store(q)
    PROVE  FeedEndsLive'
  <1>1. CASE q = live
    BY <1>1 DEF Store, FeedEndsLive
  <1>2. CASE q # live
    <2>1. feed' = Append(feed, q) /\ live' = q
      BY <1>2 DEF Store
    <2>2. feed' # <<>> /\ feed'[Len(feed')] = q
      BY <2>1 DEF TypeOK
    <2> QED
      BY <2>1, <2>2 DEF FeedEndsLive
  <1> QED
    BY <1>1, <1>2

\* The inductive invariant of the ledger.
LedgerInv == TypeOK /\ LedgerFormed /\ FeedEndsLive /\ ClockSane

LEMMA LedgerInit == Init => LedgerInv
  <1> SUFFICES ASSUME Init PROVE LedgerInv
    OBVIOUS
  <1>1. live = EmptyQueue /\ cache = EmptyQueue /\ feed = <<>> /\ pc = "idle"
    BY DEF Init
  <1>2. LedgerFormed
    BY <1>1, EmptyQueueFormed DEF Init, LedgerFormed, DecisionFormed, FlyingFormed
  <1>3. FeedEndsLive /\ ClockSane
    BY <1>1, StartAssumption DEF Init, FeedEndsLive, ClockSane
  <1> QED
    BY <1>2, <1>3, TypeInit DEF LedgerInv

\* An abandoned request carries the decision that was to be applied.
LEMMA AbandonFormed ==
    ASSUME LedgerFormed, Abandon
    PROVE  FlyingFormed'
  BY DEF LedgerFormed, DecisionFormed, FlyingFormed, Abandon

\* A step that touches no version of the Queue, and does not set the worker
\* to apply, keeps the ledger formed.
LEMMA UntouchedFormed ==
    ASSUME LedgerFormed, UNCHANGED queueVars,
           pc' = "apply" => pc = "apply" /\ UNCHANGED dec,
           FlyingFormed'
    PROVE  LedgerFormed'
  BY DEF LedgerFormed, DecisionFormed, WellFormed, HashVouches, queueVars

\* No step puts a decision that is not formed on its way.
LEMMA FlyingNext ==
    ASSUME LedgerFormed, [Next]_vars
    PROVE  FlyingFormed'
  <1>1. CASE UNCHANGED flying
    BY <1>1 DEF LedgerFormed, FlyingFormed
  <1>2. CASE ApplyFails \/ Crash
    BY <1>2, AbandonFormed DEF ApplyFails, Crash
  <1>3. CASE LateLands
    BY <1>3 DEF LateLands, LedgerFormed, FlyingFormed
  <1> QED
    BY <1>1, <1>2, <1>3, ListingFrame, WorkloadFrame
    DEF Next, Worker, Dequeue, Decide, ApplyLands, ApplyForbidden, ApplyReplies, NopeApplies,
        Enqueuing, Deliver, Resync, RetryFires, Tick, Faults, EditAffinity, DeleteQueue,
        CreateQueue, process, vars

LEMMA LedgerNext == LedgerInv /\ [Next]_vars => LedgerInv'
  <1> SUFFICES ASSUME LedgerInv, [Next]_vars PROVE LedgerInv'
    OBVIOUS
  <1> USE DEF LedgerInv
  <1>1. TypeOK /\ TypeOK'
    BY TypeNext
  <1>2. LedgerFormed'
    <2>0. FlyingFormed'
      BY FlyingNext
    <2>1. CASE Decide
      <3> DEFINE s == CurrentSnapshot
                 d == Evaluate(s)
      <3>1. /\ d.affinity = AffinityFor(Policy, d.state)
            /\ d.hash = HashDecision(d.state, d.affinity, d.since)
        BY CurrentSnapshotFacts, DecisionFacts
      <3>2. UNCHANGED queueVars /\ (pc' = "apply" => dec' = d)
        BY <2>1 DEF Decide, EndReconcile
      <3> HIDE DEF d
      <3>3. DecisionFormed'
        BY <3>1, <3>2 DEF DecisionFormed
      <3> QED
        BY <2>0, <3>2, <3>3 DEF LedgerFormed, WellFormed, HashVouches, queueVars
    <2>2. CASE ApplyLands
      <3>1. dec \in DecisionType /\ pc = "apply" /\ pc' = "reply"
        BY <2>2 DEF ApplyLands, TypeOK
      <3>2. WellFormed(MaterializeQueue(dec)) /\ MaterializeQueue(dec) \in QueueType
        BY <3>1, MaterializeFormed, MaterializeTypes DEF LedgerFormed, DecisionFormed
      <3>3. /\ WellFormed(live)' /\ WellFormed(cache)'
            /\ \A i \in 1..Len(feed') : WellFormed(feed'[i])
        BY <2>2, <3>2, StoreFormed DEF ApplyLands
      <3> QED
        BY <2>0, <3>1, <3>3 DEF LedgerFormed, DecisionFormed
    <2>3. CASE Deliver
      <3>1. /\ feed # <<>> /\ cache' = Head(feed) /\ feed' = Tail(feed)
            /\ live' = live /\ pc' = pc /\ dec' = dec
        BY <2>3 DEF Deliver, workerVars
      <3>2. 1 \in 1..Len(feed) /\ cache' = feed[1]
        BY <3>1 DEF TypeOK
      <3>3. \A i \in 1..Len(feed') : i + 1 \in 1..Len(feed) /\ feed'[i] = feed[i + 1]
        BY <3>1 DEF TypeOK
      <3> QED
        BY <2>0, <3>1, <3>2, <3>3 DEF LedgerFormed, DecisionFormed, WellFormed, HashVouches
    <2>4. CASE Crash
      <3>1. cache' = live /\ live' = live /\ feed' = <<>> /\ pc' = "idle"
        BY <2>4 DEF Crash, EndReconcile
      <3> QED
        BY <2>0, <3>1 DEF LedgerFormed, DecisionFormed, WellFormed, HashVouches
    <2>5. CASE EditAffinity
      <3>1. PICK a \in AffinityType : Store([live EXCEPT !.affinity = a])
        BY <2>5, AffinityTypes DEF EditAffinity
      <3>2. [live EXCEPT !.affinity = a] \in QueueType
        BY DEF TypeOK, QueueType
      <3>3. WellFormed([live EXCEPT !.affinity = a])
        BY EditFormed DEF TypeOK, LedgerFormed
      <3>4. /\ WellFormed(live)' /\ WellFormed(cache)'
            /\ \A i \in 1..Len(feed') : WellFormed(feed'[i])
        BY <3>1, <3>2, <3>3, StoreFormed
      <3> QED
        BY <2>0, <2>5, <3>4 DEF LedgerFormed, DecisionFormed, EditAffinity, workerVars
    <2>6. CASE DeleteQueue \/ CreateQueue
      <3>1. /\ WellFormed(live)' /\ WellFormed(cache)'
            /\ \A i \in 1..Len(feed') : WellFormed(feed'[i])
        BY <2>6, EmptyQueueType, EmptyQueueFormed, StoreFormed DEF DeleteQueue, CreateQueue
      <3> QED
        BY <2>0, <2>6, <3>1
        DEF LedgerFormed, DecisionFormed, DeleteQueue, CreateQueue, workerVars
    <2>7. CASE \/ Dequeue \/ Listing \/ ApplyReplies \/ Resync \/ RetryFires \/ Workload
               \/ Tick \/ ApplyFails \/ NopeApplies \/ ApplyForbidden \/ UNCHANGED vars
      <3>1. UNCHANGED queueVars /\ (pc' = "apply" => pc = "apply" /\ UNCHANGED dec)
        BY <2>7, ListingFrame, WorkloadFrame
        DEF Dequeue, ApplyReplies, Resync, RetryFires, Tick, ApplyFails, NopeApplies,
            ApplyForbidden, EndReconcile, queueVars, workerVars, vars
      <3> QED
        BY <2>0, <3>1, UntouchedFormed
    <2>8. CASE LateLands
      <3> DEFINE stored(d) == IF live.exists THEN MaterializeQueue(d) ELSE live
      <3>1. PICK d \in flying : Store(stored(d))
        BY <2>8 DEF LateLands
      <3>2. d \in DecisionType
        BY <3>1 DEF TypeOK
      <3>3. WellFormed(stored(d)) /\ stored(d) \in QueueType
        BY <3>2, MaterializeFormed, MaterializeTypes DEF LedgerFormed, FlyingFormed, TypeOK
      <3>4. /\ WellFormed(live)' /\ WellFormed(cache)'
            /\ \A i \in 1..Len(feed') : WellFormed(feed'[i])
        BY <3>1, <3>3, StoreFormed
      <3> QED
        BY <2>0, <2>8, <3>4 DEF LedgerFormed, DecisionFormed, LateLands, workerVars
    <2> QED
      BY <2>1, <2>2, <2>3, <2>4, <2>5, <2>6, <2>7, <2>8 DEF Next, Worker, Enqueuing, Faults
  <1>3. FeedEndsLive'
    <2>1. CASE ApplyLands
      BY <1>1, <2>1, MaterializeTypes, StoreFeed DEF ApplyLands, TypeOK
    <2>2. CASE Deliver
      <3>1. CASE Len(feed) = 1
        <4>1. feed' = <<>> /\ cache' = feed[1] /\ live' = live
          BY <2>2, <3>1 DEF Deliver, TypeOK
        <4> QED
          BY <3>1, <4>1 DEF FeedEndsLive
      <3>2. CASE Len(feed) # 1
        <4>1. feed # <<>> /\ feed' = Tail(feed) /\ live' = live
          BY <2>2 DEF Deliver
        <4>2. Len(feed) \in Nat /\ Len(feed) > 1 /\ Len(feed') = Len(feed) - 1
          <5>1. feed \in Seq(QueueType) /\ Len(feed) \in Nat
            BY DEF TypeOK
          <5>2. Len(feed) # 0
            BY <4>1, <5>1
          <5>3. Len(feed') = Len(feed) - 1
            BY <4>1, <5>1
          <5> QED
            BY <3>2, <5>1, <5>2, <5>3
        <4>3. feed' # <<>>
          BY <4>2
        <4>4. feed'[Len(feed')] = feed[Len(feed)]
          BY <4>1, <4>2 DEF TypeOK
        <4> QED
          BY <4>1, <4>3, <4>4 DEF FeedEndsLive
      <3> QED
        BY <3>1, <3>2
    <2>3. CASE Crash
      BY <2>3 DEF Crash, FeedEndsLive
    <2>4. CASE EditAffinity
      <3>1. PICK a \in AffinityType : Store([live EXCEPT !.affinity = a])
        BY <2>4, AffinityTypes DEF EditAffinity
      <3>2. [live EXCEPT !.affinity = a] \in QueueType
        BY DEF TypeOK, QueueType
      <3> QED
        BY <1>1, <3>1, <3>2, StoreFeed
    <2>5. CASE DeleteQueue \/ CreateQueue
      BY <1>1, <2>5, EmptyQueueType, StoreFeed DEF DeleteQueue, CreateQueue
    <2>6. CASE LateLands
      BY <1>1, <2>6, MaterializeTypes, StoreFeed DEF LateLands, TypeOK
    <2>7. CASE UNCHANGED queueVars
      BY <2>7 DEF FeedEndsLive, queueVars
    <2> QED
      BY <2>1, <2>2, <2>3, <2>4, <2>5, <2>6, <2>7, ListingFrame, WorkloadFrame
      DEF Next, Worker, Dequeue, Decide, ApplyForbidden, ApplyReplies, NopeApplies,
          Enqueuing, Resync, RetryFires, Tick, Faults, ApplyFails, vars, queueVars
  <1>4. ClockSane'
    <2>1. CASE Dequeue
      BY <1>1, <2>1 DEF Dequeue, ClockSane, TypeOK
    <2>2. CASE Tick
      BY <1>1, <2>2, SecondAssumption DEF Tick, ClockSane, TypeOK, workerVars
    <2>3. CASE Listing \/ ApplyLands
      BY <2>3, ListingFrame DEF ApplyLands, ClockSane
    <2>4. CASE Decide
      BY <2>4 DEF Decide, EndReconcile, ClockSane
    <2>5. CASE ApplyReplies \/ NopeApplies \/ ApplyForbidden \/ ApplyFails \/ Crash
      BY <2>5 DEF ApplyReplies, NopeApplies, ApplyForbidden, ApplyFails, Crash,
         EndReconcile, ClockSane
    <2>6. CASE UNCHANGED <<clock, workerVars>>
      BY <2>6 DEF ClockSane, workerVars
    <2>7. CASE Workload
      BY <2>6, <2>7, WorkloadFrame
    <2>8. CASE \/ Enqueuing \/ LateLands \/ EditAffinity
               \/ DeleteQueue \/ CreateQueue \/ UNCHANGED vars
      BY <2>6, <2>8 DEF Enqueuing, Deliver, Resync, RetryFires, LateLands,
         EditAffinity, DeleteQueue, CreateQueue, vars, workerVars
    <2> QED
      BY <2>1, <2>2, <2>3, <2>4, <2>5, <2>7, <2>8 DEF Next, Worker, Faults
  <1> QED
    BY <1>1, <1>2, <1>3, <1>4

LEMMA LedgerInvariant == Spec => []LedgerInv
  BY LedgerInit, LedgerNext, PTL DEF Spec

\* The hash annotation never vouches for a ledger that is not there, in any
\* version of the Queue, with every hazard allowed.
THEOREM HashAlwaysVouches == Spec => []HashVouchesForLedger
  <1>1. LedgerInv => HashVouchesForLedger
    BY DEF LedgerInv, LedgerFormed, WellFormed, HashVouchesForLedger
  <1> QED
    BY <1>1, LedgerInvariant, PTL

\* Restarts are free: whatever is stale, lost or edited, only a decision that
\* changes the state or the timer of the cached Queue passes the hash gate.
THEOREM WritesAreNews == Spec => NoRedundantWrite
  <1> DEFINE News == <<dec'.state, Truncate(dec'.since)>> # <<cache.state, cache.since>>
             Move == pc = "read" /\ pc' = "apply"
             s == CurrentSnapshot
             d == Evaluate(s)
  <1>1. LedgerInv /\ [Next]_vars => [Move => News]_vars
    <2> SUFFICES ASSUME LedgerInv, Next, Move PROVE News
      OBVIOUS
    <2>1. Decide
      BY ListingFrame, WorkloadFrame
      DEF Next, Worker, Dequeue, ApplyLands, ApplyForbidden, ApplyReplies, NopeApplies,
          Enqueuing, Deliver, Resync, RetryFires, Tick, Faults, ApplyFails, Crash,
          LateLands, EditAffinity, DeleteQueue, CreateQueue, EndReconcile, workerVars
    <2>2. d.hash # cache.hash /\ dec' = d
      BY <2>1, CurrentSnapshotFacts DEF Decide, EndReconcile, LedgerInv
    <2>3. /\ d \in DecisionType
          /\ d.hash = HashDecision(d.state, AffinityFor(Policy, d.state), d.since)
      BY CurrentSnapshotFacts, DecisionFacts DEF LedgerInv
    <2> HIDE DEF d
    <2>4. d.state \in State /\ d.since \in Nat
      BY <2>3 DEF DecisionType
    <2>5. WellFormed(cache)
      BY DEF LedgerInv, LedgerFormed
    <2>6. SUFFICES ASSUME d.state = cache.state, Truncate(d.since) = cache.since
                   PROVE  FALSE
      BY <2>2
    <2>7. cache.hash # NoHash
      BY <2>4, <2>5, <2>6 DEF WellFormed, State, Steady, Spill, Unset
    <2>8. cache.hash = HashDecision(d.state, AffinityFor(Policy, d.state), cache.since)
      BY <2>5, <2>6, <2>7 DEF WellFormed, HashVouches
    <2>9. HashDecision(d.state, AffinityFor(Policy, d.state), cache.since) = d.hash
      BY <2>3, <2>5, <2>6 DEF WellFormed, HashDecision
    <2> QED
      BY <2>2, <2>8, <2>9
  <1> QED
    BY <1>1, LedgerInvariant, PTL DEF Spec, NoRedundantWrite

-----------------------------------------------------------------------------
(* Timing                                                                  *)

\* A reconcile that may turn a Spill Queue back decided on what it counted.
DrainSeen ==
    pc = "apply" =>
        /\ live.state # Unset => dec.from = DecodeState(live.state)
        /\ (dec.from = Spill /\ dec.state = Steady) => OverflowPods(seen) = {}

\* History never runs ahead of the reconcile that writes it.
HistorySane ==
    /\ flippedAt <= clock /\ falseAt <= clock
    /\ pc # "idle" => flippedAt <= now /\ falseAt <= now

\* An apply clears the timer or starts it; it never repeats an old one.
FreshTimer == pc = "apply" => dec.since \in {NoTime, now}

\* A timer that runs was started by the last flip or after it ...
TimerAfterFlip ==
    (live.since # NoTime /\ flippedAt # NoTime) => live.since + Second > flippedAt

\* ... and after the last false condition, once the apply that clears it has
\* landed.
TimerAfterFalse ==
    (/\ live.since # NoTime /\ falseAt # NoTime /\ ~ clearLost
     /\ ~ (pc = "apply" /\ dec.since = NoTime))
        => live.since + Second > falseAt

TimingInv ==
    /\ HistorySane /\ FreshTimer /\ TimerAfterFlip /\ TimerAfterFalse
    /\ MinimumDwell /\ ConditionSustained

\* The timing properties are about a controller whose cache has caught up
\* with the API server when Build reads the Queue ...
CaughtUp == "stale" \notin Hazards

\* ... and about applies that land before their sender gives up on them, or
\* never.
Punctual == "late" \notin Hazards

\* Build then reads the live Queue, and what is decided is a function of it.
LEMMA DecideOnLive ==
    ASSUME CaughtUp, LedgerInv, Decide
    PROVE  cache = live
  BY DEF CaughtUp, LedgerInv, Decide, FeedEndsLive

\* What a decision can be: the timer is cleared, started, or has run out, and
\* the last two always pass the hash gate; a timer that is merely running
\* writes nothing.
LEMMA DecideCases ==
    ASSUME CaughtUp, LedgerInv, Decide,
           NEW s, s = CurrentSnapshot, NEW d, d = Evaluate(s)
    PROVE  /\ s.state = DecodeState(live.state) /\ d.from = s.state
           /\ UNCHANGED <<queueVars, clock, flippedAt>>
           /\ \/ EndReconcile
              \/ pc' = "apply" /\ dec' = d /\ UNCHANGED <<now, seen>>
           /\ \/ /\ ~ InstantCondition(s)
                 /\ falseAt' = now /\ ~ clearLost'
                 /\ d.since = NoTime /\ d.state = d.from /\ ~ d.fired
                 /\ pc' = "apply" \/ live.since = NoTime
              \/ /\ InstantCondition(s)
                 /\ UNCHANGED <<falseAt, clearLost>>
                 /\ live.since = NoTime
                 /\ d.since = now /\ d.state = d.from /\ ~ d.fired
                 /\ pc' = "apply"
              \/ /\ InstantCondition(s)
                 /\ UNCHANGED <<falseAt, clearLost>>
                 /\ live.since # NoTime
                 /\ ~ (now >= live.since + CooldownFor(Policy, d.from))
                 /\ pc' = "idle"
              \/ /\ InstantCondition(s)
                 /\ UNCHANGED <<falseAt, clearLost>>
                 /\ live.since # NoTime
                 /\ now >= live.since + CooldownFor(Policy, d.from)
                 /\ d.since = now /\ d.state = FlipState(d.from) /\ d.fired
                 /\ pc' = "apply"
  <1>1. cache = live
    BY DecideOnLive
  <1>2. /\ s \in SnapshotType
        /\ s.state = DecodeState(live.state) /\ s.since = live.since
        /\ s.hash = live.hash /\ s.observedAt = now
    BY <1>1, CurrentSnapshotFacts DEF LedgerInv
  <1>3. /\ d \in DecisionType /\ d.from = s.state
        /\ d.hash = HashDecision(d.state, AffinityFor(Policy, d.state), d.since)
    BY <1>2, DecisionFacts
  <1>4. /\ UNCHANGED <<queueVars, clock, flippedAt>>
        /\ falseAt' = IF InstantCondition(s) THEN falseAt ELSE now
        /\ clearLost' = (clearLost /\ InstantCondition(s))
        /\ \/ d.hash = live.hash /\ EndReconcile
           \/ d.hash # live.hash /\ pc' = "apply" /\ dec' = d /\ UNCHANGED <<now, seen>>
    BY <1>2 DEF Decide
  <1>5. clearLost \in BOOLEAN /\ WellFormed(live)
    BY DEF LedgerInv, TypeOK, LedgerFormed
  <1>6. CASE /\ ~ InstantCondition(s)
             /\ d.state = s.state /\ d.since = NoTime /\ ~ d.fired
    <2>1. ASSUME d.hash = live.hash PROVE live.since = NoTime
      <3>1. live.hash.since = NoTime
        BY <1>3, <1>6, <2>1, TruncateFacts, SecondAssumption
        DEF HashDecision, Truncate, NoTime
      <3>2. CASE live.hash = NoHash
        BY <1>5, <3>2 DEF WellFormed
      <3>3. CASE live.hash # NoHash
        <4>1. live.hash.since = Truncate(live.since)
          BY <1>5, <3>3 DEF WellFormed, HashVouches, HashDecision
        <4> QED
          BY <1>5, <3>1, <4>1 DEF WellFormed
      <3> QED
        BY <3>2, <3>3
    <2>2. falseAt' = now /\ ~ clearLost'
      BY <1>4, <1>5, <1>6
    <2> QED
      BY <1>2, <1>3, <1>4, <1>6, <2>1, <2>2
  <1>7. CASE InstantCondition(s)
    <2>1. UNCHANGED <<falseAt, clearLost>>
      BY <1>4, <1>5, <1>7
    <2>2. CASE /\ s.since = NoTime
               /\ d.state = s.state /\ d.since = s.observedAt /\ ~ d.fired
      <3>1. live.hash.since = NoTime
        <4>1. CASE live.hash = NoHash
          BY <4>1 DEF NoHash
        <4>2. CASE live.hash # NoHash
          BY <1>2, <1>5, <2>2, <4>2 DEF WellFormed, HashVouches, HashDecision
        <4> QED
          BY <4>1, <4>2
      <3>2. d.hash.since # NoTime
        <4>1. now \in Nat /\ now >= Second
          BY DEF LedgerInv, TypeOK, ClockSane, Decide
        <4> QED
          BY <1>2, <1>3, <2>2, <4>1, TruncateFacts, SecondAssumption DEF HashDecision, NoTime
      <3>3. pc' = "apply"
        BY <1>4, <3>1, <3>2
      <3> QED
        BY <1>2, <1>3, <1>4, <1>7, <2>1, <2>2, <3>3
    <2>3. CASE /\ s.since # NoTime
               /\ ~ (s.observedAt >= s.since + CooldownFor(Policy, s.state))
               /\ d.state = s.state /\ d.since = s.since /\ ~ d.fired
      <3>1. live.hash # NoHash
        BY <1>2, <1>5, <2>3 DEF WellFormed
      <3>2. DecodeState(live.state) = live.state
        BY <1>5, <3>1 DEF WellFormed, DecodeState, State
      <3>3. live.hash = HashDecision(live.state, AffinityFor(Policy, live.state), live.since)
        BY <1>5, <3>1 DEF WellFormed, HashVouches
      <3>4. d.hash = live.hash
        BY <1>2, <1>3, <2>3, <3>2, <3>3
      <3>5. pc' = "idle"
        BY <1>4, <3>4 DEF EndReconcile
      <3> QED
        BY <1>2, <1>3, <1>4, <1>7, <2>1, <2>3, <3>5
    <2>4. CASE /\ s.since # NoTime
               /\ s.observedAt >= s.since + CooldownFor(Policy, s.state)
               /\ d.state = FlipState(s.state) /\ d.since = s.observedAt /\ d.fired
      <3>1. live.hash # NoHash
        BY <1>2, <1>5, <2>4 DEF WellFormed
      <3>2. live.hash.state = live.state /\ live.state = s.state
        BY <1>2, <1>5, <3>1 DEF WellFormed, HashVouches, HashDecision, DecodeState, State
      <3>3. d.hash.state # live.hash.state
        BY <1>3, <2>4, <3>2 DEF HashDecision, FlipState, Steady, Spill
      <3>4. pc' = "apply"
        BY <1>4, <3>3
      <3> QED
        BY <1>2, <1>3, <1>4, <1>7, <2>1, <2>4, <3>4
    <2> QED
      BY <1>2, <1>7, <2>2, <2>3, <2>4, DecisionCases
  <1> QED
    BY <1>2, <1>6, <1>7, DecisionCases

\* All a step can do besides Decide and ApplyLands, as far as the timing
\* properties can tell.
LEMMA OtherSteps ==
    ASSUME Punctual, TypeOK, LedgerFormed, [Next]_vars, ~ Decide, ~ ApplyLands
    PROVE  /\ \/ live'.state = live.state /\ live'.since = live.since /\ flippedAt' = flippedAt
              \/ "delete" \in Hazards /\ live' = NoQueue /\ flippedAt' = NoTime
           /\ falseAt' = falseAt
           /\ clock' = clock \/ clock' = clock + 1
           /\ \/ UNCHANGED <<workerVars, clearLost>>
              \/ pc' = "idle" /\ (RecordLoss \/ (pc = "reply" /\ clearLost' = clearLost))
              \/ pc = "idle" /\ pc' = "groups" /\ now' = clock /\ clearLost' = clearLost
              \/ /\ pc \in {"groups", "pods", "nodes"} /\ pc' \in {"pods", "nodes", "read"}
                 /\ now' = now /\ clearLost' = clearLost
  <1>1. CASE Dequeue \/ Listing
    BY <1>1, ListingFrame DEF Dequeue, queueVars, history
  <1>2. CASE ApplyReplies
    BY <1>2 DEF ApplyReplies, EndReconcile, queueVars, history
  <1>3. CASE Enqueuing
    BY <1>3 DEF Enqueuing, Deliver, Resync, RetryFires, queueVars, history
  <1>4. CASE Workload
    BY <1>4, WorkloadFrame DEF queueVars, history
  <1>5. CASE Tick
    BY <1>5 DEF Tick, queueVars, history
  <1>6. CASE ApplyFails
    BY <1>6 DEF ApplyFails, EndReconcile, queueVars
  <1>7. CASE Crash
    BY <1>7 DEF Crash, EndReconcile
  <1>8. CASE EditAffinity
    <2>1. PICK a \in AffinityType : Store([live EXCEPT !.affinity = a])
      BY <1>8, AffinityTypes DEF EditAffinity
    <2>2. live'.state = live.state /\ live'.since = live.since
      BY <2>1 DEF Store, TypeOK, QueueType
    <2> QED
      BY <1>8, <2>2 DEF EditAffinity, history
  <1>9. CASE DeleteQueue
    BY <1>9 DEF DeleteQueue, Store
  <1>10. CASE NopeApplies \/ ApplyForbidden
    BY <1>10 DEF NopeApplies, ApplyForbidden, EndReconcile, queueVars
  <1>11. CASE LateLands
    BY <1>11 DEF LateLands, Punctual, LedgerFormed, FlyingFormed
  <1>12. CASE CreateQueue
    <2>1. live.state = Unset /\ live.since = NoTime
      BY <1>12 DEF CreateQueue, LedgerFormed, WellFormed
    <2> QED
      BY <1>12, <2>1 DEF CreateQueue, Store, EmptyQueue, history
  <1>13. CASE UNCHANGED vars
    BY <1>13 DEF vars, workerVars
  <1> QED
    BY <1>1, <1>2, <1>3, <1>4, <1>5, <1>6, <1>7, <1>8, <1>9, <1>10,
       <1>11, <1>12, <1>13 DEF Next, Worker, Faults

LEMMA DrainNext ==
    ASSUME CaughtUp, Punctual, LedgerInv, DrainSeen, [Next]_vars
    PROVE  DrainSeen'
  <1>1. CASE Decide
    <2> DEFINE s == CurrentSnapshot
               d == Evaluate(s)
    <2>1. /\ s.state = DecodeState(live.state) /\ d.from = s.state /\ live' = live
          /\ EndReconcile \/ (pc' = "apply" /\ dec' = d /\ UNCHANGED <<now, seen>>)
          /\ d.state = d.from \/ InstantCondition(s) \/ pc' = "idle"
      BY <1>1, DecideCases DEF queueVars
    <2>2. s.overflowPods = OverflowPods(seen)
      BY CurrentSnapshotFacts DEF LedgerInv
    <2>3. (d.from = Spill /\ d.state = Steady /\ pc' = "apply") => OverflowPods(seen) = {}
      BY <2>1, <2>2 DEF InstantCondition, Steady, Spill
    <2> HIDE DEF s, d
    <2> QED
      BY <2>1, <2>3 DEF DrainSeen, OverflowPods, EndReconcile
  <1>2. CASE ApplyLands
    BY <1>2 DEF ApplyLands, DrainSeen
  <1>3. CASE ~ Decide /\ ~ ApplyLands
    BY <1>3, OtherSteps DEF LedgerInv, DrainSeen, OverflowPods, workerVars, EmptyQueue, NoQueue
  <1> QED
    BY <1>1, <1>2, <1>3

\* Switch-back needs a drained pool, if the cache has caught up when Build
\* reads the Queue: with applies that fail or lose their reply, crashes,
\* edits and deletions at any moment.
THEOREM SwitchbackIsDrained == ASSUME CaughtUp, Punctual PROVE Spec => []SwitchbackDrained
  <1>1. Init => DrainSeen
    BY DEF Init, DrainSeen
  <1>2. LedgerInv /\ DrainSeen /\ [Next]_vars => DrainSeen'
    BY DrainNext
  <1>3. DrainSeen => SwitchbackDrained
    BY DEF DrainSeen, SwitchbackDrained, DecodeState, Steady, Spill, Unset
  <1> QED
    BY <1>1, <1>2, <1>3, LedgerInvariant, PTL DEF Spec

LEMMA TimingInit == Init => TimingInv
  BY SecondAssumption, StartAssumption
  DEF Init, EmptyQueue, NoTime, TimingInv, HistorySane, FreshTimer, TimerAfterFlip,
      TimerAfterFalse, MinimumDwell, ConditionSustained

LEMMA TimingDecide ==
    ASSUME CaughtUp, LedgerInv, TimingInv, Decide
    PROVE  TimingInv'
  <1> DEFINE s == CurrentSnapshot
             d == Evaluate(s)
             C == CooldownFor(Policy, d.from)
  <1>1. /\ UNCHANGED <<queueVars, clock, flippedAt>>
        /\ \/ EndReconcile
           \/ pc' = "apply" /\ dec' = d /\ UNCHANGED <<now, seen>>
        /\ \/ /\ falseAt' = now /\ ~ clearLost'
              /\ d.since = NoTime /\ ~ d.fired
              /\ pc' = "apply" \/ live.since = NoTime
           \/ /\ UNCHANGED <<falseAt, clearLost>>
              /\ d.since = now /\ ~ d.fired /\ live.since = NoTime
           \/ UNCHANGED <<falseAt, clearLost>> /\ pc' = "idle"
           \/ /\ UNCHANGED <<falseAt, clearLost>>
              /\ live.since # NoTime /\ now >= live.since + C
              /\ d.since = now /\ d.fired
    BY DecideCases
  <1>2. /\ C \in Nat /\ now \in Nat /\ clock \in Nat /\ live.since \in Nat
        /\ flippedAt \in Nat /\ falseAt \in Nat /\ clearLost \in BOOLEAN
        /\ now >= Second /\ now <= clock /\ pc = "read"
    BY CooldownType DEF LedgerInv, TypeOK, QueueType, ClockSane, Decide
  <1> HIDE DEF d, C
  <1>3. HistorySane'
    BY <1>1, <1>2 DEF TimingInv, HistorySane, EndReconcile
  <1>4. FreshTimer'
    BY <1>1 DEF FreshTimer, EndReconcile
  <1>5. TimerAfterFlip'
    BY <1>1 DEF TimingInv, TimerAfterFlip, queueVars
  <1>6. TimerAfterFalse'
    <2>1. CASE falseAt' = now /\ d.since = NoTime /\ (pc' = "apply" \/ live.since = NoTime)
      BY <1>1, <2>1 DEF TimerAfterFalse, EndReconcile, queueVars
    <2>2. CASE UNCHANGED <<falseAt, clearLost>>
      BY <1>1, <1>2, <2>2 DEF TimingInv, TimerAfterFalse, queueVars
    <2> QED
      BY <1>1, <2>1, <2>2
  <1>7. MinimumDwell' /\ ConditionSustained'
    <2> SUFFICES ASSUME pc' = "apply", d.fired
                 PROVE  /\ flippedAt' # NoTime => now + Second > flippedAt' + C
                        /\ (falseAt' # NoTime /\ ~ clearLost') => now + Second > falseAt' + C
      BY <1>1 DEF MinimumDwell, ConditionSustained, EndReconcile, C
    <2>1. /\ UNCHANGED <<flippedAt, falseAt, clearLost>>
          /\ live.since # NoTime /\ now >= live.since + C
      BY <1>1
    <2>2. flippedAt # NoTime => live.since + Second > flippedAt
      BY <2>1 DEF TimingInv, TimerAfterFlip
    <2>3. (falseAt # NoTime /\ ~ clearLost) => live.since + Second > falseAt
      BY <1>2, <2>1 DEF TimingInv, TimerAfterFalse
    <2> QED
      BY <1>2, <2>1, <2>2, <2>3, SecondAssumption
  <1> QED
    BY <1>3, <1>4, <1>5, <1>6, <1>7 DEF TimingInv

LEMMA TimingApply ==
    ASSUME LedgerInv, TimingInv, ApplyLands
    PROVE  TimingInv'
  <1>1. /\ pc = "apply" /\ pc' = "reply" /\ live' = MaterializeQueue(dec)
        /\ flippedAt' = IF dec.fired THEN now ELSE flippedAt
        /\ UNCHANGED <<clock, now, falseAt, clearLost>>
    BY DEF ApplyLands, Store
  <1>2. /\ now \in Nat /\ clock \in Nat /\ flippedAt \in Nat /\ falseAt \in Nat
        /\ now >= Second /\ now <= clock /\ flippedAt <= now /\ falseAt <= now
    BY <1>1 DEF LedgerInv, TypeOK, ClockSane, TimingInv, HistorySane
  <1>3. live'.since = NoTime \/ live'.since + Second > now
    <2>1. dec.since = NoTime \/ dec.since = now
      BY <1>1 DEF TimingInv, FreshTimer
    <2>2. live'.since = Truncate(dec.since)
      BY <1>1 DEF MaterializeQueue
    <2>3. Truncate(NoTime) = NoTime
      BY SecondAssumption DEF Truncate, NoTime
    <2> QED
      BY <1>2, <2>1, <2>2, <2>3, TruncateFacts
  <1>4. live'.since \in Nat
    BY TypeNext DEF LedgerInv, Next, Worker, TypeOK, QueueType
  <1> QED
    BY <1>1, <1>2, <1>3, <1>4, SecondAssumption
    DEF TimingInv, HistorySane, FreshTimer, TimerAfterFlip, TimerAfterFalse,
        MinimumDwell, ConditionSustained

LEMMA TimingOther ==
    ASSUME Punctual, LedgerInv, TimingInv, [Next]_vars, ~ Decide, ~ ApplyLands
    PROVE  TimingInv'
  <1>0. clock \in Nat
    BY DEF LedgerInv, TypeOK
  <1>1. /\ \/ live'.state = live.state /\ live'.since = live.since /\ flippedAt' = flippedAt
           \/ live'.since = NoTime /\ flippedAt' = NoTime
        /\ falseAt' = falseAt
        /\ clock' \in Nat /\ clock' >= clock
    BY <1>0, OtherSteps DEF LedgerInv, EmptyQueue, NoQueue
  <1>2. \/ UNCHANGED <<workerVars, clearLost>>
        \/ pc' = "idle" /\ (RecordLoss \/ (pc = "reply" /\ clearLost' = clearLost))
        \/ pc = "idle" /\ pc' = "groups" /\ now' = clock /\ clearLost' = clearLost
        \/ /\ pc \in {"groups", "pods", "nodes"} /\ pc' \in {"pods", "nodes", "read"}
           /\ now' = now /\ clearLost' = clearLost
    BY OtherSteps DEF LedgerInv
  <1>3. clock \in Nat /\ now \in Nat /\ flippedAt \in Nat /\ falseAt \in Nat
    BY DEF LedgerInv, TypeOK
  <1>4. HistorySane'
    BY <1>1, <1>2, <1>3 DEF TimingInv, HistorySane, workerVars, NoTime
  <1>5. FreshTimer'
    BY <1>2 DEF TimingInv, FreshTimer, workerVars
  <1>6. TimerAfterFlip'
    BY <1>1 DEF TimingInv, TimerAfterFlip
  <1>7. TimerAfterFalse'
    <2>1. SUFFICES ASSUME live'.since # NoTime, falseAt' # NoTime, ~ clearLost',
                          ~ (pc' = "apply" /\ dec'.since = NoTime)
                   PROVE  live'.since + Second > falseAt'
      BY DEF TimerAfterFalse
    <2>2. ~ clearLost /\ ~ (pc = "apply" /\ dec.since = NoTime)
      <3>1. CASE UNCHANGED <<workerVars, clearLost>>
        BY <2>1, <3>1 DEF workerVars
      <3>2. CASE RecordLoss
        BY <2>1, <3>2 DEF RecordLoss
      <3>3. CASE pc \in {"reply", "idle", "groups", "pods", "nodes"} /\ clearLost' = clearLost
        BY <2>1, <3>3
      <3> QED
        BY <1>2, <3>1, <3>2, <3>3
    <2> QED
      BY <1>1, <2>1, <2>2 DEF TimingInv, TimerAfterFalse
  <1>8. MinimumDwell' /\ ConditionSustained'
    BY <1>1, <1>2 DEF TimingInv, MinimumDwell, ConditionSustained, workerVars
  <1> QED
    BY <1>4, <1>5, <1>6, <1>7, <1>8 DEF TimingInv

LEMMA TimingInvariant == ASSUME CaughtUp, Punctual PROVE Spec => []TimingInv
  <1>1. LedgerInv /\ TimingInv /\ [Next]_vars => TimingInv'
    BY TimingDecide, TimingApply, TimingOther
  <1> QED
    BY <1>1, TimingInit, LedgerInvariant, PTL DEF Spec

\* The cooldown survives persistence: between two applied flips lies at least
\* the cooldown of the state in between, short of one second.
THEOREM FlipsDwell == ASSUME CaughtUp, Punctual PROVE Spec => []MinimumDwell
  <1>1. TimingInv => MinimumDwell
    BY DEF TimingInv
  <1> QED
    BY <1>1, TimingInvariant, PTL

\* A false condition restarts the timer, unless the apply that clears it is
\* lost.
THEOREM FlipsAreSustained == ASSUME CaughtUp, Punctual PROVE Spec => []ConditionSustained
  <1>1. TimingInv => ConditionSustained
    BY DEF TimingInv
  <1> QED
    BY <1>1, TimingInvariant, PTL
=============================================================================
