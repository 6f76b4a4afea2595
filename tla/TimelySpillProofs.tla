------------------------- MODULE TimelySpillProofs -------------------------
(***************************************************************************)
(* The bound on the delay of a flip, for every policy, every resync period *)
(* and every number of faults.                                             *)
(*                                                                         *)
(* The bound is not inductive.  What is: where the next look at the policy *)
(* will come from.  Either one is on its way before time can pass, or the  *)
(* ticker fires soon enough - one period after the flip was asked for,     *)
(* or one period after the cooldown of a timer that runs.                  *)
(***************************************************************************)
EXTENDS TimelySpill, QueueSpillProofs

-----------------------------------------------------------------------------
(* Assumptions                                                             *)

\* Only a process that writes the timer can let it run out: the dry run
\* never flips.
Patching == Modes = {"Patch"}

-----------------------------------------------------------------------------
(* The invariant                                                           *)

TimelyTypes == nextResync \in Nat /\ wantedSince \in [Reasons -> Nat]

\* The ticker is never late, and never more than a period ahead.
TickerSane == clock <= nextResync /\ nextResync <= clock + Period

\* A reconcile takes no time.
Instantaneous == pc # "idle" => now = clock

\* The watch has nothing to deliver, or one version, and that one is news.
FeedShape ==
    \/ feed = <<>> /\ cache = live
    \/ feed = <<live>> /\ cache # live

\* A timer is never ahead of the clock.
TimerPast == live.since <= clock

\* The history variable is on exactly while a reason asks for a flip.
WantedTrue ==
    \A r \in Reasons : /\ wantedSince[r] # NoTime <=> Asks(r)
                       /\ wantedSince[r] <= clock

\* A reason asked for a flip before the present tick, and still does.
WantedBefore(r) == wantedSince[r] # NoTime /\ wantedSince[r] # clock

\* What a reconcile has listed so far shows the reason that has asked for a
\* flip all along, although each list was taken at a moment of its own.
Shows(r) ==
    /\ pc \in {"pods", "nodes", "read"} =>
          IF r[1] = "drained" THEN seen.members = signal.members
          ELSE r[2] \in seen.members
    /\ pc \in {"nodes", "read"} =>
          /\ r[1] = "event" => seen.pods[r[2]] # Absent
          /\ r[1] = "stale" =>
                StalePending(Policy.timePendingMax,
                             {UnschedulableFor(seen.pods[r[2]].since, clock)})
          /\ r[1] = "drained" => \A p \in seen.members : seen.pods[p].node \notin signal.pool
    /\ (pc = "read" /\ r[1] = "drained") => seen.pool = signal.pool

ListedSane == \A r \in Lasting : WantedBefore(r) => Shows(r)

\* What a decision in hand does to the ledger: it stops the timer, which only
\* a reconcile that saw the condition false does; it starts the timer; or it
\* flips the state.
DecisionSane ==
    pc = "apply" =>
        /\ feed = <<>>
        /\ \/ dec.since = NoTime /\ \A r \in Lasting : ~ WantedBefore(r)
           \/ /\ dec.since = now /\ live.since = NoTime
              /\ dec.state = DecodeState(live.state)
           \/ dec.since = now /\ dec.state # DecodeState(live.state)

Cooldown == CooldownFor(Policy, DecodeState(live.state))

\* A reconcile is under way, or starts before time passes.
LookComing ==
    dirty \/ retry \/ feed # <<>> \/ pc \in {"groups", "pods", "nodes", "read", "apply"}

\* The timer that runs was started, the clock stands, and the ticker will fire
\* no later than the bound allows, counted from time t.
OnTimeFrom(t) ==
    /\ live.since <= t + Period
    /\ \/ clock <= t + Period
       \/ live.since # NoTime /\ clock < live.since + Cooldown + Period
    /\ \/ LookComing
       \/ nextResync <= t + Period
       \/ live.since # NoTime /\ nextResync < live.since + Cooldown + Period

OnTime == \A r \in Lasting : wantedSince[r] # NoTime => OnTimeFrom(wantedSince[r])

TimelyInv ==
    /\ TimelyTypes /\ TickerSane /\ Instantaneous /\ FeedShape /\ TimerPast
    /\ WantedTrue /\ ListedSane /\ DecisionSane /\ OnTime
-----------------------------------------------------------------------------
(* Steps                                                                   *)

\* A step of the timely controller is a step of the controller.
LEMMA TimelyStep == [TimelyNext]_timelyVars => [Next]_vars
  BY DEF TimelyNext, TimelyTick, PeriodicResync, ExtraLook, TimelyCrash, Untimed, EndOfTime,
     Next, Enqueuing, Faults, timelyVars

\* So everything proved about the controller holds when it is timely.
THEOREM TimelyRefines == TimelySpec => Spec
  <1>1. TimelyInit => Init
    BY DEF TimelyInit
  <1> QED
    BY <1>1, TimelyStep, PTL DEF TimelySpec, Spec

LEMMA TimelyLedger == TimelySpec => []LedgerInv
  BY TimelyRefines, LedgerInvariant, PTL

LEMMA TimelyNumbers ==
    ASSUME LedgerInv
    PROVE  /\ clock \in Nat /\ now \in Nat /\ live.since \in Nat
           /\ clock >= Second /\ Second \in Nat \ {0} /\ Period \in Nat \ {0}
           /\ Cooldown \in Nat
  <1>1. Cooldown \in Nat
    BY CooldownType DEF Cooldown
  <1> QED
    BY <1>1, SecondAssumption, PeriodAssumption DEF LedgerInv, TypeOK, QueueType, ClockSane

\* A reason is of one of four kinds, and all but the first are lasting.
LEMMA ReasonKinds ==
    /\ Lasting \subseteq Reasons
    /\ \A r \in Lasting : \/ r[1] = "drained"
                         \/ (r[1] \in {"event", "stale"} /\ r[2] \in Pods)
  BY DEF Lasting, Reasons, Drained

\* The clock moves only when the ticker is not due.
LEMMA ClockSteps ==
    ASSUME LedgerInv, TimelyNext
    PROVE  \/ clock' = clock
           \/ TimelyTick /\ clock' = clock + 1 /\ nextResync > clock /\ pc = "idle"
  BY WorkloadFrame, ListingFrame
  DEF TimelyNext, TimelyTick, Tick, Rested, PeriodicResync, ExtraLook, Resync, TimelyCrash,
      Crash, Untimed, Worker, Dequeue, Decide, ApplyLands, ApplyForbidden, ApplyReplies,
      NopeApplies, Deliver, RetryFires, ApplyFails, EndOfTime, vars

\* A reason stops to ask, asks anew, or goes on.
LEMMA WantedSteps ==
    ASSUME LedgerInv, LedgerInv', TimelyTypes, WantedTrue, TimelyNext, NEW r \in Reasons
    PROVE  /\ wantedSince'[r] # NoTime <=> Asks(r)'
           /\ wantedSince'[r] \in Nat /\ wantedSince'[r] <= clock'
           /\ \/ wantedSince'[r] = NoTime
              \/ wantedSince'[r] = clock'
              \/ /\ wantedSince'[r] = wantedSince[r] /\ wantedSince[r] # NoTime
                 /\ wantedSince[r] <= clock
                 /\ Asks(r) /\ ~ AsksAnew(r)
  <1>1. /\ clock \in Nat /\ clock' \in Nat /\ clock' # NoTime /\ clock' >= clock
        /\ clock > 0 /\ NoTime = 0
    BY TimelyNumbers, ClockSteps DEF LedgerInv, TypeOK, ClockSane, NoTime
  <1>2. wantedSince'[r] =
            IF ~ Asks(r)' THEN NoTime
            ELSE IF wantedSince[r] = NoTime \/ AsksAnew(r) THEN clock' ELSE wantedSince[r]
    BY DEF TimelyNext, RecordWanted
  <1>3. (wantedSince[r] # NoTime <=> Asks(r)) /\ wantedSince[r] <= clock
    BY DEF WantedTrue
  <1>4. wantedSince[r] \in Nat
    BY DEF TimelyTypes
  <1>5. CASE ~ Asks(r)'
    BY <1>1, <1>2, <1>5
  <1>6. CASE Asks(r)' /\ (wantedSince[r] = NoTime \/ AsksAnew(r))
    BY <1>1, <1>2, <1>6
  <1>7. CASE Asks(r)' /\ wantedSince[r] # NoTime /\ ~ AsksAnew(r)
    BY <1>1, <1>2, <1>3, <1>4, <1>7
  <1> QED
    BY <1>5, <1>6, <1>7

\* While the clock stands, a reason that has asked since before has not asked
\* anew.
LEMMA StillWanted ==
    ASSUME LedgerInv, LedgerInv', TimelyTypes, WantedTrue, TimelyNext, clock' = clock,
           NEW r \in Lasting, WantedBefore(r)'
    PROVE  WantedBefore(r) /\ Asks(r) /\ ~ AsksAnew(r)
  BY WantedSteps, ReasonKinds DEF WantedBefore

-----------------------------------------------------------------------------
(* The parts of the invariant, one by one                                  *)

LEMMA TimelyInitInv == TimelyInit => TimelyInv
  <1> SUFFICES ASSUME TimelyInit PROVE TimelyInv
    OBVIOUS
  <1>1. /\ live = EmptyQueue /\ cache = EmptyQueue /\ feed = <<>> /\ clock = StartTime
        /\ pc = "idle" /\ nextResync = StartTime + Period
        /\ wantedSince = [r \in Reasons |-> IF Asks(r) THEN clock ELSE NoTime]
    BY DEF TimelyInit, Init
  <1>2. /\ StartTime \in Nat /\ StartTime > 0 /\ Period \in Nat \ {0}
    BY StartAssumption, PeriodAssumption, SecondAssumption
  <1>3. \A r \in Reasons : wantedSince[r] = IF Asks(r) THEN clock ELSE NoTime
    BY <1>1
  <1>4. TimelyTypes /\ TickerSane
    <2>1. wantedSince \in [Reasons -> Nat]
      BY <1>1, <1>2 DEF NoTime
    <2> QED
      BY <1>1, <1>2, <2>1 DEF TimelyTypes, TickerSane
  <1>5. FeedShape /\ TimerPast
    BY <1>1, <1>2 DEF FeedShape, TimerPast, EmptyQueue, NoTime
  <1>6. WantedTrue
    BY <1>1, <1>2, <1>3 DEF WantedTrue, NoTime
  <1>7. Instantaneous /\ DecisionSane
    BY <1>1 DEF Instantaneous, DecisionSane
  <1>8. ASSUME NEW r \in Lasting, wantedSince[r] # NoTime
        PROVE  ~ WantedBefore(r) /\ OnTimeFrom(wantedSince[r])
    <2>1. wantedSince[r] = clock
      BY <1>3, <1>8, ReasonKinds
    <2> QED
      BY <1>1, <1>2, <2>1 DEF WantedBefore, OnTimeFrom, EmptyQueue, NoTime
  <1>9. ListedSane /\ OnTime
    BY <1>8 DEF ListedSane, OnTime, WantedBefore
  <1> QED
    BY <1>4, <1>5, <1>6, <1>7, <1>9 DEF TimelyInv

LEMMA TickerNext ==
    ASSUME LedgerInv, TimelyTypes, TickerSane, TimelyNext
    PROVE  nextResync' \in Nat /\ TickerSane'
  <1>1. clock \in Nat /\ Period \in Nat \ {0} /\ nextResync \in Nat
    BY TimelyNumbers DEF TimelyTypes
  <1>2. \/ clock' = clock /\ nextResync' \in {nextResync, clock + Period}
        \/ clock' = clock + 1 /\ nextResync > clock /\ nextResync' = nextResync
    BY ClockSteps
    DEF TimelyNext, TimelyTick, PeriodicResync, ExtraLook, TimelyCrash, Untimed, EndOfTime
  <1> QED
    BY <1>1, <1>2 DEF TickerSane

LEMMA InstantNext ==
    ASSUME LedgerInv, Instantaneous, TimelyNext
    PROVE  Instantaneous'
  <1>1. \/ pc' = "idle"
        \/ pc = "idle" /\ now' = clock
        \/ pc' = pc /\ now' = now
        \/ pc # "idle" /\ now' = now
    BY WorkloadFrame, ListingFrame
    DEF TimelyNext, TimelyTick, Tick, PeriodicResync, ExtraLook, Resync, TimelyCrash, Crash,
        Untimed, Worker, Dequeue, Decide, ApplyLands, ApplyForbidden, ApplyReplies,
        NopeApplies, Deliver, RetryFires, ApplyFails, EndOfTime, EndReconcile, vars, workerVars
  <1>2. clock' = clock \/ pc' = "idle"
    BY ClockSteps DEF TimelyTick, Tick, workerVars
  <1> QED
    BY <1>1, <1>2 DEF Instantaneous

\* The watch has at most one version to deliver, because a decision is taken
\* and applied when it has none.
LEMMA FeedNext ==
    ASSUME LedgerInv, FeedShape, TimerPast, Instantaneous, DecisionSane, TimelyNext
    PROVE  FeedShape' /\ TimerPast'
  <1>1. CASE ApplyLands
    <2> DEFINE q == MaterializeQueue(dec)
    <2>1. /\ feed = <<>> /\ cache = live /\ dec.since \in {NoTime, now} /\ now = clock
          /\ live' = q /\ cache' = cache /\ clock' = clock
          /\ feed' = IF q = live THEN feed ELSE Append(feed, q)
      BY <1>1 DEF ApplyLands, Store, DecisionSane, FeedShape, Instantaneous
    <2>2. q.since = Truncate(dec.since)
      BY DEF MaterializeQueue
    <2>3. q.since <= clock
      <3>1. Truncate(NoTime) = NoTime
        BY SecondAssumption DEF Truncate, NoTime
      <3>2. clock \in Nat /\ Truncate(clock) <= clock /\ NoTime <= clock
        BY TruncateFacts, TimelyNumbers DEF NoTime
      <3>3. q.since \in {NoTime, Truncate(clock)}
        BY <2>1, <2>2, <3>1
      <3> QED
        BY <3>2, <3>3
    <2> HIDE DEF q
    <2>4. Append(<<>>, q) = <<q>>
      OBVIOUS
    <2> QED
      BY <2>1, <2>3, <2>4 DEF FeedShape, TimerPast
  <1>2. CASE Deliver
    <2>1. feed = <<live>>
      BY <1>2 DEF Deliver, FeedShape
    <2>2. Head(feed) = live /\ Tail(feed) = <<>>
      BY <2>1
    <2> QED
      BY <1>2, <2>2 DEF Deliver, FeedShape, TimerPast
  <1>3. CASE Crash
    BY <1>3 DEF Crash, FeedShape, TimerPast
  <1>4. CASE UNCHANGED queueVars
    <2>1. clock' >= clock /\ clock \in Nat /\ clock' \in Nat /\ live.since \in Nat
      BY ClockSteps, TimelyNumbers
    <2> QED
      BY <1>4, <2>1 DEF FeedShape, TimerPast, queueVars
  <1> QED
    BY <1>1, <1>2, <1>3, <1>4, WorkloadFrame, ListingFrame
    DEF TimelyNext, TimelyTick, Tick, PeriodicResync, ExtraLook, Resync, TimelyCrash, Untimed,
        Worker, Dequeue, Decide, ApplyForbidden, ApplyReplies, NopeApplies, RetryFires,
        ApplyFails, EndOfTime, vars, queueVars

\* In the middle of a reconcile the clock and the lists stay as they are, or
\* the next list is taken.
LEMMA ReadSteps ==
    ASSUME LedgerInv, TimelyNext, pc' \in {"pods", "nodes", "read"}
    PROVE  /\ clock' = clock
           /\ Listing \/ UNCHANGED <<pc, seen>>
  BY WorkloadFrame, ListingFrame
  DEF TimelyNext, TimelyTick, Tick, Rested, PeriodicResync, ExtraLook, Resync, TimelyCrash,
      Crash, Untimed, Worker, Dequeue, Decide, ApplyLands, ApplyForbidden, ApplyReplies,
      NopeApplies, Deliver, RetryFires, ApplyFails, EndOfTime, EndReconcile, vars, workerVars

\* A pod that a reason names is a member, and stored.
LEMMA AsksMeans ==
    ASSUME NEW r \in Lasting, Asks(r)
    PROVE  /\ r[1] = "drained" => /\ DecodeState(live.state) = Spill
                                  /\ \A p \in signal.members : signal.pods[p].node \notin signal.pool
           /\ r[1] = "event" => /\ DecodeState(live.state) = Steady
                                /\ r[2] \in signal.members /\ r[2] \in signal.events
                                /\ signal.pods[r[2]] # Absent
           /\ r[1] = "stale" => /\ DecodeState(live.state) = Steady
                                /\ r[2] \in signal.members
                                /\ StalePending(Policy.timePendingMax,
                                       {UnschedulableFor(signal.pods[r[2]].since, clock)})
  BY ReasonKinds DEF Asks, OverflowPods, NamedPods, PodNames, StalePods

LEMMA ListedNext ==
    ASSUME LedgerInv, LedgerInv', TimelyTypes, WantedTrue, ListedSane, TimelyNext
    PROVE  ListedSane'
  <1> SUFFICES ASSUME NEW r \in Lasting, WantedBefore(r)',
                      pc' \in {"pods", "nodes", "read"}
               PROVE  Shows(r)'
    BY DEF ListedSane, Shows
  <1>1. clock' = clock
    BY ReadSteps
  <1>2. WantedBefore(r) /\ Asks(r) /\ ~ AsksAnew(r)
    BY <1>1, StillWanted
  <1>3. Shows(r)
    BY <1>2 DEF ListedSane
  <1>4. r[1] \in {"drained", "event", "stale"} /\ (r[1] # "drained" => r[2] \in Pods)
    BY ReasonKinds
  <1>5. CASE ListPodGroups
    <2>1. pc' = "pods" /\ seen'.members = signal.members /\ signal' = signal
      BY <1>5 DEF ListPodGroups, LedgerInv, TypeOK, SeenType
    <2> QED
      BY <1>2, <1>4, <2>1, AsksMeans DEF Shows
  <1>6. CASE ListPods
    <2>1. /\ pc = "pods" /\ pc' = "nodes" /\ signal' = signal
          /\ seen'.members = seen.members /\ seen.members \subseteq Pods
          /\ \A p \in seen.members : seen'.pods[p] = signal.pods[p]
      BY <1>6 DEF ListPods, LedgerInv, TypeOK, SeenType
    <2> QED
      BY <1>1, <1>2, <1>3, <1>4, <2>1, AsksMeans DEF Shows
  <1>7. CASE ListNodes
    <2>1. /\ pc = "nodes" /\ pc' = "read" /\ signal' = signal
          /\ seen'.members = seen.members /\ seen'.pods = seen.pods
          /\ seen'.pool = signal.pool
      BY <1>7 DEF ListNodes, LedgerInv, TypeOK, SeenType
    <2> QED
      BY <1>1, <1>3, <1>4, <2>1 DEF Shows
  <1>8. CASE UNCHANGED <<pc, seen>>
    <2>1. r[1] = "drained" => signal'.members = signal.members /\ signal'.pool = signal.pool
      BY <1>2 DEF AsksAnew
    <2> QED
      BY <1>1, <1>3, <1>4, <1>8, <2>1 DEF Shows
  <1> QED
    BY <1>5, <1>6, <1>7, <1>8, ReadSteps DEF Listing

\* A reconcile that reads the Queue while a reason has asked for a flip since
\* before this tick sees the condition true.
LEMMA ConditionSeen ==
    ASSUME CaughtUp, LedgerInv, WantedTrue, Instantaneous, ListedSane, Decide,
           NEW r \in Lasting, WantedBefore(r)
    PROVE  InstantCondition(CurrentSnapshot)
  <1> DEFINE s == CurrentSnapshot
  <1>1. cache = live /\ pc = "read" /\ now = clock
    BY DecideOnLive DEF Decide, Instantaneous
  <1>2. /\ s.state = DecodeState(live.state) /\ s.policy = Policy
        /\ s.exhausted = (PodNames(seen) \cap signal.events # {})
        /\ s.waits = Waits(seen, clock)
        /\ s.overflowPods = OverflowPods(seen)
    BY <1>1 DEF CurrentSnapshot, Snapshot
  <1>3. Asks(r)
    BY ReasonKinds DEF WantedTrue, WantedBefore
  <1>4. Shows(r)
    BY DEF ListedSane
  <1> HIDE DEF s
  <1>5. CASE r[1] = "drained"
    <2>1. OverflowPods(seen) = {}
      BY <1>1, <1>4, <1>5 DEF Shows, OverflowPods
    <2> QED
      BY <1>2, <1>3, <1>5, <2>1, AsksMeans DEF InstantCondition, s
  <1>6. CASE r[1] = "event"
    <2>1. r[2] \in PodNames(seen) \cap signal.events /\ DecodeState(live.state) = Steady
      BY <1>1, <1>3, <1>4, <1>6, AsksMeans DEF Shows, PodNames
    <2> QED
      BY <1>2, <2>1 DEF InstantCondition, s, Steady, Spill
  <1>7. CASE r[1] = "stale"
    <2>1. DecodeState(live.state) = Steady
      BY <1>3, <1>7, AsksMeans
    <2>2. UnschedulableFor(seen.pods[r[2]].since, clock) \in Waits(seen, clock)
      BY <1>1, <1>4, <1>7 DEF Shows, Waits
    <2>3. StalePending(Policy.timePendingMax, s.waits)
      BY <1>1, <1>2, <1>4, <1>7, <2>2 DEF Shows, StalePending
    <2> QED
      BY <1>2, <2>1, <2>3 DEF InstantCondition, s, Steady, Spill
  <1> QED
    BY <1>5, <1>6, <1>7, ReasonKinds

\* What comes of a reconcile, in terms of the ledger and of the reasons that
\* have asked for a flip since before this tick.
LEMMA TimelyDecide ==
    ASSUME CaughtUp, LedgerInv, WantedTrue, Instantaneous, ListedSane, Decide
    PROVE  /\ UNCHANGED <<queueVars, clock, dirty, retry>> /\ feed = <<>> /\ now = clock
           /\ \/ /\ pc' = "apply" /\ now' = now
                 /\ \/ dec'.since = NoTime /\ \A r \in Lasting : ~ WantedBefore(r)
                    \/ /\ dec'.since = now /\ live.since = NoTime
                       /\ dec'.state = DecodeState(live.state)
                    \/ dec'.since = now /\ dec'.state # DecodeState(live.state)
              \/ /\ pc' = "idle"
                 /\ \/ \A r \in Lasting : ~ WantedBefore(r)
                    \/ live.since # NoTime /\ ~ (now >= live.since + Cooldown)
  <1> DEFINE s == CurrentSnapshot
             d == Evaluate(s)
  <1>1. /\ UNCHANGED <<queueVars, clock, dirty, retry>> /\ feed = <<>> /\ now = clock
    BY DEF Decide, Instantaneous, CaughtUp
  <1>2. InstantCondition(s) \/ \A r \in Lasting : ~ WantedBefore(r)
    BY ConditionSeen
  <1>3. /\ d.from = DecodeState(live.state)
        /\ \/ EndReconcile
           \/ pc' = "apply" /\ dec' = d /\ UNCHANGED <<now, seen>>
        /\ \/ /\ ~ InstantCondition(s)
              /\ d.since = NoTime
           \/ /\ live.since = NoTime
              /\ d.since = now /\ d.state = d.from
              /\ pc' = "apply"
           \/ /\ live.since # NoTime
              /\ ~ (now >= live.since + CooldownFor(Policy, d.from))
              /\ pc' = "idle"
           \/ /\ d.since = now /\ d.state = FlipState(d.from)
              /\ pc' = "apply"
    BY DecideCases
  <1> HIDE DEF s, d
  <1>4. EndReconcile => pc' = "idle"
    BY DEF EndReconcile
  <1>5. FlipState(d.from) # d.from
    BY DEF FlipState, Steady, Spill
  <1>6. CASE ~ InstantCondition(s) /\ d.since = NoTime
    BY <1>1, <1>2, <1>3, <1>4, <1>6
  <1>7. CASE live.since = NoTime /\ d.since = now /\ d.state = d.from /\ pc' = "apply"
    BY <1>1, <1>3, <1>4, <1>7
  <1>8. CASE /\ live.since # NoTime /\ pc' = "idle"
             /\ ~ (now >= live.since + CooldownFor(Policy, d.from))
    BY <1>1, <1>3, <1>8 DEF Cooldown
  <1>9. CASE d.since = now /\ d.state = FlipState(d.from) /\ pc' = "apply"
    BY <1>1, <1>3, <1>4, <1>5, <1>9
  <1> QED
    BY <1>3, <1>6, <1>7, <1>8, <1>9

LEMMA DecisionNext ==
    ASSUME CaughtUp, LedgerInv, LedgerInv', TimelyTypes, WantedTrue, Instantaneous,
           ListedSane, DecisionSane, TimelyNext
    PROVE  DecisionSane'
  <1> SUFFICES ASSUME pc' = "apply" PROVE DecisionSane'
    BY DEF DecisionSane
  <1>1. Decide \/ (pc = "apply" /\ UNCHANGED <<live, feed, dec, now, clock>>)
    BY WorkloadFrame, ListingFrame
    DEF TimelyNext, TimelyTick, Tick, Rested, PeriodicResync, ExtraLook, Resync, TimelyCrash,
        Crash, Untimed, Worker, Dequeue, ApplyLands, ApplyForbidden, ApplyReplies,
        NopeApplies, Deliver, RetryFires, ApplyFails, EndOfTime, EndReconcile, DecisionSane,
        vars, workerVars, queueVars
  <1>2. CASE Decide
    <2>1. \A r \in Lasting : WantedBefore(r)' => WantedBefore(r)
      BY <1>2, TimelyDecide, StillWanted
    <2> QED
      BY <1>2, <2>1, TimelyDecide DEF DecisionSane, queueVars
  <1>3. CASE pc = "apply" /\ UNCHANGED <<live, feed, dec, now, clock>>
    <2>1. \A r \in Lasting : WantedBefore(r)' => WantedBefore(r)
      BY <1>3, StillWanted
    <2> QED
      BY <1>3, <2>1 DEF DecisionSane
  <1> QED
    BY <1>1, <1>2, <1>3

\* The worker decides or writes; any other step but a tick of the clock loses
\* no look that is coming, and a ticker that moves brings one.
LEMMA LookKept ==
    ASSUME Patching, LedgerInv, FeedShape, TimelyNext, ~ TimelyTick
    PROVE  \/ ApplyLands /\ UNCHANGED nextResync
           \/ Decide /\ UNCHANGED nextResync
           \/ /\ UNCHANGED <<live, clock>>
              /\ LookComing => LookComing'
              /\ LookComing' \/ nextResync' = nextResync
  <1>1. mode = "Patch"
    BY DEF Patching, LedgerInv, TypeOK
  <1>2. CASE PeriodicResync \/ ExtraLook \/ TimelyCrash
    BY <1>2 DEF PeriodicResync, ExtraLook, Resync, TimelyCrash, Crash, LookComing, queueVars
  <1>3. CASE EndOfTime
    BY <1>3 DEF EndOfTime, vars, LookComing
  <1>4. CASE Untimed
    <2>1. CASE Dequeue \/ Listing \/ ApplyForbidden \/ ApplyReplies
      BY <1>4, <2>1, ListingFrame
      DEF Untimed, Dequeue, ApplyForbidden, ApplyReplies, EndReconcile, LookComing, queueVars
    <2>2. CASE NopeApplies
      BY <1>1, <2>2 DEF NopeApplies
    <2>3. CASE Deliver
      <3>1. Head(feed) = live /\ live # cache
        BY <2>3 DEF Deliver, FeedShape
      <3>2. dirty'
        BY <2>3, <3>1 DEF Deliver
      <3> QED
        BY <2>3, <3>2 DEF Deliver, LookComing
    <2>4. CASE RetryFires
      BY <1>4, <2>4 DEF Untimed, RetryFires, LookComing, queueVars
    <2>5. CASE ApplyFails
      BY <1>4, <2>5 DEF Untimed, ApplyFails, LookComing, queueVars
    <2>6. CASE Workload
      BY <1>4, <2>6, WorkloadFrame DEF Untimed, LookComing, queueVars, workerVars
    <2>7. CASE ApplyLands \/ Decide
      BY <1>4, <2>7 DEF Untimed
    <2> QED
      BY <1>4, <2>1, <2>2, <2>3, <2>4, <2>5, <2>6, <2>7 DEF Untimed, Worker
  <1> QED
    BY <1>2, <1>3, <1>4 DEF TimelyNext

LEMMA OnTimeNext ==
    ASSUME CaughtUp, Patching, LedgerInv, LedgerInv', TimelyInv, TimelyNext,
           TickerSane', nextResync' \in Nat, TimerPast'
    PROVE  OnTime'
  <1> SUFFICES ASSUME NEW r \in Lasting, wantedSince'[r] # NoTime
               PROVE  OnTimeFrom(wantedSince[r])'
    BY DEF OnTime
  <1> DEFINE t == wantedSince[r]
  <1>0. /\ clock' \in Nat /\ live'.since \in Nat /\ Period \in Nat \ {0}
        /\ clock \in Nat /\ live.since \in Nat /\ Cooldown \in Nat
        /\ t \in Nat /\ nextResync \in Nat
    <2>1. clock' \in Nat /\ live'.since \in Nat
      BY DEF LedgerInv, TypeOK, QueueType
    <2>2. t \in Nat /\ nextResync \in Nat
      BY ReasonKinds DEF TimelyInv, TimelyTypes
    <2>3. /\ clock \in Nat /\ live.since \in Nat /\ Cooldown \in Nat
          /\ Period \in Nat \ {0}
      BY TimelyNumbers
    <2> QED
      BY <2>1, <2>2, <2>3
  <1>1. CASE t' = clock'
    <2>1. live'.since <= clock' /\ nextResync' <= clock' + Period
      BY DEF TickerSane, TimerPast
    <2>2. \A a, b, c \in Nat : a <= b => a <= b + c
      OBVIOUS
    <2>3. live'.since <= clock' + Period /\ clock' <= clock' + Period
      <3>1. clock' <= clock' /\ Period \in Nat
        BY <1>0
      <3> QED
        BY <1>0, <2>1, <2>2, <3>1
    <2> QED
      BY <1>1, <2>1, <2>3 DEF OnTimeFrom
  <1> USE DEF TimelyInv
  <1>2. CASE /\ t' = t /\ t # NoTime
             /\ t # clock'
             /\ DecodeState(live.state)' = DecodeState(live.state)
    <2>0. OnTimeFrom(t)
      BY <1>2 DEF OnTime
    <2>1. Cooldown' = Cooldown
      BY <1>2 DEF Cooldown
    <2>2. CASE TimelyTick
      <3>1. /\ ~ LookComing /\ nextResync > clock
            /\ UNCHANGED <<live, nextResync>> /\ clock' = clock + 1
        BY <2>2 DEF TimelyTick, Rested, Tick, LookComing, queueVars
      <3>2. /\ live.since <= t + Period
            /\ \/ nextResync <= t + Period
               \/ live.since # NoTime /\ nextResync < live.since + Cooldown + Period
        BY <2>0, <3>1 DEF OnTimeFrom
      <3> QED
        BY <1>0, <1>2, <2>1, <3>1, <3>2 DEF OnTimeFrom
    <2>3. CASE ~ TimelyTick
      <3>1. clock' = clock /\ WantedBefore(r)
        BY <1>2, <2>3, ClockSteps DEF WantedBefore
      <3>2. CASE ApplyLands /\ UNCHANGED nextResync
        <4>1. /\ pc = "apply" /\ feed = <<>> /\ now = clock
              /\ live' = MaterializeQueue(dec) /\ UNCHANGED nextResync
              /\ feed' = IF MaterializeQueue(dec) = live THEN feed
                         ELSE Append(feed, MaterializeQueue(dec))
          BY <3>2 DEF ApplyLands, Store, DecisionSane, Instantaneous
        <4>2. dec.state \in State /\ live'.state = dec.state /\ live'.since = Truncate(dec.since)
          BY <4>1 DEF LedgerInv, TypeOK, DecisionType, MaterializeQueue
        <4>3. dec.state = DecodeState(live.state)
          BY <1>2, <4>2 DEF DecodeState, State
        <4>4. dec.since = clock /\ live.since = NoTime
          BY <3>1, <4>1, <4>3 DEF DecisionSane
        <4>5. live'.since # NoTime /\ live'.since <= clock
          BY <4>2, <4>4, TruncateFacts, TimelyNumbers DEF NoTime
        <4>6. feed' # <<>>
          BY <4>1, <4>4, <4>5
        <4>7. clock <= t + Period
          BY <2>0, <4>4 DEF OnTimeFrom
        <4> QED
          BY <1>0, <1>2, <3>1, <4>5, <4>6, <4>7 DEF OnTimeFrom, LookComing
      <3>3. CASE Decide /\ UNCHANGED nextResync
        <4>1. UNCHANGED <<live, nextResync>> /\ now = clock
          BY <3>3, TimelyDecide DEF queueVars
        <4>2. \/ LookComing'
              \/ live.since # NoTime /\ clock < live.since + Cooldown
          BY <1>0, <3>1, <3>3, <4>1, TimelyDecide DEF LookComing
        <4> QED
          BY <1>0, <1>2, <2>0, <2>1, <3>1, <4>1, <4>2 DEF OnTimeFrom, TickerSane
      <3>4. CASE /\ UNCHANGED <<live, clock>>
                 /\ LookComing => LookComing'
                 /\ LookComing' \/ nextResync' = nextResync
        BY <1>2, <2>0, <2>1, <3>4 DEF OnTimeFrom
      <3> QED
        BY <2>3, <3>2, <3>3, <3>4, LookKept
    <2> QED
      BY <2>2, <2>3
  <1> QED
    <2>1. r \in Reasons
      BY ReasonKinds
    <2>2. Asks(r) /\ ~ AsksAnew(r) => DecodeState(live.state)' = DecodeState(live.state)
      BY DEF AsksAnew
    <2> QED
      BY <1>1, <1>2, <2>1, <2>2, WantedSteps DEF TimelyInv

-----------------------------------------------------------------------------
(* The theorem                                                             *)

LEMMA TimelyInvNext ==
    ASSUME CaughtUp, Patching
    PROVE  LedgerInv /\ LedgerInv' /\ TimelyInv /\ [TimelyNext]_timelyVars => TimelyInv'
  <1> SUFFICES ASSUME LedgerInv, LedgerInv', TimelyInv, [TimelyNext]_timelyVars
               PROVE  TimelyInv'
    OBVIOUS
  <1>1. CASE TimelyNext
    <2> USE DEF TimelyInv
    <2>1. nextResync' \in Nat /\ TickerSane'
      BY <1>1, TickerNext
    <2>2. Instantaneous'
      BY <1>1, InstantNext
    <2>3. FeedShape' /\ TimerPast'
      BY <1>1, FeedNext
    <2>4. WantedTrue'
      BY <1>1, WantedSteps DEF WantedTrue
    <2>5. TimelyTypes'
      <3>1. \A r \in Reasons : wantedSince'[r] \in Nat
        BY <1>1, WantedSteps
      <3>2. wantedSince' = [r \in Reasons |-> wantedSince'[r]]
        BY <1>1 DEF TimelyNext, RecordWanted
      <3>3. wantedSince' \in [Reasons -> Nat]
        BY <3>1, <3>2
      <3> QED
        BY <2>1, <3>3 DEF TimelyTypes
    <2>6. ListedSane'
      BY <1>1, ListedNext
    <2>7. DecisionSane'
      BY <1>1, DecisionNext
    <2>8. OnTime'
      BY <1>1, <2>1, <2>3, OnTimeNext
    <2> QED
      BY <2>1, <2>2, <2>3, <2>4, <2>5, <2>6, <2>7, <2>8
  <1>2. CASE UNCHANGED timelyVars
    <2>1. UNCHANGED <<vars, nextResync, wantedSince>>
      BY <1>2 DEF timelyVars
    <2>2. \A r : Asks(r)' <=> Asks(r)
      BY <2>1
      DEF vars, Asks, SnapshotNow, Snapshot, InstantCondition, PodNames, Waits, OverflowPods,
          NamedPods, StalePods
    <2>3. WantedTrue'
      BY <2>1, <2>2 DEF vars, TimelyInv, WantedTrue
    <2>4. \A r : (WantedBefore(r)' <=> WantedBefore(r)) /\ (Shows(r)' <=> Shows(r))
      BY <2>1 DEF vars, WantedBefore, Shows
    <2>5. OnTime' /\ ListedSane' /\ DecisionSane'
      BY <2>1, <2>4
      DEF vars, TimelyInv, OnTime, OnTimeFrom, LookComing, Cooldown, ListedSane, DecisionSane
    <2> QED
      BY <2>1, <2>3, <2>5
      DEF vars, TimelyInv, TimelyTypes, TickerSane, Instantaneous, FeedShape, TimerPast
  <1> QED
    BY <1>1, <1>2

\* A reason that lasts - a pod an event names, a pod that has waited for too
\* long, a drained pool - is acted upon before the cooldown of the current
\* state and two resync periods are over, in both directions, whatever the
\* thresholds and the period, with crashes and failed applies on the way, and
\* with lists that are taken one after the other while the workload moves.
THEOREM FlipsAreInTime == ASSUME CaughtUp, Patching PROVE TimelySpec => []FlipsInTime
  <1>1. LedgerInv /\ TimelyInv => FlipsInTime
    <2> SUFFICES ASSUME LedgerInv, TimelyInv, NEW r \in Lasting, wantedSince[r] # NoTime
                 PROVE  clock < wantedSince[r] + (Cooldown + 2 * Period)
      BY DEF FlipsInTime, Deadline, Cooldown
    <2>1. /\ clock \in Nat /\ live.since \in Nat /\ Period \in Nat \ {0}
          /\ Cooldown \in Nat /\ wantedSince[r] \in Nat
      BY TimelyNumbers, ReasonKinds DEF TimelyInv, TimelyTypes
    <2>2. OnTimeFrom(wantedSince[r])
      BY DEF TimelyInv, OnTime
    <2> QED
      BY <2>1, <2>2 DEF OnTimeFrom
  <1> QED
    BY <1>1, TimelyInitInv, TimelyInvNext, TimelyLedger, PTL DEF TimelySpec

=============================================================================
