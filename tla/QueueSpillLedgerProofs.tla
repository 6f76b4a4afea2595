----------------------- MODULE QueueSpillLedgerProofs -----------------------
(***************************************************************************)
(* The reconcile loop implements SpillLedger, for every policy and bound.  *)
(* Three hazards are excluded: a cache that trails when Build reads it, an *)
(* apply that lands after its sender is gone, and the deletion of the      *)
(* Queue.  All of them really break the ledger: the first two flip on a    *)
(* timer that is no longer there, the third forgets a state without any    *)
(* cooldown.                                                               *)
(***************************************************************************)
EXTENDS QueueSpillLedger, QueueSpillProofs

Undeleted == "delete" \notin Hazards

\* The decision the worker carries is a legal move of the ledger in the live
\* Queue: it stops the timer, starts one that is not running, or flips the
\* state when the timer has run out.
MovesLive ==
    pc = "apply" =>
        /\ dec.from = DecodeState(live.state)
        /\ \/ dec.state = dec.from /\ dec.since = NoTime
           \/ dec.state = dec.from /\ dec.since = now /\ live.since = NoTime
           \/ /\ dec.state = FlipState(dec.from) /\ dec.since = now
              /\ live.since # NoTime
              /\ now >= live.since + CooldownFor(Policy, dec.from)

LEMMA MovesNext ==
    ASSUME CaughtUp, Punctual, Undeleted, LedgerInv, MovesLive, [Next]_vars
    PROVE  MovesLive'
  <1>1. CASE Decide
    <2> DEFINE s == CurrentSnapshot
               d == Evaluate(s)
    <2>1. /\ d.from = DecodeState(live.state) /\ live' = live
          /\ EndReconcile \/ (pc' = "apply" /\ dec' = d /\ UNCHANGED <<now, seen>>)
          /\ \/ d.since = NoTime /\ d.state = d.from
             \/ live.since = NoTime /\ d.since = now /\ d.state = d.from
             \/ pc' = "idle"
             \/ /\ live.since # NoTime
                /\ now >= live.since + CooldownFor(Policy, d.from)
                /\ d.since = now /\ d.state = FlipState(d.from)
      BY <1>1, DecideCases DEF queueVars
    <2> HIDE DEF d
    <2> QED
      BY <2>1 DEF MovesLive, EndReconcile
  <1>2. CASE ApplyLands
    BY <1>2 DEF ApplyLands, MovesLive
  <1>3. CASE ~ Decide /\ ~ ApplyLands
    BY <1>3, OtherSteps DEF LedgerInv, Undeleted, MovesLive, workerVars
  <1> QED
    BY <1>1, <1>2, <1>3

\* The initial states map to initial states of the ledger.
LEMMA LedgerInitMaps == Init => Ledger!Init
  BY StartAssumption DEF Init, Ledger!Init, EmptyQueue, DecodeState, Steady, Spill, Unset, NoTime

\* A landing apply is a move of the ledger.
LEMMA ApplyMaps ==
    ASSUME LedgerInv, MovesLive, ApplyLands
    PROVE  Ledger!Start \/ Ledger!Stop \/ Ledger!Flip
  <1>1. /\ pc = "apply" /\ live' = MaterializeQueue(dec) /\ clock' = clock
    BY DEF ApplyLands, Store
  <1>2. live'.state = dec.state /\ live'.since = Truncate(dec.since)
    BY <1>1 DEF MaterializeQueue
  <1>3. dec.from \in State /\ dec.state \in State /\ dec.from = DecodeState(live.state)
    BY <1>1 DEF LedgerInv, TypeOK, DecisionType, MovesLive
  <1>4. DecodeState(live.state)' = dec.state
    BY <1>2, <1>3 DEF DecodeState, State
  <1>5. /\ now \in Nat /\ clock \in Nat /\ live.since \in Nat /\ Second \in Nat
        /\ now >= Second /\ now <= clock /\ Second > 0
    BY <1>1, SecondAssumption DEF LedgerInv, TypeOK, QueueType, ClockSane
  <1>6. /\ Truncate(now) \in 1..clock
        /\ Truncate(now) + Second > now
        /\ Truncate(NoTime) = NoTime
    <2>1. /\ Truncate(now) \in Nat /\ Truncate(now) <= now
          /\ Truncate(now) >= Second /\ Truncate(now) + Second > now
      BY <1>5, TruncateFacts
    <2>2. Truncate(NoTime) = NoTime
      BY SecondAssumption DEF Truncate, NoTime
    <2> QED
      BY <1>5, <2>1, <2>2
  <1>7. CASE dec.state = dec.from /\ dec.since = NoTime
    BY <1>1, <1>2, <1>3, <1>4, <1>6, <1>7 DEF Ledger!Stop, NoTime
  <1>8. CASE dec.state = dec.from /\ dec.since = now /\ live.since = NoTime
    BY <1>1, <1>2, <1>3, <1>4, <1>6, <1>8 DEF Ledger!Start, NoTime
  <1>9. CASE /\ dec.state = FlipState(dec.from) /\ dec.since = now
             /\ live.since # NoTime
             /\ now >= live.since + CooldownFor(Policy, dec.from)
    <2> DEFINE C == CooldownFor(Policy, dec.from)
    <2>1. C \in Nat
      BY CooldownType
    <2>2. [t \in State |-> CooldownFor(Policy, t)][DecodeState(live.state)] = C
      BY <1>3
    <2>3. live'.since \in 1..clock /\ live'.since + Second > live.since + C
          /\ clock >= live.since + C
      <3> HIDE DEF C
      <3>1. now >= live.since + C
        BY <1>9 DEF C
      <3> QED
        BY <1>2, <1>5, <1>6, <1>9, <2>1, <3>1
    <2>4. DecodeState(live.state)' = IF DecodeState(live.state) = "Spill" THEN "Steady" ELSE "Spill"
      BY <1>3, <1>4, <1>9 DEF FlipState, Steady, Spill
    <2> HIDE DEF C
    <2> QED
      BY <1>1, <1>9, <2>2, <2>3, <2>4 DEF Ledger!Flip, NoTime
  <1> QED
    BY <1>1, <1>7, <1>8, <1>9 DEF MovesLive

\* Every step maps to a step of the ledger or leaves it alone.
LEMMA LedgerNextMaps ==
    ASSUME CaughtUp, Punctual, Undeleted, LedgerInv, MovesLive, [Next]_vars
    PROVE  [Ledger!Next]_(Ledger!ledger)
  <1>1. CASE Decide
    BY <1>1 DEF Decide, queueVars, Ledger!ledger
  <1>2. CASE ApplyLands
    BY <1>2, ApplyMaps DEF Ledger!Next
  <1>3. CASE ~ Decide /\ ~ ApplyLands
    <2>1. /\ live'.state = live.state /\ live'.since = live.since
          /\ clock' = clock \/ clock' = clock + 1
      BY <1>3, OtherSteps DEF LedgerInv, Undeleted
    <2>2. DecodeState(live.state)' = DecodeState(live.state)
      BY <2>1
    <2> QED
      BY <2>1, <2>2 DEF Ledger!Next, Ledger!Advance, Ledger!ledger
  <1> QED
    BY <1>1, <1>2, <1>3

\* The annotations of the live Queue follow the cooldown ledger: a state flips
\* only when a persisted timer, neither stopped nor moved, has run for the
\* whole cooldown, and the same apply restarts it - although applies fail or
\* lose their reply, the controller crashes, and the affinity is edited.
THEOREM ImplementsLedger == ASSUME CaughtUp, Punctual, Undeleted PROVE Spec => LedgerSpec
  <1>1. Init => MovesLive
    BY DEF Init, MovesLive
  <1>2. LedgerInv /\ MovesLive /\ [Next]_vars => MovesLive'
    BY MovesNext
  <1>3. LedgerInv /\ MovesLive /\ [Next]_vars => [Ledger!Next]_(Ledger!ledger)
    BY LedgerNextMaps
  <1>4. Init => Ledger!Init
    BY LedgerInitMaps
  <1> QED
    BY <1>1, <1>2, <1>3, <1>4, LedgerInvariant, PTL DEF Spec, LedgerSpec, Ledger!Spec
=============================================================================
