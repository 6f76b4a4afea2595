--------------------------- MODULE SpillEvaluator ---------------------------
(***************************************************************************)
(* The pure core of the controller: pkg/evaluator, with the decoding half  *)
(* of pkg/snapshot that prepares its input.  Nothing here has state: the   *)
(* modules that model the reconcile loop apply these operators to the      *)
(* records they keep.                                                      *)
(*                                                                         *)
(* Time is counted in ticks.  Persisted timestamps are RFC3339, which has  *)
(* whole seconds only, so Second ticks make one second and Truncate is     *)
(* what a round trip through the annotation does to a timestamp.  The zero *)
(* time.Time is NoTime = 0; clocks start at one second or later, so no     *)
(* real timestamp is ever truncated to NoTime.                             *)
(***************************************************************************)
EXTENDS Naturals

CONSTANT Second        \* ticks in one second, the grain of RFC3339

ASSUME SecondAssumption == Second \in Nat \ {0}

Steady == "Steady"
Spill  == "Spill"
State  == {Steady, Spill}

\* The state annotation of a Queue the controller has never written.
Unset == "unset"

NoTime == 0

Truncate(t) == t - (t % Second)

-----------------------------------------------------------------------------
(* A policy is a record: the two node groups and the thresholds.  The      *)
(* hysteresis is kept in percent; the loader has clamped it to [0, 1].     *)

PolicyType ==
    [dedicated : STRING, overflow : STRING,
     timeOn : Nat, timeOff : Nat, hysteresis : 0..100, timePendingMax : Nat]

\* Node group lists are sets: the hash sorts them and the order of two
\* required groups has no meaning to the scheduler.
NoAffinity == [required |-> {}, preferred |-> {}]

AffinityFor(p, state) ==
    IF state = Spill
    THEN [required |-> {p.dedicated, p.overflow}, preferred |-> {p.dedicated}]
    ELSE [required |-> {p.dedicated}, preferred |-> {}]

\* Mutant: the timer is hashed as it is, not as it is persisted.
HashDecisionExact(state, affinity, since) ==
    [state |-> state, affinity |-> affinity, since |-> since]

\* sha256 is modelled as injective: the hash of a decision is the canonical
\* text that was fed to it.
HashDecision(state, affinity, since) ==
    [state |-> state, affinity |-> affinity, since |-> Truncate(since)]

\* The empty decision-hash annotation, which no decision hashes to.
NoHash == [state |-> Unset, affinity |-> NoAffinity, since |-> NoTime]

-----------------------------------------------------------------------------
(* A Queue carries the fields the controller owns, and may not be there at *)
(* all.  The snapshot decodes a missing Queue as one nobody has annotated; *)
(* an apply does not (see ApplyForbidden in QueueSpill).                   *)

EmptyQueue ==
    [exists |-> TRUE,
     state |-> Unset, since |-> NoTime, hash |-> NoHash, affinity |-> NoAffinity]

NoQueue == [EmptyQueue EXCEPT !.exists = FALSE]

\* Mutant: no default for an annotation that is missing.
DecodeStateRaw(annotation) == annotation

DecodeState(annotation) == IF annotation = Spill THEN Spill ELSE Steady

\* How long a pod that turned unschedulable at time since has waited.
UnschedulableFor(since, now) ==
    IF since = NoTime \/ since > now THEN 0 ELSE now - since

\* The snapshot of policy p at time now: the signals taken from the pod, node
\* and event caches, and the ledger decoded from the cached Queue q.  waits
\* are the waits of the policy's pods: StalestPendingFor is the longest of
\* them, and is above a threshold when one of them is.  overflowPods are the
\* pods that OverflowPodsOfPolicy counts.
Snapshot(p, now, exhausted, waits, overflowPods, q) ==
    [policy |-> p, observedAt |-> now,
     exhausted |-> exhausted, waits |-> waits, overflowPods |-> overflowPods,
     state |-> DecodeState(q.state), since |-> q.since, hash |-> q.hash]

-----------------------------------------------------------------------------
\* Some pod has waited for longer than max; zero switches the rule off.
StalePending(max, waits) == max > 0 /\ \E w \in waits : w > max

\* Mutant: switch-back looks at the autoscaler instead of the pool.
InstantConditionUndrained(s) ==
    IF s.state = Spill
    THEN ~ s.exhausted
    ELSE s.exhausted \/ StalePending(s.policy.timePendingMax, s.waits)

InstantCondition(s) ==
    IF s.state = Spill
    THEN s.overflowPods = {}
    ELSE s.exhausted \/ StalePending(s.policy.timePendingMax, s.waits)

CooldownFor(p, state) ==
    IF state = Spill
    THEN p.timeOff + (p.timeOff * p.hysteresis) \div 100
    ELSE p.timeOn

FlipState(state) == IF state = Spill THEN Steady ELSE Spill

\* Mutant: the switch-back time, without its hysteresis, in both states.
CooldownElapsedTimeOff(s) == s.observedAt >= s.since + s.policy.timeOff

\* A timestamp ahead of the clock makes the elapsed time negative, which is
\* below every cooldown; the comparison is therefore written with a sum.
CooldownElapsed(s) == s.observedAt >= s.since + CooldownFor(s.policy, s.state)

\* Mutants: the timer moves while it runs; it survives a false condition;
\* it is not restarted by a flip.
HoldRearms(s)     == [state |-> s.state, since |-> s.observedAt, fired |-> FALSE]
ClearHolds(s)     == [state |-> s.state, since |-> s.since, fired |-> FALSE]
FlipKeepsTimer(s) == [state |-> FlipState(s.state), since |-> s.since, fired |-> TRUE]

Hold(s)  == [state |-> s.state, since |-> s.since, fired |-> FALSE]
Arm(s)   == [state |-> s.state, since |-> s.observedAt, fired |-> FALSE]
Clear(s) == [state |-> s.state, since |-> NoTime, fired |-> FALSE]
Flip(s)  == [state |-> FlipState(s.state), since |-> s.observedAt, fired |-> TRUE]

\* The cooldown ledger: what the next state is, and which timer anchor has
\* to be persisted with it.
NextState(s) ==
    IF ~ InstantCondition(s) THEN Clear(s)
    ELSE IF s.since = NoTime THEN Arm(s)
    ELSE IF ~ CooldownElapsed(s) THEN Hold(s)
    ELSE Flip(s)

Evaluate(s) ==
    LET t == NextState(s)
        a == AffinityFor(s.policy, t.state)
    IN  [from |-> s.state, state |-> t.state, since |-> t.since, fired |-> t.fired,
         affinity |-> a, hash |-> HashDecision(t.state, a, t.since)]

\* Mutants: a flip drops the timer annotation; the hash is not written.
MaterializeQueueUntimed(d) ==
    [exists |-> TRUE, state |-> d.state,
     since |-> IF d.fired THEN NoTime ELSE Truncate(d.since),
     hash |-> d.hash, affinity |-> d.affinity]
MaterializeQueueUnhashed(d) ==
    [exists |-> TRUE, state |-> d.state, since |-> Truncate(d.since),
     hash |-> NoHash, affinity |-> d.affinity]

\* The Queue that decision d materializes to: the timer annotation is the
\* formatted anchor, and is absent (NoTime) when there is none.
MaterializeQueue(d) ==
    [exists |-> TRUE, state |-> d.state, since |-> Truncate(d.since),
     hash |-> d.hash, affinity |-> d.affinity]
=============================================================================
