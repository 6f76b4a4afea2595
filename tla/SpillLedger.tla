---------------------------- MODULE SpillLedger ----------------------------
(***************************************************************************)
(* What the cooldown ledger promises to anyone who watches the Queue, with *)
(* no controller in sight: a two-state machine whose only way to change    *)
(* state is a timer that was started, was left alone for the whole         *)
(* cooldown of its state, and restarts with the change.                    *)
(***************************************************************************)
EXTENDS Naturals

CONSTANTS
    Cooldown,  \* the cooldown of each state
    Grain      \* what a persisted timestamp may lose, in ticks

VARIABLES
    state,   \* "Steady" or "Spill"
    anchor,  \* when the timer was started; 0 when it is not running
    time

ledger == <<state, anchor, time>>

TypeOK ==
    /\ state \in {"Steady", "Spill"}
    /\ anchor \in Nat
    /\ time \in Nat

Init ==
    /\ state = "Steady"
    /\ anchor = 0
    /\ time \in Nat

\* The timer starts, at a time that is not in the future.
Start ==
    /\ anchor = 0
    /\ anchor' \in 1..time
    /\ UNCHANGED <<state, time>>

Stop ==
    /\ anchor' = 0
    /\ UNCHANGED <<state, time>>

\* The timer has run for the cooldown: the state flips, and the timer starts
\* again no earlier than the end of that cooldown, less the grain.
Flip ==
    /\ anchor # 0
    /\ time >= anchor + Cooldown[state]
    /\ state' = IF state = "Spill" THEN "Steady" ELSE "Spill"
    /\ anchor' \in 1..time
    /\ anchor' + Grain > anchor + Cooldown[state]
    /\ UNCHANGED time

Advance ==
    /\ time' = time + 1
    /\ UNCHANGED <<state, anchor>>

Next == Start \/ Stop \/ Flip \/ Advance

Spec == Init /\ [][Next]_ledger
=============================================================================
