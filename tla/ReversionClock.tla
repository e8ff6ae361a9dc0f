--------------------------- MODULE ReversionClock ----------------------------
(***************************************************************************)
(* mean_reversion_v2.Clock: the position of one asset, the single pending  *)
(* target and the fill index of the open entry.  A clock is a record; a    *)
(* call returns the clock after it, with "raised" naming the exception     *)
(* that ended the evaluation, if there was one.                            *)
(***************************************************************************)
EXTENDS Integers

CONSTANT MaxHold    \* maximum_holding_intervals of the trial

ASSUME HoldAssumption == MaxHold \in Nat \ {0}

Signals == {"entry", "recovered", "none"}
Flat == 0
Long == 1           \* the frozen weight of one asset, one half
NoIndex == -1
NoTarget == [session |-> 0, index |-> NoIndex, time |-> 0, weight |-> Flat]

NewClock == [actual |-> Flat, pending |-> NoTarget, entry |-> NoIndex,
             raised |-> "no"]

(* Clock.apply_fill: only the exact pending index and time execute. *)
ApplyFill(c, time, index) ==
    LET p == c.pending
    IN  IF p = NoTarget THEN c
        ELSE IF index < p.index
             THEN IF time >= p.time THEN [c EXCEPT !.raised = "inconsistent_fill"] ELSE c
        ELSE IF index # p.index \/ time # p.time
             THEN [c EXCEPT !.raised = "forward_scan"]
        ELSE [c EXCEPT !.pending = NoTarget, !.actual = p.weight,
                       !.entry = IF p.weight = Long THEN index ELSE NoIndex]

(* The weights a decision may ask for: none, or one. *)
Desired(c, index, signal) ==
    {w \in {Flat, Long} :
        \/ w = Long /\ c.actual = Flat /\ signal = "entry"
        \/ /\ w = Flat /\ c.actual = Long
           /\ signal = "recovered" \/ index >= c.entry + MaxHold}

(* Clock.decide with the delay of the path (0 or 1 eligible fills). *)
Decide(c, delay, session, base, delayed, index, signal) ==
    IF c.pending # NoTarget \/ Desired(c, index, signal) = {} THEN c
    ELSE IF delay = 1 /\ delayed = 0
         THEN [c EXCEPT !.raised = "no_delayed_identity"]
    ELSE [c EXCEPT !.pending =
            [session |-> session,
             index   |-> index + delay,
             time    |-> IF delay = 0 THEN base ELSE delayed,
             weight  |-> CHOOSE w \in Desired(c, index, signal) : TRUE]]

(* A gap that forgets to look at the exposure. *)
QuarantineAnyway(c) == [c EXCEPT !.pending = NoTarget, !.entry = NoIndex]

(* Clock.quarantine: a gap may cancel a pending entry, never exposure. *)
QuarantineClock(c) ==
    IF c.actual = Long \/ (c.pending # NoTarget /\ c.pending.weight = Flat)
    THEN [c EXCEPT !.raised = "risky_quarantine"]
    ELSE [c EXCEPT !.pending = NoTarget, !.entry = NoIndex]
=============================================================================
