--------------------------- MODULE RotationPeriod ---------------------------
(***************************************************************************)
(* The first relative-value rotation over one period                       *)
(* (relative_value_pipeline.build_period_run) and its data-only benchmark  *)
(* calendar (_benchmark_calendar_run).  Days are the entries of the two    *)
(* aligned lists; a day has "session" when both grids are complete and     *)
(* follow the entry before, and "fill" when its canonical fill exists.     *)
(* Unlike the mean-reversion studies this one may meet a gap while exposed: *)
(* the position waits for the first later fill and is liquidated there.    *)
(***************************************************************************)
EXTENDS Integers, Sequences, FiniteSets

CONSTANTS CalendarDays,   \* sessions before the period's end (_prefix_market)
          RunToRecover    \* RECOVERY_SESSIONS

ASSUME RotationPeriodAssumption ==
    CalendarDays \in Nat \ {0} /\ RunToRecover \in Nat \ {0}

VARIABLES log,        \* day -> subset of {"session", "fill"}
          schedule,   \* "rotation", "delayed", "cash" or "buy_and_hold"
          starting,   \* first day with a fill inside the period
          today,      \* next session of the loop
          asset,      \* actual, or whether the benchmark is invested
          ordered,    \* pending: NoOrder or the target of the last decision
          enabled,    \* active
          counted,    \* run
          part,       \* segment
          awaiting,   \* awaiting_liquidation
          ledger,     \* fills: [day, part, target, forced]
          verdict     \* "running", "completed" or the exception

rotationPeriodVars == <<log, schedule, starting, today, asset, ordered,
                        enabled, counted, part, awaiting, ledger, verdict>>

NoAsset == "CASH"
Tradable == {"BTC", "ETH"}
NoOrder == "none"
IsBenchmark == schedule \in {"cash", "buy_and_hold"}

(* _canonical_fill: the synchronized fill after the session, if it lies     *)
(* before the end; only the last session's does not.                        *)
ExpectedInside(d) == d < CalendarDays
FillAfter(d) == "fill" \in log[d] /\ ExpectedInside(d)
InsidePeriod(d) == starting <= d /\ FillAfter(d)
LastSignal == CalendarDays - 1

(* A gap in the grids that is no gap. *)
UsableByFill(d) == FillAfter(d) \/ ~ExpectedInside(d)

(* Whether the day can be used as a signal: the run marks it incomplete in  *)
(* advance, the benchmark keeps its own list.                               *)
Usable(d) ==
    IF IsBenchmark THEN ("session" \in log[d] /\ FillAfter(d)) \/ ~ExpectedInside(d)
                   ELSE "session" \in log[d] /\ (ExpectedInside(d) => FillAfter(d))

Row(d, target, forced) == [day |-> d, part |-> part, target |-> target, forced |-> forced]

(* append_fill drops a fill outside the period. *)
AppendInside(rows, row) == IF InsidePeriod(row.day) THEN Append(rows, row) ELSE rows

Continue(a, o, e, n, p, w, rows) ==
    /\ asset' = a /\ ordered' = o /\ enabled' = e /\ counted' = n /\ part' = p
    /\ awaiting' = w /\ ledger' = rows /\ today' = today + 1
    /\ UNCHANGED <<log, schedule, starting, verdict>>

RotationGoes == verdict = "running" /\ today <= CalendarDays

(* What a gap would leave unpriced. *)
AtRisk == IF IsBenchmark THEN enabled /\ schedule = "buy_and_hold" ELSE asset # NoAsset

(* After a gap without a fill every session is skipped up to the first fill. *)
LiquidateLate ==
    /\ RotationGoes /\ awaiting
    /\ IF InsidePeriod(today)
       THEN Continue(NoAsset, ordered, FALSE, 0, part + 1, FALSE,
                     AppendInside(ledger, Row(today, NoAsset, TRUE)))
       ELSE Continue(asset, ordered, enabled, counted, part, TRUE, ledger)

(* A gap: liquidate now if a fill is there, else wait; cash only restarts.  *)
MeetGap ==
    /\ RotationGoes /\ ~awaiting /\ ~Usable(today)
    /\ IF AtRisk
       THEN IF InsidePeriod(today)
            THEN Continue(NoAsset, NoOrder, FALSE, 0, part + 1, FALSE,
                          AppendInside(ledger, Row(today, NoAsset, TRUE)))
            ELSE Continue(asset, NoOrder, enabled, 0, part, TRUE, ledger)
       ELSE Continue(asset, NoOrder, FALSE, 0, part + 1, FALSE, ledger)

(* The session whose fill lies beyond the end, and the sessions before the  *)
(* period or before recovery, only count.                                   *)
CountSession ==
    /\ RotationGoes /\ ~awaiting /\ Usable(today)
    /\ ~FillAfter(today) \/ today < starting \/ (~enabled /\ counted + 1 < RunToRecover)
    /\ Continue(asset, ordered, enabled, IF FillAfter(today) THEN counted + 1 ELSE counted,
                part, FALSE, ledger)

(* decide, as far as it restricts the next target: every target but a       *)
(* switch into the asset held.                                              *)
Decisions == Tradable \union {NoAsset}

TradeSession ==
    /\ RotationGoes /\ ~awaiting /\ Usable(today)
    /\ FillAfter(today) /\ today >= starting /\ (enabled \/ counted + 1 >= RunToRecover)
    /\ LET filled == IF schedule = "delayed" /\ ordered # NoOrder THEN ordered ELSE asset
           Trade(a, o) == Continue(a, o, TRUE, counted + 1, part, FALSE,
                                   AppendInside(ledger, Row(today, a, FALSE)))
       IN  IF IsBenchmark
           THEN Continue(asset, ordered, today # LastSignal, counted + 1, part, FALSE,
                         AppendInside(ledger, Row(today,
                            IF schedule = "buy_and_hold" /\ today # LastSignal
                            THEN "BTC" ELSE NoAsset, FALSE)))
           ELSE IF today = LastSignal THEN Trade(NoAsset, NoOrder)
           ELSE \E desired \in Decisions :
                  IF schedule = "rotation" THEN Trade(desired, NoOrder)
                  ELSE Trade(filled, IF desired = filled THEN NoOrder ELSE desired)

(* Checks after the loop, then self_financing_with_attribution, which       *)
(* refuses a return over the boundary of two segments.                      *)
EndRotationPeriod ==
    /\ verdict = "running" /\ today = CalendarDays + 1
    /\ verdict' = IF awaiting \/ asset # NoAsset THEN "liquidation_unavailable"
                  ELSE IF Len(ledger) < 2 THEN "insufficient_fills"
                  ELSE IF ledger[Len(ledger)].target # NoAsset THEN "not_cash"
                  ELSE IF ~IsBenchmark /\ \E i \in 1 .. Len(ledger) - 1 :
                            ledger[i].target # NoAsset /\ ledger[i].part # ledger[i + 1].part
                  THEN "bridged_boundary" ELSE "completed"
    /\ UNCHANGED <<log, schedule, starting, today, asset, ordered, enabled,
                   counted, part, awaiting, ledger>>

RotationPeriodInit(logs) ==
    /\ log \in logs
    /\ schedule \in {"rotation", "delayed", "cash", "buy_and_hold"}
    /\ starting \in 2 .. 3
    /\ today = 1 /\ asset = NoAsset /\ ordered = NoOrder /\ enabled = FALSE
    /\ counted = 0 /\ part = 0 /\ awaiting = FALSE /\ ledger = <<>>
    /\ verdict = IF Cardinality({d \in 1 .. CalendarDays : InsidePeriod(d)}) < 2
                 THEN "insufficient_fills" ELSE "running"

RotationPeriodNext ==
    LiquidateLate \/ MeetGap \/ CountSession \/ TradeSession \/ EndRotationPeriod

RotationPeriodSpec ==
    /\ RotationPeriodInit([1 .. CalendarDays -> SUBSET {"session", "fill"}])
    /\ [][RotationPeriodNext]_rotationPeriodVars

-----------------------------------------------------------------------------
(* Whatever the gap, a position ends at the first fill after it: two fills  *)
(* with a position between them belong to one segment and no fill lies      *)
(* between them; the account never has to refuse a bridged boundary and no  *)
(* period comes out of its loop invested without having been refused.       *)
RotationBridgesNothing ==
    /\ \A i \in 1 .. Len(ledger) - 1 :
         ledger[i].target # NoAsset =>
            /\ ledger[i].part = ledger[i + 1].part
            /\ \A d \in ledger[i].day + 1 .. ledger[i + 1].day - 1 : ~FillAfter(d)
            /\ "session" \notin log[ledger[i].day + 1] => ledger[i + 1].target = NoAsset
    /\ verdict \notin {"bridged_boundary", "not_cash"}
=============================================================================
