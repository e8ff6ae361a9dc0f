---------------------------- MODULE RotationPath ----------------------------
(***************************************************************************)
(* One period of the second relative-value rotation: the immutable binding *)
(* of sessions to exact fills (relative_value_v2_pipeline                  *)
(* .build_production_bindings over bind_session_grid) and the simulator    *)
(* that consumes it (relative_value_v2.simulate_bound_period).  One step   *)
(* is one binding of the simulator's loop.  Scores are small integers, a   *)
(* median lookback return is positive or not.                              *)
(***************************************************************************)
EXTENDS JointSessions

CONSTANTS Btc, Eth,     \* SYMBOLS in their frozen order
          ScoreWindow   \* closes a trial's longest horizon looks back over

ASSUME RotationAssumption ==
    Assets = {Btc, Eth} /\ Btc # Eth /\ "CASH" \notin Assets /\ ScoreWindow \in Nat

VARIABLES source,   \* "production" or "grid": where the bindings come from
          grids,    \* the joint sessions
          absent,   \* sessions whose exact fill row is not in a "grid" index
          trial,    \* frozen TrialSpec
          late,     \* delayed = TRUE for the additional-delay stress
          position, \* next binding of the loop
          carried,     \* actual
          queue,    \* pending target and the fill it is due at
          window,   \* length of the retained history
          inside,   \* active_segment
          trace,    \* decision traces so far
          outcome   \* "running", "completed" or the exception

rotationVars == <<source, grids, absent, trial, late, position, carried, queue, window,
                  inside, trace, outcome>>

Cash == "CASH"
Positions == Assets \union {Cash}
EmptyQueue == [target |-> Cash, due |-> NoTime, waiting |-> FALSE]
NoFill == NoTime
Trials == {[cash_filter |-> TRUE, gap |-> 2, tie_btc |-> FALSE],
           [cash_filter |-> TRUE, gap |-> 0, tie_btc |-> FALSE],
           [cash_filter |-> FALSE, gap |-> 0, tie_btc |-> TRUE]}

LowerOf(a, b) == IF a < b THEN a ELSE b

(* decision_for_scores with both scores finite. *)
DecisionForScores(spec, score, up, actual) ==
    LET winner == IF score[Btc] > score[Eth] THEN Btc ELSE Eth
        loser == IF winner = Btc THEN Eth ELSE Btc
        passes == ~spec.cash_filter \/ up[winner]
        leads == score[winner] - score[loser] >= spec.gap
    IN  IF actual # Cash /\ spec.cash_filter /\ ~up[actual] THEN Cash
        ELSE IF score[Btc] = score[Eth]
             THEN IF actual = Cash /\ spec.tie_btc THEN Btc ELSE actual
        ELSE IF actual = winner THEN IF passes THEN winner ELSE Cash
        ELSE IF leads /\ passes THEN winner ELSE actual

(* relative_value_v2_oracle.oracle_target, written independently. *)
OracleTarget(spec, score, up, actual) ==
    LET winner == IF score[Btc] > score[Eth] THEN Btc ELSE Eth
        ahead == score[winner] - (IF actual = Cash THEN score[IF winner = Btc THEN Eth ELSE Btc]
                                                   ELSE score[actual])
    IN  IF spec.cash_filter /\ actual # Cash /\ ~up[actual] THEN Cash
        ELSE IF score[Btc] = score[Eth] \/ (spec.cash_filter /\ ~up[winner]) THEN actual
        ELSE IF actual = winner \/ ahead >= spec.gap THEN winner ELSE actual

Scores == [Assets -> 0 .. 2]
Medians == [Assets -> BOOLEAN]
Targets(actual) == {DecisionForScores(trial, s, u, actual) : s \in Scores, u \in Medians}

(* bind_session_grid before fills: segment and recovery counters. *)
GridState(m) ==
    [s \in Sessions |->
        [observed |-> Complete(m, s),
         segment  |-> Cardinality({t \in 1 .. s : ~Complete(m, t)}),
         recovery |-> LowerOf(Recovery, CompleteRun(m)[s])]]

(* BoundaryIndex.required_vector_after: the one whole minute after the      *)
(* cutoff, when the index holds it inside the boundary.                     *)
RequiredVector(s) == IF s < Days /\ s \notin absent THEN s + 1 ELSE NoFill

(* SessionExecutionBinding.eligible *)
Eligible(b) == b.observed /\ b.recovery = Recovery /\ b.base # NoFill

(* bind_session_grid: base, then delayed and terminal fill.                 *)
GridBindings(m) ==
    LET state == GridState(m)
        base == [s \in Sessions |-> IF Complete(m, s) THEN RequiredVector(s) ELSE NoFill]
        able == {s \in Sessions : state[s].recovery = Recovery /\ base[s] # NoFill}
    IN  [s \in Sessions |->
          [observed |-> state[s].observed, segment |-> state[s].segment,
           recovery |-> state[s].recovery, base |-> base[s],
           delayed  |-> IF /\ s \in able /\ s + 1 \in able
                           /\ state[s + 1].segment = state[s].segment
                        THEN base[s + 1] ELSE NoFill,
           terminal |-> base[s] # NoFill /\ \A t \in able : t <= s]]

(* build_production_bindings: the fills join the grid by session identity.  *)
ProductionBindings(m) ==
    LET state == GridState(m)
        fill == FillIdentities(m)
    IN  [s \in Sessions |->
          [observed |-> state[s].observed, segment |-> state[s].segment,
           recovery |-> state[s].recovery,
           base     |-> IF s \in FillSessions(m) THEN fill[s].base ELSE NoFill,
           delayed  |-> IF s \in FillSessions(m) THEN fill[s].delayed ELSE NoFill,
           terminal |-> s \in FillSessions(m) /\ s = TerminalSession(m)]]

(* The fills build_production_bindings refuses. *)
RefusedFills(m) ==
    LET state == GridState(m)
        fill == FillIdentities(m)
    IN  {s \in FillSessions(m) :
            \/ ~state[s].observed \/ state[s].recovery # Recovery
            \/ fill[s].base # s + 1
            \/ fill[s].delayed # NoTime /\ fill[s].delayed <= fill[s].base
            \/ fill[s].index # Cardinality({t \in FillSessions(m) : t < s})}

Binding == IF source = "production" THEN ProductionBindings(grids) ELSE GridBindings(grids)

(* score_at: enough joint closes since the last gap. *)
Scored(b, n) == n - 1 >= ScoreWindow /\ b.recovery = Recovery

Onward(h, q, n, seg, rows) ==
    /\ carried' = h /\ queue' = q /\ window' = n /\ inside' = seg /\ trace' = rows
    /\ position' = position + 1
    /\ UNCHANGED <<source, grids, absent, trial, late, outcome>>

Halt(why) ==
    /\ outcome' = why
    /\ UNCHANGED <<source, grids, absent, trial, late, position, carried, queue, window,
                   inside, trace>>

RotationRunning == outcome = "running" /\ position <= Days

(* An unobserved session is fatal with exposure and clears everything else. *)
CrossGap ==
    /\ RotationRunning /\ ~Binding[position].observed
    /\ IF carried # Cash THEN Halt("unpriced_exposed_quarantine")
       ELSE Onward(Cash, EmptyQueue, 0, NoSegment, trace)

(* The history and queue a binding of another segment starts from.          *)
Fresh(b) == inside # NoSegment /\ b.segment # inside
History(b) == (IF Fresh(b) THEN 0 ELSE window) + 1

(* A session without its fill passed over with the position kept. *)
ObserveHolding ==
    LET b == Binding[position]
    IN  /\ RotationRunning /\ b.observed /\ ~Eligible(b)
        /\ Onward(carried, EmptyQueue, History(b), b.segment, trace)

(* An observed session that is not eligible is fatal with exposure too.     *)
ObserveIneligible ==
    LET b == Binding[position]
    IN  /\ RotationRunning /\ b.observed /\ ~Eligible(b)
        /\ IF carried # Cash
           THEN Halt(IF Fresh(b) THEN "gap_bridge" ELSE "missing_exact_fill")
           ELSE Onward(Cash, EmptyQueue, History(b), b.segment, trace)

Traced(b, before, after, desired, due) ==
    Append(trace, [session |-> position, fill |-> b.base, segment |-> b.segment,
                   before |-> before, after |-> after, desired |-> desired,
                   due |-> due, terminal |-> b.terminal])

(* One eligible binding: accrue, then terminal cash, the queued target, the *)
(* quarantine of an unscored session, or a new decision.                    *)
ObserveEligible ==
    LET b == Binding[position]
        n == History(b)
        q == IF Fresh(b) THEN EmptyQueue ELSE queue
        executes == late /\ q.waiting /\ ~b.terminal
        actual == IF executes THEN q.target ELSE carried
    IN  /\ RotationRunning /\ Eligible(b)
        /\ IF Fresh(b) /\ carried # Cash THEN Halt("gap_bridge")
           ELSE IF executes /\ q.due # b.base THEN Halt("missing_delayed_vector")
           ELSE IF b.terminal \/ ~Scored(b, n)
           THEN Onward(Cash, EmptyQueue, n, b.segment, Traced(b, carried, Cash, Cash, executes))
           ELSE \E desired \in Targets(actual) :
                  IF late
                  THEN Onward(actual, [target |-> desired, due |-> b.delayed, waiting |-> TRUE],
                            n, b.segment, Traced(b, carried, actual, desired, executes))
                  ELSE Onward(desired, EmptyQueue, n, b.segment,
                            Traced(b, carried, desired, desired, FALSE))

CloseRotation ==
    /\ outcome = "running" /\ position = Days + 1
    /\ Halt(IF trace # <<>> /\ trace[Len(trace)].terminal THEN "completed"
                                                          ELSE "terminal_cash_invariant")

RotationInit(markets) ==
    /\ grids \in {m \in markets : FillSessions(m) # {}}
    /\ source \in {"production", "grid"}
    /\ absent \in IF source = "grid" THEN {a \in SUBSET Sessions : Cardinality(a) <= 1} ELSE {{}}
    /\ trial \in Trials /\ late \in BOOLEAN
    /\ position = 1 /\ carried = Cash /\ queue = EmptyQueue /\ window = 0 /\ inside = NoSegment
    /\ trace = <<>>
    /\ outcome = IF source = "production" /\ RefusedFills(grids) # {}
                 THEN "refused_fill" ELSE "running"

RotationNext == CrossGap \/ ObserveIneligible \/ ObserveEligible \/ CloseRotation

(* Every market: each session with the minutes of either, both or no asset. *)
RotationSpec ==
    RotationInit([Sessions -> SUBSET Assets]) /\ [][RotationNext]_rotationVars

-----------------------------------------------------------------------------
(* Two implementations of one rule agree.  The fills of the mean-reversion  *)
(* pipeline, eligible by causal_gap_segments, are never refused by the      *)
(* recovery counter of bind_session_grid, and a delayed target never finds  *)
(* another vector than the one it was bound to; the independent oracle      *)
(* decides like the evaluator for every score, median and position, except  *)
(* where only the evaluator has a rule for ties from cash; and a period in  *)
(* which anything was traded ends with its terminal liquidation.            *)
RotationAgrees ==
    /\ outcome \notin {"refused_fill", "missing_delayed_vector", "gap_bridge"}
    /\ outcome = "terminal_cash_invariant" => trace = <<>>
    /\ position = 1 => \A s \in Scores, u \in Medians, p \in Positions :
         (trial.tie_btc /\ p = Cash /\ s[Btc] = s[Eth]) \/
             DecisionForScores(trial, s, u, p) = OracleTarget(trial, s, u, p)

(* A position of the rotation is carried only between the fills of two      *)
(* consecutive sessions of one segment, and a delayed run trades at a fill  *)
(* exactly what the fill before it decided.                                 *)
RotationExposureObserved ==
    \A i \in 1 .. Len(trace) - 1 :
        /\ trace[i].after # Cash =>
              /\ trace[i + 1].session = trace[i].session + 1
              /\ trace[i + 1].segment = trace[i].segment
              /\ trace[i + 1].before = trace[i].after
        /\ late /\ trace[i + 1].after \notin {Cash, trace[i].after} =>
              trace[i + 1].after = trace[i].desired

RotationSound == RotationAgrees /\ RotationExposureObserved
=============================================================================
