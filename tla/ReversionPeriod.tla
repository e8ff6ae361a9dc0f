--------------------------- MODULE ReversionPeriod ---------------------------
(***************************************************************************)
(* The first mean-reversion study: mean_reversion.asset_state_machine run  *)
(* over the prepared sessions of one period, and the synchronized fills    *)
(* mean_reversion_pipeline.build_period_fills takes from its decisions.    *)
(* Both assets see the same gaps and nothing else in common, so one asset  *)
(* is followed.  A day's data holds "session" when its grid is complete    *)
(* and "fill" when both assets have one synchronized causal fill after it. *)
(***************************************************************************)
EXTENDS Integers, Sequences, FiniteSets

CONSTANTS PeriodDays,    \* sessions of the loaded market
          HoldIntervals, \* maximum_holding_intervals
          RunNeeded      \* recovery_sessions

ASSUME PeriodAssumption ==
    PeriodDays \in Nat \ {0} /\ HoldIntervals \in Nat /\ RunNeeded \in Nat \ {0}

VARIABLES grid,       \* day -> subset of {"session", "fill"}
          lag,        \* execution_delay_sessions
          opening,    \* first day of the period (decision_start)
          closing,    \* first day after the period
          day,        \* next session of the loop
          holding,    \* actual
          queued,     \* pending: NoQueue or [long, remaining]
          held,       \* exposed intervals counted so far
          streak,     \* complete_run
          marks,      \* period fills: [day, long]
          fault       \* "no" or the exception

periodVars == <<grid, lag, opening, closing, day, holding, queued, held, streak,
                marks, fault>>

NoQueue == [long |-> FALSE, remaining |-> -1]

(* A session without its fill taken for one. *)
PreparedByGrid(d) == "session" \in grid[d]

(* _prepared_days: a missing synchronized fill is a gap only when that      *)
(* fill would fall inside the period.                                       *)
Prepared(d) ==
    /\ "session" \in grid[d]
    /\ d + 1 < closing => "fill" \in grid[d]

(* The target queued for this fill is applied before the session is read.   *)
Executes == queued # NoQueue /\ queued.remaining = 0
Position == IF Executes THEN queued.long ELSE holding
HeldNow == IF Executes THEN 0 ELSE held
QueueNow == IF queued = NoQueue \/ Executes THEN NoQueue
            ELSE [queued EXCEPT !.remaining = @ - 1]

(* build_period_fills: the fill after session d - 1 is in the period and    *)
(* carries the position the machine shows in session d.                     *)
Mark(d, long) ==
    IF d > 1 /\ "fill" \in grid[d - 1] /\ d >= opening /\ d < closing
    THEN Append(marks, [day |-> d - 1, long |-> long]) ELSE marks

Advance(h, q, n, r, long) ==
    /\ holding' = h /\ queued' = q /\ held' = n /\ streak' = r
    /\ marks' = Mark(day, long) /\ day' = day + 1
    /\ UNCHANGED <<grid, lag, opening, closing, fault>>

Raise(why) ==
    /\ fault' = why
    /\ UNCHANGED <<grid, lag, opening, closing, day, holding, queued, held, streak, marks>>

PeriodRunning == fault = "no" /\ day <= PeriodDays

(* A gap is fatal with exposure and cancels a pending entry otherwise. *)
PeriodGap ==
    /\ PeriodRunning /\ ~Prepared(day)
    /\ IF Position THEN Raise("risky_quarantine")
       ELSE Advance(FALSE, NoQueue, 0, 0, FALSE)

(* Before the decision start, and while recovering, the state must be cash. *)
PeriodWarmup ==
    /\ PeriodRunning /\ Prepared(day)
    /\ day < opening \/ streak + 1 < RunNeeded
    /\ IF Position \/ QueueNow # NoQueue THEN Raise("exposed_warmup")
       ELSE Advance(FALSE, NoQueue, 0, streak + 1, FALSE)

(* The session in which a queued target waits or executes decides nothing.  *)
PeriodExecute ==
    /\ PeriodRunning /\ Prepared(day)
    /\ day >= opening /\ streak + 1 >= RunNeeded
    /\ queued # NoQueue
    /\ Advance(Position, QueueNow, HeldNow, streak + 1, Position)

(* Otherwise the signal, or the holding clock, may queue the other state.   *)
PeriodDecide ==
    /\ PeriodRunning /\ Prepared(day)
    /\ day >= opening /\ streak + 1 >= RunNeeded
    /\ queued = NoQueue
    /\ \E triggered \in BOOLEAN :
         LET exposed == IF holding THEN held + 1 ELSE held
             due == holding /\ exposed + lag + 1 >= HoldIntervals
         IN  Advance(holding,
                     IF triggered \/ due THEN [long |-> ~holding, remaining |-> lag]
                                         ELSE NoQueue,
                     exposed, streak + 1, holding)

(* forced_terminal_cash on the last fill of the period. *)
PeriodClose ==
    /\ fault = "no" /\ day = PeriodDays + 1
    /\ IF Len(marks) < 2 THEN fault' = "insufficient_fills" /\ UNCHANGED marks
       ELSE /\ marks' = [marks EXCEPT ![Len(marks)].long = FALSE]
            /\ fault' = "completed"
    /\ UNCHANGED <<grid, lag, opening, closing, day, holding, queued, held, streak>>

PeriodInit(grids) ==
    /\ grid \in grids
    /\ lag \in {0, 1} /\ opening \in 2 .. 3 /\ closing \in PeriodDays - 1 .. PeriodDays + 1
    /\ day = 1 /\ holding = FALSE /\ queued = NoQueue /\ held = 0 /\ streak = 0
    /\ marks = <<>> /\ fault = "no"

PeriodNext == PeriodGap \/ PeriodWarmup \/ PeriodExecute \/ PeriodDecide \/ PeriodClose

PeriodSpec ==
    PeriodInit([1 .. PeriodDays -> SUBSET {"session", "fill"}]) /\ [][PeriodNext]_periodVars

-----------------------------------------------------------------------------
(* The holding clock of the first study anticipates the delay: a position   *)
(* is never carried over more than HoldIntervals fills nor over a session   *)
(* that is not there, whichever of signal, clock, delay or period end       *)
(* closes it.                                                               *)
PeriodHoldsBounded ==
    \A i \in 1 .. Len(marks) :
        /\ marks[i].long /\ i < Len(marks) =>
              marks[i + 1].day = marks[i].day + 1 /\ "session" \in grid[marks[i].day + 1]
        /\ i + HoldIntervals <= Len(marks) =>
              \E j \in i .. i + HoldIntervals : ~marks[j].long
=============================================================================
