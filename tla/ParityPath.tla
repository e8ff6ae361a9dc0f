----------------------------- MODULE ParityPath -----------------------------
(***************************************************************************)
(* One development path of the volatility-parity study: the market         *)
(* load_development_market derives from the rows, the targets              *)
(* build_trial_targets fixes in advance, and simulate_path, which walks    *)
(* over the union of vectors, gap detections, fills and endpoints.  One    *)
(* step is one event.  Of the account only "exposed or not" is kept, as    *)
(* the time the position was opened.                                       *)
(***************************************************************************)
EXTENDS MinuteMarket

VARIABLES loaded,      \* the market: vectors, gap detections, planned fills
          role,        \* "trial", "biweekly", "delayed" or "benchmark"
          span,        \* <<start, end>> of the path
          clock,       \* last event done
          opened,      \* time of the last trade into assets, or NoMoment
          safetyDue,   \* safety_due
          trigger,     \* last_quarantine_trigger
          fills,       \* trades done: [time, signal, opened]
          fate         \* "running", "completed" or the exception

parityVars == <<loaded, role, span, clock, opened, safetyDue, trigger, fills, fate>>

(* all_starts: a day without any row of either asset is not even a session. *)
Seen(rows, d) == \E a \in Pair : rows[a] \intersect MinutesOf(d) # {}
SeenBefore(rows, d) == {e \in Dates : e < d /\ Seen(rows, e)}

(* The moment at which a missing minute is noticed: when the next joint     *)
(* vector is available, or at the end of the session if none follows.       *)
GapDetection(rows, m) ==
    LET next == NextOf(Vectors(rows), m)
    IN  IF next = NoMoment THEN (DateOf(m) + 1) * Minutes ELSE next + 1

GapTimes(rows) ==
    {GapDetection(rows, m) : m \in {t \in Opens \ Vectors(rows) : Seen(rows, DateOf(t))}}

(* recovery_eligible over the sessions that exist. *)
RecoveryRun(rows) ==
    LET run[d \in Dates] ==
          LET last == CHOOSE e \in SeenBefore(rows, d) : \A f \in SeenBefore(rows, d) : f <= e
          IN  IF ~SessionComplete(rows, d) THEN 0
              ELSE IF SeenBefore(rows, d) = {} THEN 1
              ELSE IF SessionComplete(rows, last) /\ last # d - 1 THEN 0
              ELSE run[last] + 1
    IN  run

(* paired_returns and contiguous_return_window. *)
PairedReturn(rows, d) ==
    SessionComplete(rows, d) /\ d > 0 /\ SessionComplete(rows, d - 1)
WindowContiguous(rows, d) == \A e \in d - Lookback + 1 .. d : PairedReturn(rows, e)

SignalDays(rows, kind) ==
    {d \in Dates : /\ Scheduled(d, kind = "biweekly")
                   /\ SessionComplete(rows, d)
                   /\ RecoveryRun(rows)[d] >= RunRequired}

(* The next completed joint session a delayed target waits for. *)
NextComplete(rows, d) == NextOf({e \in Dates : SessionComplete(rows, e)}, d)

TargetTime(rows, kind, d) ==
    ExpectedOpen(IF kind = "delayed" THEN NextComplete(rows, d) ELSE d)

(* Why build_trial_targets raises, if it does. *)
Refusal(rows, kind) ==
    IF \E d \in SignalDays(rows, kind) : ~WindowContiguous(rows, d) THEN "broken_window"
    ELSE IF kind = "delayed" /\ \E d \in SignalDays(rows, kind) :
                                   NextComplete(rows, d) = NoMoment
    THEN "no_delayed_session" ELSE "running"

(* build_trial_targets as planned fills. *)
PlannedFills(rows, kind, window) ==
    {[time |-> TargetTime(rows, kind, d), signal |-> (d + 1) * Minutes] :
       d \in {e \in SignalDays(rows, kind) :
                /\ window[1] <= TargetTime(rows, kind, e)
                /\ TargetTime(rows, kind, e) < TerminalTimestamp(window[2])}}

Terminal == TerminalTimestamp(span[2])
WithinPath(S) == {t \in S : span[1] <= t /\ t <= Terminal}
Gaps == WithinPath(loaded.gaps)
Events == WithinPath(loaded.vectors) \union Gaps \union {f.time : f \in loaded.planned}
            \union EndpointTimes(span[1], span[2]) \union {Terminal}

State == [opened |-> opened, due |-> safetyDue, trigger |-> trigger, fills |-> fills,
          fate |-> "running"]
Ruined(p, why) == IF p.fate = "running" THEN [p EXCEPT !.fate = why] ELSE p

(* Exposure that must be sold is sold at the next vector or not at all. *)
SellAfter(p, t, why) ==
    LET next == NextOf(loaded.vectors, t)
    IN  IF p.opened = NoMoment THEN p
        ELSE IF next = NoMoment \/ next > Terminal THEN Ruined(p, why)
        ELSE [p EXCEPT !.due = @ \union {next}]

(* A detection that invalidates targets and sells nothing. *)
DetectTrigger(p, t) == IF t \in Gaps THEN [p EXCEPT !.trigger = t] ELSE p

(* A detected gap sells the exposure and invalidates what was signalled.    *)
Detect(p, t) ==
    IF t \in Gaps
    THEN [SellAfter(p, t, "unpriceable_quarantine") EXCEPT !.trigger = t] ELSE p

LiquidateTerminal(p, t) ==
    IF t \in loaded.vectors THEN [p EXCEPT !.opened = NoMoment]
                           ELSE Ruined(p, "missing_terminal_vector")

Liquidate(p, t) ==
    IF t \notin p.due THEN p
    ELSE IF t \notin loaded.vectors THEN Ruined(p, "safety_vector_disappeared")
    ELSE [p EXCEPT !.opened = NoMoment, !.due = @ \ {t}]

(* The planned fill: a missing vector is a new trigger, a target older than *)
(* the last trigger is dropped, an entry-only target needs cash.            *)
Execute(p, t) ==
    LET due == {f \in loaded.planned : f.time = t}
        f == CHOOSE x \in due : TRUE
    IN  IF due = {} THEN p
        ELSE IF Cardinality(due) > 1 THEN Ruined(p, "shared_execution_time")
        ELSE IF t \notin loaded.vectors
             THEN [SellAfter(p, t, "unpriceable_fill") EXCEPT !.trigger = t]
        ELSE IF p.trigger # NoMoment /\ f.signal <= p.trigger THEN p
        ELSE IF role = "benchmark" /\ p.opened # NoMoment THEN p
        ELSE [p EXCEPT !.trigger = NoMoment, !.opened = t,
                       !.fills = @ \union {[time |-> t, signal |-> f.signal]}]

(* A 23:59 endpoint without a vector is nothing in cash, fatal otherwise. *)
MarkEndpoint(p, t) ==
    IF /\ t \in EndpointTimes(span[1], span[2]) /\ t \notin loaded.vectors
       /\ p.opened # NoMoment
    THEN Ruined(p, "unpriceable_endpoint") ELSE p

SimulateEvent ==
    LET rest == {e \in Events : e > clock}
        t == SmallestOf(rest)
        detected == Detect(State, t)
        traded == IF t = Terminal THEN LiquidateTerminal(detected, t)
                                  ELSE Execute(Liquidate(detected, t), t)
        p == MarkEndpoint(traded, t)
    IN  /\ fate = "running" /\ rest # {}
        /\ clock' = t /\ opened' = p.opened /\ safetyDue' = p.due
        /\ trigger' = p.trigger /\ fills' = p.fills /\ fate' = p.fate
        /\ UNCHANGED <<loaded, role, span>>

ClosePath ==
    /\ fate = "running" /\ \A e \in Events : e <= clock
    /\ fate' = IF opened = NoMoment THEN "completed" ELSE "not_cash"
    /\ UNCHANGED <<loaded, role, span, clock, opened, safetyDue, trigger, fills>>

ParityInit(markets, spans) ==
    /\ role \in {"trial", "biweekly", "delayed", "benchmark"}
    /\ span \in spans
    /\ \E rows \in markets :
         /\ loaded = [vectors |-> Vectors(rows), gaps |-> GapTimes(rows),
                      planned |-> PlannedFills(rows, role, span)]
         /\ fate = Refusal(rows, role)
    /\ clock = NoMoment /\ opened = NoMoment /\ safetyDue = {} /\ trigger = NoMoment
    /\ fills = {}

ParityNext == SimulateEvent \/ ClosePath

(* Every loss of rows and every window. *)
ParitySpec ==
    /\ ParityInit([Pair -> SUBSET Opens], {w \in Nat \X Nat : w[1] < w[2]})
    /\ [][ParityNext]_parityVars

-----------------------------------------------------------------------------
(* Quarantine flattens: a position opened before the detection of a missing *)
(* minute does not outlive the first vector after that detection, and a     *)
(* path that lasts to its end holds no position and no unpaid liquidation.  *)
(* No stale target trades either: between the close that signalled a fill   *)
(* and the fill no gap was detected, however long the delay; estimation     *)
(* windows are contiguous whenever the recovery rule lets a target be built.*)
ParityObserved ==
    /\ fate = "running" /\ opened # NoMoment =>
         \A g \in Gaps :
             opened <= g => NextOf(loaded.vectors, g) = NoMoment
                            \/ clock < NextOf(loaded.vectors, g)
    /\ fate = "completed" => safetyDue \subseteq {Terminal}
    /\ \A f \in fills : \A g \in Gaps : ~(f.signal <= g /\ g <= f.time)
    /\ fate \notin {"broken_window", "safety_vector_disappeared",
                    "shared_execution_time", "not_cash"}
=============================================================================
