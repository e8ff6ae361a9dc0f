----------------------------- MODULE ManagedPath -----------------------------
(***************************************************************************)
(* One development path of the volatility-managed study.  The evaluator    *)
(* walks the same kind of event sequence as the parity study, but it finds *)
(* gaps with joint_grid_status, session by session, cancels targets by     *)
(* name, and takes its delayed fills without looking at the boundary.      *)
(***************************************************************************)
EXTENDS MinuteMarket

VARIABLES data,        \* the market: vectors, lost minutes, gaps, planned fills
          style,       \* "trial", "biweekly", "delayed" or "benchmark"
          bounds,      \* <<start, end>> of the path
          instant,     \* last event done
          since,       \* time of the last trade into assets, or NoMoment
          owed,        \* safety_due
          lastTrigger, \* last_trigger
          cancelled,   \* signals of cancelled targets
          done,        \* signals of filled targets
          ending       \* "running", "completed" or the exception

managedVars == <<data, style, bounds, instant, since, owed, lastTrigger, cancelled,
                 done, ending>>

RowsOn(have, d) == [a \in Pair |-> have[a] \intersect MinutesOf(d)]
NthRow(S, n) == CHOOSE t \in S : Cardinality({u \in S : u < t}) = n - 1

(* joint_grid_status: a missing row is detected with the first later row of *)
(* either asset in its own session, and only at the boundary if none comes. *)
MissingDetections(day) ==
    UNION {{LET later == {t \in UNION {day[b] : b \in Pair} : t >= m}
            IN  IF later = {} THEN MarketEnd ELSE SmallestOf(later) + 1 :
              m \in (UNION {MinutesOf(d) : d \in {DateOf(t) : t \in UNION {day[b] : b \in Pair}}})
                      \ day[a]} : a \in Pair}

(* asynchronous_joint_row: the first place where the two streams differ. *)
AsynchronousDetections(day) ==
    LET least == SmallestOf({Cardinality(day[a]) : a \in Pair})
        differ == {n \in 1 .. least : \E a, b \in Pair : NthRow(day[a], n) # NthRow(day[b], n)}
        last == SmallestOf(differ)
        times == {NthRow(day[a], last) : a \in Pair}
    IN  IF differ = {} THEN {}
        ELSE {(CHOOSE t \in times : \A u \in times : u <= t) + 1}

JointGridStatus(have, d) ==
    IF SessionComplete(have, d) THEN {}
    ELSE LET day == RowsOn(have, d)
         IN  IF \A a \in Pair : day[a] = {} THEN {MarketEnd}
             ELSE MissingDetections(day) \union AsynchronousDetections(day)

(* The run of complete sessions build_trial_targets counts. *)
CompleteSessions(have) ==
    LET run[d \in -1 .. MarketDays - 1] ==
          IF d = -1 \/ ~SessionComplete(have, d) THEN 0 ELSE run[d - 1] + 1
    IN  run

(* build_trial_targets: scheduled sessions whose window has all returns. *)
TargetSessions(have, kind) ==
    {d \in Dates : /\ Scheduled(d, kind = "biweekly")
                   /\ CompleteSessions(have)[d] >= RunRequired
                   /\ d >= Lookback}

TargetFills(have, kind, window) ==
    {[time |-> ExpectedOpen(d), signal |-> (d + 1) * Minutes] :
       d \in {e \in TargetSessions(have, kind) :
                /\ window[1] <= ExpectedOpen(e)
                /\ ExpectedOpen(e) < window[2] - 1}}

(* delayed_fills: the same targets after one more complete session, wherever *)
(* in the data that may be.                                                  *)
LaterSession(have, f) ==
    NextOf({e \in Dates : SessionComplete(have, e)}, f.signal \div Minutes - 1)

DelayedFills(have, base) ==
    {[f EXCEPT !.time = ExpectedOpen(LaterSession(have, f))] : f \in base}

FillsOf(have, kind, window) ==
    LET base == TargetFills(have, kind, window)
    IN  IF kind = "delayed" THEN DelayedFills(have, base) ELSE base

LastMinute == bounds[2] - 1
InPath(S) == {t \in S : bounds[1] <= t /\ t <= LastMinute}
Moments == InPath(data.vectors) \union InPath(data.gaps) \union {f.time : f \in data.planned}
             \union EndpointTimes(bounds[1], bounds[2]) \union {LastMinute}

Here == [since |-> since, owed |-> owed, trigger |-> lastTrigger,
         cancelled |-> cancelled, done |-> done, ending |-> "running"]
Refuse(p, why) == IF p.ending = "running" THEN [p EXCEPT !.ending = why] ELSE p

(* Exposure is owed to the next safety vector, which must not be too late.  *)
OweSale(p, t, why) ==
    LET next == NextOf(data.vectors, t)
    IN  IF p.since = NoMoment THEN p
        ELSE IF next = NoMoment \/ next > LastMinute THEN Refuse(p, why)
        ELSE [p EXCEPT !.owed = @ \union {next}]

(* A detection cancels every later fill that was signalled before it. *)
NoticeGap(p, t) ==
    IF t \notin InPath(data.gaps) THEN p
    ELSE OweSale([p EXCEPT !.trigger = t,
                    !.cancelled = @ \union {f.signal : f \in
                       {g \in data.planned : g.time >= t /\ g.signal <= t}}],
                 t, "unpriceable_quarantine")

SellTerminal(p, t) ==
    IF t \in data.vectors THEN [p EXCEPT !.since = NoMoment]
                          ELSE Refuse(p, "missing_terminal_vector")

(* A sale ticked off without being made. *)
PayNothing(p, t) == [p EXCEPT !.owed = @ \ {t}]

PayOwed(p, t) ==
    IF t \notin p.owed THEN p
    ELSE IF t \notin data.vectors THEN Refuse(p, "safety_vector_disappeared")
    ELSE [p EXCEPT !.since = NoMoment, !.owed = @ \ {t}]

(* A planned fill: cancelled, stale, unpriced, entry-only or done.          *)
FillPlanned(p, t) ==
    LET due == {f \in data.planned : f.time = t}
        f == CHOOSE x \in due : TRUE
        stale == p.trigger # NoMoment /\ f.signal <= p.trigger
    IN  IF due = {} THEN p
        ELSE IF f.signal \in p.cancelled \/ stale
             THEN [p EXCEPT !.cancelled = @ \union {f.signal}]
        ELSE IF t \notin data.vectors
             THEN OweSale([p EXCEPT !.cancelled = @ \union {f.signal}, !.trigger = t],
                          t, "unpriceable_fill")
        ELSE IF style = "benchmark" /\ p.since # NoMoment THEN p
        ELSE [p EXCEPT !.since = t, !.trigger = NoMoment, !.done = @ \union {f.signal}]

CheckEndpoint(p, t) ==
    IF /\ t \in EndpointTimes(bounds[1], bounds[2]) /\ t \notin data.vectors
       /\ p.since # NoMoment
    THEN Refuse(p, "unpriceable_endpoint") ELSE p

ManagedEvent ==
    LET rest == {e \in Moments : e > instant}
        t == SmallestOf(rest)
        noticed == NoticeGap(Here, t)
        traded == IF t = LastMinute THEN SellTerminal(noticed, t)
                                    ELSE FillPlanned(PayOwed(noticed, t), t)
        p == CheckEndpoint(traded, t)
    IN  /\ ending = "running" /\ rest # {}
        /\ instant' = t /\ since' = p.since /\ owed' = p.owed /\ lastTrigger' = p.trigger
        /\ cancelled' = p.cancelled /\ done' = p.done /\ ending' = p.ending
        /\ UNCHANGED <<data, style, bounds>>

ManagedClose ==
    /\ ending = "running" /\ \A e \in Moments : e <= instant
    /\ ending' = IF since = NoMoment THEN "completed" ELSE "not_cash"
    /\ UNCHANGED <<data, style, bounds, instant, since, owed, lastTrigger, cancelled, done>>

ManagedInit(markets, windows) ==
    /\ style \in {"trial", "biweekly", "delayed", "benchmark"}
    /\ bounds \in IF style = "delayed" THEN {<<0, MarketEnd>>} ELSE windows
    /\ instant = NoMoment /\ since = NoMoment /\ owed = {} /\ lastTrigger = NoMoment
    /\ cancelled = {} /\ done = {}
    /\ \E have \in markets :
         /\ data = [vectors |-> Vectors(have),
                    lost    |-> Opens \ Vectors(have),
                    gaps    |-> UNION {JointGridStatus(have, d) : d \in Dates},
                    planned |-> FillsOf(have, style, bounds)]
         /\ ending = IF style = "delayed" /\ \E f \in TargetFills(have, style, bounds) :
                                                LaterSession(have, f) = NoMoment
                     THEN "no_delayed_session" ELSE "running"

ManagedNext == ManagedEvent \/ ManagedClose

(* Every loss of rows and every window of the data. *)
ManagedSpec ==
    /\ ManagedInit([Pair -> SUBSET Opens],
                   {w \in Nat \X Nat : w[1] < w[2] /\ w[2] <= MarketEnd})
    /\ [][ManagedNext]_managedVars

-----------------------------------------------------------------------------
(* No return crosses an unobserved minute for long: whichever way a gap is  *)
(* noticed, at a row, at the endpoint or never, a position held over a      *)
(* missing minute is gone, or the path refused, before the endpoint of the  *)
(* next day; every path that ends does so in cash.  A target is filled or   *)
(* cancelled, never both: the evaluator's own trace check counts the two    *)
(* lists and does not compare them.                                         *)
ManagedObserved ==
    /\ ending = "running" /\ since # NoMoment =>
         \A m \in InPath(data.lost) :
            since <= m => instant < (DateOf(m) + 2) * Minutes - 1
    /\ ending \notin {"not_cash", "safety_vector_disappeared"}
    /\ cancelled \intersect done = {}
    /\ ending = "completed" /\ style # "benchmark" =>
         \A f \in data.planned : f.time < LastMinute => f.signal \in cancelled \union done
=============================================================================
