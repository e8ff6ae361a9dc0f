------------------------------ MODULE TrendPath ------------------------------
(***************************************************************************)
(* The trend study: load_development_market derives sessions and fills     *)
(* from minute rows, primary_exposure gives each session a target or none, *)
(* and build_period_fills walks over the sessions of a period and keeps    *)
(* the fills that self_financing accounts.  One step is one session.  The  *)
(* lookbacks are within RunRequired, as the code demands of them.          *)
(***************************************************************************)
EXTENDS MinuteMarket

CONSTANT Lead          \* the first of the pair (BTCUSDT)

ASSUME TrendAssumption ==
    Lead \in Pair /\ IsFiniteSet(Pair) /\ RunRequired > 1

VARIABLES tape,      \* the market: sessions, targets and fills of each asset, vectors
          symbols,   \* the assets that have targets
          period,    \* <<start, end>>
          visited,   \* last session looked at
          started,   \* a fill of the period was met
          orders,    \* fills: [session, time]
          ended      \* "running", "stopped", "completed" or the exception

trendVars == <<tape, symbols, period, visited, started, orders, ended>>

(* Sessions of an asset: dates with at least one row. *)
SessionsOf(rows, a) == {d \in Dates : rows[a] \intersect MinutesOf(d) # {}}
WholeSession(rows, a, d) == MinutesOf(d) \subseteq rows[a]

(* _complete_segments: the offset of a session in its contiguous segment.   *)
SegmentOffset(rows, a) ==
    LET run[d \in -1 .. MarketDays - 1] ==
          IF d = -1 \/ ~WholeSession(rows, a, d) THEN 0 ELSE run[d - 1] + 1
    IN  run

(* primary_exposure: a target once the segment has recovered. *)
Exposed(rows, a) == {d \in Dates : SegmentOffset(rows, a)[d] >= RunRequired}

(* The first row that opens strictly after the whole session is known; the  *)
(* search goes on over whatever rows are missing.                           *)
CausalFill(rows, a, d) == NextOf(rows[a], (d + 1) * Minutes)

Tape(rows) ==
    [sessions |-> SessionsOf(rows, Lead), vectors |-> Vectors(rows),
     targets  |-> [a \in Pair |-> Exposed(rows, a)],
     fills    |-> [a \in Pair |-> [d \in Dates |-> CausalFill(rows, a, d)]]]

InPeriod(t) == period[1] <= t /\ t < period[2]
Fills(d) == {tape.fills[a][d] : a \in symbols}
Ready(d) == \A a \in symbols : d \in tape.targets[a] /\ tape.fills[a][d] # NoMoment
FillTime(d) == CHOOSE t \in Fills(d) : TRUE

Visiting(d) ==
    ended = "running" /\ d \in tape.sessions /\ d > visited
      /\ \A e \in tape.sessions : e > visited => d <= e

(* Only the first symbol's fill decides whether a later one is eligible.    *)
LaterEligible(d) ==
    \E e \in tape.sessions : e > d /\ Ready(e) /\ InPeriod(tape.fills[Lead][e])

(* A hole in the period that is walked over. *)
MissAndGoOn(d) == visited' = d /\ UNCHANGED <<started, orders, ended>>

(* A session without target or fill: a period that has started ends here,   *)
(* and is refused when it could have gone on later.                         *)
MissSession(d) ==
    /\ visited' = d
    /\ ended' = IF ~(started /\ InPeriod(d * Minutes)) THEN "running"
                ELSE IF LaterEligible(d) THEN "missing_fill" ELSE "stopped"
    /\ UNCHANGED <<started, orders>>

TakeFill(d) ==
    /\ visited' = d
    /\ IF Cardinality(Fills(d)) > 1
       THEN ended' = "unaligned" /\ UNCHANGED <<started, orders>>
       ELSE IF ~InPeriod(FillTime(d)) THEN UNCHANGED <<started, orders, ended>>
       ELSE /\ started' = TRUE
            /\ orders' = Append(orders, [session |-> d, time |-> FillTime(d)])
            /\ UNCHANGED ended

VisitSession ==
    \E d \in Dates :
        /\ Visiting(d)
        /\ IF Ready(d) THEN TakeFill(d) ELSE MissSession(d)
        /\ UNCHANGED <<tape, symbols, period>>

(* self_financing refuses fills that do not advance. *)
Chronological == \A i \in 1 .. Len(orders) - 1 : orders[i + 1].time > orders[i].time

(* The last fill is forced to cash, and every fill but it opens an interval.*)
ClosePeriod ==
    /\ ended = "stopped" \/ (ended = "running" /\ \A e \in tape.sessions : e <= visited)
    /\ ended' = IF Len(orders) < 2 THEN "insufficient_fills"
                ELSE IF Chronological THEN "completed" ELSE "not_chronological"
    /\ UNCHANGED <<tape, symbols, period, visited, started, orders>>

TrendInit(markets, periods) ==
    /\ symbols \in {Pair, {Lead}}
    /\ period \in periods
    /\ \E rows \in markets :
         /\ tape = Tape(rows)
         /\ ended = IF \A a \in Pair : SessionsOf(rows, a) = tape.sessions
                    THEN "running" ELSE "sessions_not_aligned"
    /\ visited = -1 /\ started = FALSE /\ orders = <<>>

TrendNext == VisitSession \/ ClosePeriod

(* Every market, and every period between two midnights.                    *)
TrendPeriods == {<<from * Minutes, to * Minutes>> : from \in Nat, to \in Nat}
TrendSpec == TrendInit([Pair -> SUBSET Opens], TrendPeriods) /\ [][TrendNext]_trendVars

-----------------------------------------------------------------------------
(* What a completed period accounts: fills of consecutive sessions, one     *)
(* minute into the next session each, so that the exposure of every         *)
(* interval but the last lies over minutes both assets have.  Only the last *)
(* interval may reach over a gap, to the displaced fill that closes it.     *)
TrendExposureObserved ==
    ended = "completed" =>
        \A i \in 1 .. Len(orders) - 1 :
            /\ orders[i + 1].session = orders[i].session + 1
            /\ orders[i].time = ExpectedOpen(orders[i].session)
            /\ i < Len(orders) - 1 /\ symbols = Pair =>
                 orders[i].time .. orders[i + 1].time - 1 \subseteq tape.vectors
=============================================================================
