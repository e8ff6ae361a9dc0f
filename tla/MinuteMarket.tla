---------------------------- MODULE MinuteMarket ----------------------------
(***************************************************************************)
(* The minute data both volatility studies load: one-minute rows of two    *)
(* assets, from which joint vectors, sessions and daily endpoints follow.  *)
(* A session has Minutes rows (1440); time counts them, so session d opens *)
(* at d * Minutes and the row opening at t is available at t + 1.          *)
(***************************************************************************)
EXTENDS Integers, Sequences, FiniteSets

CONSTANTS Pair,       \* the fixed pair
          Minutes,      \* rows of a session (1440)
          MarketDays,   \* sessions 0 .. MarketDays - 1
          Week,         \* days between scheduled sessions (7)
          Sunday,       \* the scheduled one
          RunRequired,  \* complete sessions before a target (150; 91)
          Lookback      \* paired returns a target is estimated from

ASSUME MinuteMarketAssumption ==
    /\ Minutes \in Nat /\ Minutes > 1 /\ MarketDays \in Nat \ {0} /\ Week \in Nat \ {0}
    /\ Sunday \in 0 .. Week - 1 /\ Lookback \in Nat
    /\ RunRequired \in Nat /\ RunRequired > Lookback

MarketEnd == MarketDays * Minutes
Opens == 0 .. MarketEnd - 1
Dates == 0 .. MarketDays - 1
NoMoment == -1

SmallestOf(S) == CHOOSE x \in S : \A y \in S : x <= y
DateOf(t) == t \div Minutes
MinutesOf(d) == d * Minutes .. (d + 1) * Minutes - 1

(* Minutes for which both assets have their row. *)
Vectors(rows) == {t \in Opens : \A a \in Pair : t \in rows[a]}
SessionComplete(rows, d) == MinutesOf(d) \subseteq Vectors(rows)

(* The first of a set of times strictly after a moment. *)
NextOf(times, t) ==
    LET later == {v \in times : v > t}
    IN  IF later = {} THEN NoMoment ELSE SmallestOf(later)

(* The 23:59 endpoints and the terminal vector of a half-open window. *)
EndpointTimes(from, to) ==
    {t \in {d * Minutes + Minutes - 1 : d \in Dates} : from <= t /\ t < to}
TerminalTimestamp(to) == to - 1

(* The whole minute after the session's last row is available. *)
ExpectedOpen(d) == (d + 1) * Minutes + 1

Scheduled(d, biweekly) ==
    /\ d % Week = Sunday
    /\ biweekly => (d \div Week) % 2 = 0
=============================================================================
