---------------------------- MODULE JointSessions ----------------------------
(***************************************************************************)
(* The calendar every BTC/ETH evaluation runs on: which UTC sessions are   *)
(* complete for both assets, which of them are eligible after a gap, and   *)
(* which exact fill belongs to which session.                              *)
(*                                                                         *)
(* A market is a function from session number to the set of assets whose   *)
(* 1440 bar-end minutes are all there.  Session s closes at time s + 1 and *)
(* its base fill is the first whole minute after that information, which   *)
(* is also time s + 1 here: one fill lies between two sessions.            *)
(***************************************************************************)
EXTENDS Integers, Sequences, FiniteSets

CONSTANTS Assets,     \* the fixed pair
          Days,       \* sessions in the half-open development window
          Recovery    \* contiguous complete sessions before eligibility (150)

ASSUME CalendarAssumption ==
    /\ Days \in Nat \ {0} /\ Recovery \in Nat \ {0}
    /\ IsFiniteSet(Assets) /\ Assets # {}

Sessions == 1 .. Days
NoSegment == -1
NoTime == 0

(* A session counts only when every asset has its exact grid. *)
Complete(market, s) == market[s] = Assets

(* Sessions complete in a row, ending at s. *)
CompleteRun(market) ==
    LET run[s \in 0 .. Days] ==
            IF s = 0 \/ ~Complete(market, s) THEN 0 ELSE run[s - 1] + 1
    IN  run

(* causal_gap_segments: every incomplete session opens a new segment and    *)
(* the segment is named only after Recovery new complete sessions.          *)
GapSegments(market) ==
    LET run == CompleteRun(market)
    IN  [s \in Sessions |->
            IF run[s] >= Recovery
            THEN Cardinality({t \in 1 .. s : ~Complete(market, t)})
            ELSE NoSegment]

(* The sessions fill_identities keeps: eligible, and with a base fill whose *)
(* one-minute bar still ends before the boundary.                           *)
FillSessions(market) ==
    LET segment == GapSegments(market)
    IN  {s \in Sessions : segment[s] # NoSegment /\ s < Days}

(* fill_identities: a running index, the base time and, only when the next  *)
(* session continues the segment, the next session's base as delayed time.  *)
FillIdentities(market) ==
    LET eligible == FillSessions(market)
        segment == GapSegments(market)
    IN  [s \in eligible |->
            [session |-> s,
             index   |-> Cardinality({t \in eligible : t < s}),
             segment |-> segment[s],
             base    |-> s + 1,
             delayed |-> IF s + 1 \in eligible /\ segment[s + 1] = segment[s]
                         THEN s + 2 ELSE NoTime]]

(* terminal_fill_identity: the last fill constructed before the boundary. *)
TerminalSession(market) ==
    LET eligible == FillSessions(market)
    IN  CHOOSE s \in eligible : \A t \in eligible : t <= s
=============================================================================
