---------------------------- MODULE CleanSessions ----------------------------
(***************************************************************************)
(* The daily sessions both clean-room evaluations (v5) read: the loader    *)
(* makes one of every date that has a row of any asset, and a date without *)
(* rows is no session at all: to the evaluators its neighbours are         *)
(* consecutive.                                                            *)
(***************************************************************************)
EXTENDS Integers, Sequences, FiniteSets

CONSTANTS CleanDays,      \* dates of the loaded months
          CleanRecovery   \* complete sessions after a gap without decision (150)

ASSUME CleanAssumption == CleanDays \in Nat \ {0} /\ CleanRecovery \in Nat \ {0}

(* What the minute rows of a date are, for both assets together. *)
Coverage == {"whole", "partial", "absent"}

DailySessions(days) ==
    LET seen == SelectSeq([d \in 1 .. CleanDays |-> d], LAMBDA d : days[d] # "absent")
    IN  [i \in 1 .. Len(seen) |-> [date |-> seen[i], complete |-> days[seen[i]] = "whole"]]

(* Every list of sessions in the order of their dates: what DailySessions   *)
(* makes of a calendar is one of these.                                     *)
DailySession == [date : 1 .. CleanDays, complete : BOOLEAN]
SessionLists ==
    {list \in Seq(DailySession) :
        \A i, j \in 1 .. Len(list) : i < j => list[i].date < list[j].date}
=============================================================================
