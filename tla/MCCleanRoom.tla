----------------------------- MODULE MCCleanRoom -----------------------------
(***************************************************************************)
(* The frozen primary of the clean-room mean-reversion evaluation, in its  *)
(* base execution and over months without an incomplete session.           *)
(***************************************************************************)
EXTENDS CleanReversion

PrimaryInit ==
    /\ CleanInit({DailySessions([d \in 1 .. CleanDays |-> "whole"])}, {CleanAssets})
    /\ Comparable

PrimarySpec == PrimaryInit /\ [][CleanNext]_cleanVars
=============================================================================
