---------------------------- MODULE MCCleanDecide ----------------------------
(***************************************************************************)
(* The registered primary of the clean-room rotation: with the absolute    *)
(* cash filter and a required lead, filled at the next session, over       *)
(* months without an incomplete session.  The simulator of RotationPath,   *)
(* which only lends its rule, rests.                                       *)
(***************************************************************************)
EXTENDS CleanRotation

PrimaryTrial == [cash_filter |-> TRUE, gap |-> 2, tie_btc |-> FALSE]

SimulatorRests ==
    /\ source = "grid" /\ grids = <<>> /\ absent = {} /\ trial = PrimaryTrial /\ late = FALSE
    /\ position = 0 /\ carried = Cash /\ queue = EmptyQueue /\ window = 0
    /\ inside = NoSegment /\ trace = <<>> /\ outcome = "completed"

PrimaryInit ==
    /\ CleanRotationInit({DailySessions([d \in 1 .. CleanDays |-> "whole"])})
    /\ slack = 0 /\ origin = 0 /\ spec = PrimaryTrial
    /\ SimulatorRests

PrimarySpec ==
    /\ PrimaryInit
    /\ [][CleanRotationNext /\ UNCHANGED rotationVars]_<<cleanRotationVars, rotationVars>>
=============================================================================
