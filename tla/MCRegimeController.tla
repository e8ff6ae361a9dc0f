------------------------- MODULE MCRegimeController -------------------------
(* Instances of the controller, over the queues of MCRegimeTasks.           *)
EXTENDS RegimeControllerProofs, MCRegimeTasks
=============================================================================
