---------------------------- MODULE HoldoutLatch ----------------------------
(***************************************************************************)
(* The one-shot latch in front of the holdout (volatility_parity           *)
(* .create_holdout_latch and arm_holdout_latch): processes that create and *)
(* arm one file with exclusive creation, fsync and rename, and a machine   *)
(* that may lose what was not synchronised.                                *)
(***************************************************************************)
EXTENDS Integers, FiniteSets

CONSTANT Callers     \* processes that may create or arm the latch

VARIABLES latch,     \* the file: "none", "empty", "unarmed" or "armed"
          durable,   \* what of it a power loss cannot take back
          arming,    \* the .arming file: "none", "empty" or "armed"
          at,        \* caller -> where it is
          granted,   \* callers that may resolve a holdout path
          losses     \* power losses so far

latchVars == <<latch, durable, arming, at, granted, losses>>

MaxLosses == 2

Rest(p) == at' = [at EXCEPT ![p] = "idle"]
Go(p, where) == at' = [at EXCEPT ![p] = where]

(* create_holdout_latch: O_EXCL, then the content, then the directory.      *)
OpenNewLatch(p) ==
    /\ at[p] = "idle" /\ p \notin granted
    /\ latch = "none"
    /\ latch' = "empty" /\ Go(p, "write_latch")
    /\ UNCHANGED <<durable, arming, granted, losses>>

WriteLatch(p) ==
    /\ at[p] = "write_latch"
    /\ latch' = "unarmed" /\ Go(p, "sync_latch")
    /\ UNCHANGED <<durable, arming, granted, losses>>

SyncLatch(p) ==
    /\ at[p] = "sync_latch"
    /\ durable' = latch /\ Rest(p)
    /\ UNCHANGED <<latch, arming, granted, losses>>

(* arm_holdout_latch: read and validate an unarmed latch; anything else     *)
(* raises and changes nothing.                                              *)
ReadLatch(p) ==
    /\ at[p] = "idle" /\ p \notin granted
    /\ latch = "unarmed"
    /\ Go(p, "open_arming")
    /\ UNCHANGED <<latch, durable, arming, granted, losses>>

(* The .arming file is exclusive: one that exists raises. *)
OpenArming(p) ==
    /\ at[p] = "open_arming"
    /\ IF arming = "none" THEN arming' = "empty" /\ Go(p, "write_arming")
                          ELSE Rest(p) /\ UNCHANGED arming
    /\ UNCHANGED <<latch, durable, granted, losses>>

WriteArming(p) ==
    /\ at[p] = "write_arming"
    /\ arming' = "armed" /\ Go(p, "replace_latch")
    /\ UNCHANGED <<latch, durable, granted, losses>>

(* os.replace of a synchronised file. *)
ReplaceLatch(p) ==
    /\ at[p] = "replace_latch"
    /\ latch' = arming /\ arming' = "none" /\ Go(p, "sync_directory")
    /\ UNCHANGED <<durable, granted, losses>>

(* The return before the directory is synchronised. *)
ReturnUnsynced(p) ==
    /\ at[p] = "sync_directory"
    /\ granted' = granted \union {p} /\ Rest(p)
    /\ UNCHANGED <<latch, durable, arming, losses>>

(* The fsync of the directory, and the return that permits the access.      *)
SyncDirectory(p) ==
    /\ at[p] = "sync_directory"
    /\ durable' = latch
    /\ granted' = granted \union {p} /\ Rest(p)
    /\ UNCHANGED <<latch, arming, losses>>

(* The machine stops: no call returns, and of the two names each is what it *)
(* was or what was last made durable; a rename taken back leaves .arming.   *)
PowerLoss ==
    /\ losses < MaxLosses /\ losses' = losses + 1
    /\ latch' \in {latch, durable}
    /\ arming' \in {arming, "none"} \union (IF latch # latch' THEN {latch} ELSE {})
    /\ durable' = latch'
    /\ at' = [p \in Callers |-> "idle"]
    /\ UNCHANGED granted

LatchInit ==
    /\ latch = "none" /\ durable = "none" /\ arming = "none"
    /\ at = [p \in Callers |-> "idle"] /\ granted = {} /\ losses = 0

LatchNext ==
    \/ \E p \in Callers :
         \/ OpenNewLatch(p) \/ WriteLatch(p) \/ SyncLatch(p)
         \/ ReadLatch(p) \/ OpenArming(p) \/ WriteArming(p) \/ ReplaceLatch(p)
         \/ SyncDirectory(p)
    \/ PowerLoss

LatchSpec == LatchInit /\ [][LatchNext]_latchVars

-----------------------------------------------------------------------------
(* Arming is irreversible: once some caller was let through to the holdout  *)
(* the latch reads as armed, also after a power loss and with a second      *)
(* caller in the middle of arming, so no later process finds it unopened.   *)
LatchIrreversible == granted # {} => latch = "armed" /\ durable = "armed"
=============================================================================
