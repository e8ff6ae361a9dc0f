---------------------------- MODULE MCRegimeLock ----------------------------
(* Commands at the lock.  RegimeLock: four, none of which comes while       *)
(* another one judges an existing file; three may die, and the pid of one   *)
(* is reused.  RegimeLockRace: three that may come at any time.             *)
EXTENDS RegimeLockProofs, TLC

Symmetry == Permutations(Procs)
=============================================================================
