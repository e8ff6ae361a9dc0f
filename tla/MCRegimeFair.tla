---------------------------- MODULE MCRegimeFair ----------------------------
(***************************************************************************)
(* The lock and the controller under the same assumption: commands are     *)
(* given again and again.  They share no state in the model - the          *)
(* controller's one command at a time is what the lock is for - so an      *)
(* instance runs one of them, and the other one rests: nobody wants the    *)
(* lock, or usage is paused.                                               *)
(***************************************************************************)
EXTENDS MCRegimeLock, MCRegimeTasks

CONSTANTS Commands, Unlocked, MaxInterrupts, NoJournal, NoTask   \* of RegimeController

VARIABLES disk, journal, artifact, recorded, stray,     \* as in RegimeController,
          cmd, place, mem, ret, cur, spawn,             \* its pc named place
          resuming, week, interrupts,
          subject   \* which of the two runs

C == INSTANCE RegimeController WITH pc <- place

commandVars == <<disk, journal, artifact, recorded, stray, cmd, place, mem, ret, cur, spawn,
                 resuming, week, interrupts>>

EitherInit ==
    /\ Init /\ C!Init
    /\ \/ subject = "lock" /\ disk = InitialSnapshot(TRUE)
       \/ subject = "controller"

EitherNext ==
    \/ subject = "lock" /\ Next /\ UNCHANGED <<commandVars, subject>>
    \/ subject = "controller" /\ C!Next /\ UNCHANGED <<vars, subject>>

(* The fairness of RegimeLock and of RegimeController.                     *)
EitherFairness ==
    /\ \A p \in Procs : WF_vars(subject = "lock" /\ Step(p))
    /\ WF_vars(subject = "lock" /\ Age)
    /\ WF_vars(subject = "lock" /\ \E p \in Procs : Create(p))
    /\ WF_commandVars(subject = "controller" /\ C!CommandStep)
    /\ WF_commandVars(subject = "controller" /\ C!ChildExits)
    /\ WF_commandVars(subject = "controller" /\ C!Start("cycle"))

EitherSpec ==
    EitherInit /\ [][EitherNext]_<<vars, commandVars, subject>> /\ EitherFairness

(* Released work is done: a task cycle can select gets an outcome, unless   *)
(* usage is paused or an attempt without process.json was lost.             *)
ReadyWorkEnds == C!ReadyWorkEnds

(* A complete journal does not stay: recover() brings it to the files.      *)
JournalReplayed == C!JournalReplayed
=============================================================================
