----------------------------- MODULE RegimeLock -----------------------------
(***************************************************************************)
(* acquire_lock and release_lock of orchestrate_regimemoe.py: a lock file  *)
(* made with O_EXCL, broken when it is an hour old and the process named   *)
(* in it is gone.  Every file system call is a step, and processes may be  *)
(* killed between any two of them, leaving the file behind.                *)
(***************************************************************************)
EXTENDS Integers, FiniteSets

CONSTANTS
    Procs,       \* the commands that want the lock
    NoFile,
    Contention,  \* whether one may come while another judges an existing file
    Ageing,      \* whether a lock file ever gets an hour old
    Reused,      \* processes whose pid names another one once they are dead
    MaxCrashes   \* bound: how often a process is killed

ASSUME LockAssumption ==
    /\ NoFile \notin [owner : Procs, written : BOOLEAN, stale : BOOLEAN]
    /\ Contention \in BOOLEAN /\ Ageing \in BOOLEAN
    /\ Reused \subseteq Procs
    /\ MaxCrashes \in Nat

VARIABLES
    lock,   \* the lock file: who made it, whether its pid is in it, its age
    pc,     \* the place of each process in acquire_lock
    crashes

vars == <<lock, pc, crashes>>

\* Between the failed open and the removal of the file.
Judging == {"stat", "probe", "unlink"}
Places == Judging \cup {"recreate", "write", "idle", "held", "dead"}

LockFile(p) == [owner |-> p, written |-> FALSE, stale |-> FALSE]

Init == lock = NoFile /\ pc = [p \in Procs |-> "idle"] /\ crashes = 0

Move(p, from, to) == pc[p] = from /\ pc' = [pc EXCEPT ![p] = to] /\ UNCHANGED crashes

-----------------------------------------------------------------------------
\* Mutant of Create: without O_EXCL.
CreateOver(p) ==
    /\ Contention \/ \A q \in Procs : pc[q] \notin Judging
    /\ lock' = LockFile(p) /\ Move(p, "idle", "write")

(* acquire_lock: open(O_CREAT | O_EXCL).                                   *)
Create(p) ==
    /\ Contention \/ \A q \in Procs : pc[q] \notin Judging
    /\ \/ lock = NoFile /\ lock' = LockFile(p) /\ Move(p, "idle", "write")
       \/ lock # NoFile /\ UNCHANGED lock /\ Move(p, "idle", "stat")

Old == lock # NoFile /\ lock.stale
Named == lock # NoFile /\ lock.written

\* kill(pid, 0) succeeds, for the process or for another one with its pid.
SeemsAlive(p) == pc[p] # "dead" \/ p \in Reused

\* Mutant of Stat: a refused command stays in the program.
StatStays(p) ==
    /\ (Old /\ Move(p, "stat", "probe")) \/ (~Old /\ Move(p, "stat", "refused"))
    /\ UNCHANGED lock

(* The age of the file; a file that has gone meanwhile is an error.        *)
Stat(p) ==
    /\ (Old /\ Move(p, "stat", "probe")) \/ (~Old /\ Move(p, "stat", "idle"))
    /\ UNCHANGED lock

\* Mutant of Probe: an old file is abandoned.
ProbeNothing(p) == Move(p, "probe", "unlink") /\ UNCHANGED lock

\* Mutant of Probe: a file without a pid is an error.
ProbeStrictly(p) ==
    /\ \/ (Named => SeemsAlive(lock.owner)) /\ Move(p, "probe", "idle")
       \/ Named /\ ~SeemsAlive(lock.owner) /\ Move(p, "probe", "unlink")
    /\ UNCHANGED lock

(* The pid in the file: a live process refuses; a dead one, no pid and no  *)
(* file (both are swallowed) go on.                                        *)
Probe(p) ==
    /\ \/ Named /\ SeemsAlive(lock.owner) /\ Move(p, "probe", "idle")
       \/ (Named => ~SeemsAlive(lock.owner)) /\ Move(p, "probe", "unlink")
    /\ UNCHANGED lock

(* unlink, whatever file is there now.                                     *)
Unlink(p) ==
    \/ lock # NoFile /\ lock' = NoFile /\ Move(p, "unlink", "recreate")
    \/ lock = NoFile /\ UNCHANGED lock /\ Move(p, "unlink", "idle")

Recreate(p) ==
    \/ lock = NoFile /\ lock' = LockFile(p) /\ Move(p, "recreate", "write")
    \/ lock # NoFile /\ UNCHANGED lock /\ Move(p, "recreate", "idle")

(* The pid goes into the file p has opened, if that is still the lock.     *)
Write(p) ==
    /\ Move(p, "write", "held")
    /\ lock' = IF lock # NoFile /\ lock.owner = p
               THEN [lock EXCEPT !.written = TRUE] ELSE lock

(* release_lock: unlink(missing_ok), whoever made the file.                *)
Release(p) == Move(p, "held", "idle") /\ lock' = NoFile

Crash(p) ==
    /\ pc[p] \notin {"idle", "dead"} /\ crashes < MaxCrashes
    /\ crashes' = crashes + 1
    /\ pc' = [pc EXCEPT ![p] = "dead"]
    /\ UNCHANGED lock

\* An hour passes.  A live process does not need that long for its three lines
\* from unlink to the write of its pid.
Age ==
    /\ Ageing /\ lock # NoFile /\ ~lock.stale
    /\ \A p \in Procs : pc[p] \notin {"recreate", "write"}
    /\ lock' = [lock EXCEPT !.stale = TRUE]
    /\ UNCHANGED <<pc, crashes>>

Step(p) ==
    Stat(p) \/ Probe(p) \/ Unlink(p) \/ Recreate(p) \/ Write(p) \/ Release(p)

Next == (\E p \in Procs : Create(p) \/ Step(p) \/ Crash(p)) \/ Age

Spec == Init /\ [][Next]_vars

\* A running process goes on, time passes, and commands are given again.
Fairness ==
    /\ \A p \in Procs : WF_vars(Step(p))
    /\ WF_vars(Age)
    /\ WF_vars(\E p \in Procs : Create(p))

FairSpec == Spec /\ Fairness

-----------------------------------------------------------------------------
(* Properties.                                                             *)

(* Every variable has its type.                                            *)
TypeOK ==
    /\ lock \in [owner : Procs, written : BOOLEAN, stale : BOOLEAN] \cup {NoFile}
    /\ pc \in [Procs -> Places]
    /\ crashes \in 0..MaxCrashes

(* Two commands never hold the lock together - release_lock deletes any    *)
(* file and the take-over deletes what it has not looked at again, so this *)
(* needs that none comes while another one judges an existing file.       *)
Mutex == \A p, q \in Procs : pc[p] = "held" /\ pc[q] = "held" => p = q

(* The file goes only with its maker: when the maker releases it, or when  *)
(* somebody removes it after the maker has died.                           *)
LiveOwnerKeepsLock ==
    [][lock # NoFile /\ lock' = NoFile =>
        \/ pc[lock.owner] = "dead"
        \/ pc[lock.owner] = "held" /\ pc'[lock.owner] = "idle"]_vars

(* A lock file whose maker died does not stop the program for good, unless *)
(* its pid is reused for as long.                                          *)
Abandoned == lock # NoFile /\ pc[lock.owner] = "dead" /\ ~(lock.written /\ lock.owner \in Reused)
AbandonedRecovered == Abandoned ~> ~Abandoned

-----------------------------------------------------------------------------
(* Why Mutex holds: who is where says what the file is.                    *)

Owns(p) == lock # NoFile /\ lock.owner = p

LockInv ==
    /\ lock # NoFile => pc[lock.owner] \in {"write", "held", "dead"}
    /\ \A p \in Procs :
        /\ pc[p] = "write" => Owns(p) /\ ~lock.written /\ ~lock.stale
        /\ pc[p] = "held" => Owns(p) /\ lock.written
        /\ pc[p] \in {"probe", "unlink", "recreate"} => Ageing
        /\ pc[p] = "unlink" /\ lock # NoFile => pc[lock.owner] = "dead"
    /\ lock # NoFile => (lock.stale => Ageing /\ (lock.written \/ pc[lock.owner] = "dead"))
    /\ ~Contention =>
        /\ \A p, q \in Procs : pc[p] \in Judging /\ pc[q] \in Judging => p = q
        /\ \A p, q \in Procs : pc[p] \in {"probe", "unlink"} => pc[q] \notin {"recreate", "write"}
        /\ \A p \in Procs : pc[p] = "recreate" /\ lock # NoFile => ~lock.stale
=============================================================================
