-------------------------- MODULE RegimeLockProofs --------------------------
(* The lock file excludes, for any number of commands, when no two of them  *)
(* are acquiring it at a time.                                              *)
EXTENDS RegimeLock, TLAPS

Files == [owner : Procs, written : BOOLEAN, stale : BOOLEAN]
Inv == TypeOK /\ LockInv

(* A fresh lock file has its type and is not NoFile.                       *)
LEMMA LockFileType == ASSUME NEW p \in Procs
                      PROVE  LockFile(p) \in Files /\ LockFile(p) # NoFile
<1>1. LockFile(p) \in Files
  BY DEF LockFile, Files
<1>2. NoFile \notin Files
  BY LockAssumption DEF Files
<1> QED BY <1>1, <1>2

(* Every variable keeps its type, whoever contends.                         *)
THEOREM TypeCorrect == Spec => []TypeOK
<1>1. Init => TypeOK
  BY LockAssumption DEF Init, TypeOK, Places
<1>2. TypeOK /\ [Next]_vars => TypeOK'
  <2> SUFFICES ASSUME TypeOK, [Next]_vars PROVE TypeOK'
    OBVIOUS
  <2> USE LockAssumption, LockFileType DEF TypeOK, Files
  <2>1. ASSUME NEW p \in Procs, Create(p) PROVE TypeOK'
    BY <2>1 DEF Create, Move, Places, Judging
  <2>2. ASSUME NEW p \in Procs, Step(p) PROVE TypeOK'
    <3>1. CASE Stat(p) BY <3>1 DEF Stat, Move, Places, Judging
    <3>2. CASE Probe(p) BY <3>2 DEF Probe, Move, Places, Judging
    <3>3. CASE Unlink(p) BY <3>3 DEF Unlink, Move, Places, Judging
    <3>4. CASE Recreate(p) BY <3>4 DEF Recreate, Move, Places, Judging
    <3>5. CASE Write(p) BY <3>5 DEF Write, Move, Places, Judging
    <3>6. CASE Release(p) BY <3>6 DEF Release, Move, Places, Judging
    <3> QED BY <2>2, <3>1, <3>2, <3>3, <3>4, <3>5, <3>6 DEF Step
  <2>3. ASSUME NEW p \in Procs, Crash(p) PROVE TypeOK'
    BY <2>3 DEF Crash, Places, Judging
  <2>4. CASE Age
    BY <2>4 DEF Age
  <2>5. CASE UNCHANGED vars
    BY <2>5 DEF vars
  <2> QED BY <2>1, <2>2, <2>3, <2>4, <2>5 DEF Next
<1> QED BY <1>1, <1>2, PTL DEF Spec

(* The strengthening of mutual exclusion is inductive without contention.   *)
LEMMA LockInductive == ASSUME ~(Contention /\ Ageing), TypeOK, TypeOK', LockInv, [Next]_vars
                       PROVE  LockInv'
<1> USE LockAssumption, LockFileType DEF TypeOK, LockInv, Owns, Files
<1>1. ASSUME NEW p \in Procs, Create(p) PROVE LockInv'
  BY <1>1 DEF Create, Move, LockFile, Judging, Places
<1>2. ASSUME NEW p \in Procs, Stat(p) PROVE LockInv'
  BY <1>2 DEF Stat, Old, Move, Judging, Places
<1>3. ASSUME NEW p \in Procs, Probe(p) PROVE LockInv'
  <2>1. /\ pc[p] = "probe" /\ lock' = lock /\ Ageing /\ ~Contention
        /\ \A q \in Procs \ {p} : pc'[q] = pc[q]
    BY <1>3 DEF Probe, Move
  <2>2. CASE pc'[p] = "idle"
    BY <2>1, <2>2 DEF Judging, Places
  <2>3. CASE pc'[p] = "unlink" /\ (lock # NoFile => pc[lock.owner] = "dead" \/ ~lock.written)
    BY <2>1, <2>3 DEF Judging, Places
  <2> QED BY <1>3, <2>2, <2>3 DEF Probe, Named, SeemsAlive, Move
<1>4. ASSUME NEW p \in Procs, Unlink(p) PROVE LockInv'
  BY <1>4 DEF Unlink, Move, Judging, Places
<1>5. ASSUME NEW p \in Procs, Recreate(p) PROVE LockInv'
  BY <1>5 DEF Recreate, Move, LockFile, Judging, Places
<1>6. ASSUME NEW p \in Procs, Write(p) PROVE LockInv'
  <2>1. /\ pc[p] = "write" /\ pc' = [pc EXCEPT ![p] = "held"]
        /\ Owns(p) /\ ~lock.stale
        /\ lock' = [lock EXCEPT !.written = TRUE]
    BY <1>6 DEF Write, Move
  <2>2. lock \in Files /\ lock'.owner = p /\ lock'.written /\ ~lock'.stale /\ lock' # NoFile
    BY <2>1
  <2>3. \A q \in Procs \ {p} : pc'[q] = pc[q] /\ pc[q] \notin {"write", "held"}
    BY <2>1
  <2>4. pc'[p] = "held"
    BY <2>1
  <2> QED BY <2>1, <2>2, <2>3, <2>4 DEF Judging, Places
<1>7. ASSUME NEW p \in Procs, Release(p) PROVE LockInv'
  BY <1>7 DEF Release, Move, Judging, Places
<1>8. ASSUME NEW p \in Procs, Crash(p) PROVE LockInv'
  BY <1>8 DEF Crash, Judging, Places
<1>9. CASE Age
  BY <1>9 DEF Age, Judging, Places
<1>10. CASE UNCHANGED vars
  BY <1>10 DEF vars
<1> QED BY <1>1, <1>2, <1>3, <1>4, <1>5, <1>6, <1>7, <1>8, <1>9, <1>10 DEF Next, Step

(* The strengthening holds before the first command.                       *)
LEMMA InitialInv == Init => LockInv
  BY LockAssumption DEF Init, LockInv, Judging

(* Every holder owns the file, so there is one.                            *)
LEMMA InvImpliesMutex == TypeOK /\ LockInv => Mutex
  BY DEF TypeOK, LockInv, Owns, Mutex

\* Either no file gets an hour old, or nobody comes while one is judged.
NoStealRace == ~(Contention /\ Ageing)

(* Who is where says what the lock file is, in every behaviour.            *)
THEOREM LockInvariant == NoStealRace => (Spec => [](TypeOK /\ LockInv))
<1> SUFFICES ASSUME NoStealRace PROVE Spec => [](TypeOK /\ LockInv)
  OBVIOUS
<1>1. Spec => []TypeOK
  BY TypeCorrect
<1>2. TypeOK /\ TypeOK' /\ LockInv /\ [Next]_vars => LockInv'
  BY LockInductive DEF NoStealRace
<1> QED BY <1>1, <1>2, InitialInv, PTL DEF Spec

(* One holder at a time, unless a command may come while another one judges *)
(* an hour-old file: then the run RegimeLockRace shows two.                 *)
THEOREM MutualExclusion == NoStealRace => (Spec => []Mutex)
  BY LockInvariant, InvImpliesMutex, PTL

-----------------------------------------------------------------------------
(* A file that goes is its releasing maker's, or a dead process's.          *)
LEMMA RemovedByOwner ==
  ASSUME NoStealRace, TypeOK, LockInv, [Next]_vars, lock # NoFile, lock' = NoFile
  PROVE  pc[lock.owner] = "dead" \/ (pc[lock.owner] = "held" /\ pc'[lock.owner] = "idle")
<1> USE LockAssumption, LockFileType DEF TypeOK, LockInv, Owns, Files
<1>1. lock \in Files /\ lock.owner \in Procs
  OBVIOUS
<1>2. ASSUME NEW p \in Procs, Unlink(p) PROVE pc[lock.owner] = "dead"
  BY <1>1, <1>2 DEF Unlink, Move
<1>3. ASSUME NEW p \in Procs, Release(p) PROVE pc[lock.owner] = "held" /\ pc'[lock.owner] = "idle"
  BY <1>1, <1>3 DEF Release, Move
<1>4. ASSUME NEW p \in Procs, Write(p) PROVE FALSE
  <2>1. lock' = [lock EXCEPT !.written = TRUE]
    BY <1>4 DEF Write, Move
  <2> QED BY <1>1, <2>1
<1>5. CASE Age
  <2>1. lock' = [lock EXCEPT !.stale = TRUE]
    BY <1>5 DEF Age
  <2> QED BY <1>1, <2>1
<1>6. ASSUME NEW p \in Procs, Create(p) \/ Stat(p) \/ Probe(p) \/ Recreate(p) \/ Crash(p)
      PROVE  FALSE
  BY <1>6 DEF Create, Stat, Probe, Recreate, Crash
<1> QED BY <1>2, <1>3, <1>4, <1>5, <1>6 DEF Next, Step, vars

(* The lock file of a live command goes only when that command releases it. *)
THEOREM OwnerKeepsLock == NoStealRace => (Spec => LiveOwnerKeepsLock)
<1> SUFFICES ASSUME NoStealRace PROVE Spec => LiveOwnerKeepsLock
  OBVIOUS
<1>1. TypeOK /\ LockInv /\ [Next]_vars =>
        [lock # NoFile /\ lock' = NoFile =>
            \/ pc[lock.owner] = "dead"
            \/ pc[lock.owner] = "held" /\ pc'[lock.owner] = "idle"]_vars
  BY RemovedByOwner
<1> QED BY <1>1, LockInvariant, PTL DEF Spec, LiveOwnerKeepsLock
=============================================================================
