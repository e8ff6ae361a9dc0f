----------------------- MODULE RegimeControllerProofs -----------------------
(* The journal makes a ledger of three files: for every queue, any number   *)
(* of interruptions and every command that recovers first, what the files   *)
(* mean changes only by whole transactions of RegimeLedger.  From that:     *)
(* nothing is scored twice and no two tasks are RUNNING in any file, G0 is  *)
(* recorded as one, a dry run means nothing, what is written can be read,   *)
(* and a child is not started beside another.                               *)
EXTENDS RegimeController, RegimeQueueProofs, FiniteSetTheorems

\* The places where cur is the task of a cycle, on the way there included.
Executing == pc \in {"execute", "spawned", "waiting"} \/ (pc \in Committing /\ ret = "execute")

TypeInv == TypeOK /\ (Executing => cur \in Tasks)

\* The part of TypeInv that is about the command.
SessionOK ==
    /\ cmd \in Commands \cup {"none"} /\ pc \in Places /\ ret \in Returns
    /\ mem \in Snapshot
    /\ cur \in Tasks \cup {NoTask} /\ spawn \in Processes
    /\ Executing => cur \in Tasks

\* The rest of it.
WorldOK ==
    /\ disk \in Snapshot
    /\ journal \in Snapshot \cup {NoJournal}
    /\ artifact \in [Tasks -> Artifacts]
    /\ recorded \in [Tasks -> Processes]
    /\ stray \in [Tasks -> Nat]
    /\ resuming \in SUBSET State
    /\ week \in Weeks /\ interrupts \in 0..MaxInterrupts

(* TypeInv is the command's part and the rest.                             *)
LEMMA TypeParts == TypeInv <=> SessionOK /\ WorldOK
  BY DEF TypeInv, TypeOK, SessionOK, WorldOK

(* The same after a step.                                                  *)
LEMMA TypePartsNext == TypeInv' <=> SessionOK' /\ WorldOK'
  BY DEF TypeInv, TypeOK, SessionOK, WorldOK, Executing

(* The files the program starts from have their types.                     *)
LEMMA InitialType == ASSUME NEW paused \in BOOLEAN
                     PROVE  InitialSnapshot(paused) \in Snapshot
  BY InitialAssumption DEF InitialSnapshot, Snapshot, Queue, State, Score, TaskStates

-----------------------------------------------------------------------------
(* Leaving, going on and committing keep the command's types.               *)

(* A command that ends leaves a well-typed empty session.                  *)
LEMMA LeaveOK == ASSUME Leave PROVE SessionOK'
  BY InitialType DEF Leave, SessionOK, Places, Returns, Processes, Executing, Committing

(* Going on at another place keeps the session's types.                    *)
LEMMA GotoOK == ASSUME SessionOK, NEW place \in Places, Goto(place),
                       place = "execute" => cur \in Tasks,
                       place \notin {"spawned", "waiting"},
                       place \in Committing => pc \in Committing
                PROVE  SessionOK'
<1>1. CASE place = "idle"
  BY <1>1, LeaveOK DEF Goto
<1>2. CASE place # "idle"
  BY <1>2 DEF Goto, SessionOK, Executing, Committing
<1> QED BY <1>1, <1>2

(* The same for the places a commit returns to.                            *)
LEMMA GoOnOK == ASSUME SessionOK, NEW place \in Returns \ {"execute"}, Goto(place)
                PROVE  SessionOK'
  BY GotoOK DEF Places, Returns, Committing

(* Calling commit_snapshot keeps the session's types.                      *)
LEMMA CommitOK == ASSUME SessionOK, NEW snap \in Snapshot, NEW next \in Returns \ {"execute"},
                         Commit(snap, next)
                  PROVE  SessionOK'
  BY DEF Commit, SessionOK, Executing, Committing, Places, Returns

-----------------------------------------------------------------------------
(* Type correctness, one lemma for each group of actions.                   *)

(* What no action touches keeps its types.                                 *)
LEMMA StoreUnchanged == ASSUME WorldOK, UNCHANGED <<storeVars, labVars, envVars>>
                        PROVE  WorldOK'
  BY DEF WorldOK, storeVars, labVars, envVars

(* The five writes of commit_snapshot keep the types.                      *)
LEMMA CommitStepType == ASSUME SessionOK, WorldOK, CommitStep PROVE SessionOK' /\ WorldOK'
<1> USE DEF labVars, envVars, WorldOK
<1>1. CASE WriteJournal
  <2>1. SessionOK'
    BY <1>1, GotoOK DEF WriteJournal, Places, Returns, Committing
  <2> QED BY <1>1, <2>1 DEF WriteJournal, SessionOK
<1>2. CASE WriteQueue
  <2>1. SessionOK'
    BY <1>2, GotoOK DEF WriteQueue, Places, Returns, Committing
  <2> QED BY <1>2, <2>1 DEF WriteQueue, SessionOK, Snapshot
<1>3. CASE WriteState
  <2>1. SessionOK'
    BY <1>3, GotoOK DEF WriteState, Places, Returns, Committing
  <2> QED BY <1>3, <2>1 DEF WriteState, SessionOK, Snapshot
<1>4. CASE WriteScore
  <2>1. SessionOK'
    BY <1>4, GotoOK DEF WriteScore, Places, Returns, Committing
  <2> QED BY <1>4, <2>1 DEF WriteScore, SessionOK, Snapshot
<1>5. CASE DropJournal
  <2>1. SessionOK'
    BY <1>5, GotoOK DEF DropJournal, Places, Returns, Committing, SessionOK, Executing
  <2> QED BY <1>5, <2>1 DEF DropJournal
<1> QED BY <1>1, <1>2, <1>3, <1>4, <1>5 DEF CommitStep

(* The steps of cycle before and after execution keep the types.           *)
LEMMA CycleType ==
    ASSUME SessionOK, WorldOK, Recover \/ RecoverOrphans \/ Plan \/ SelectTask \/ Again
    PROVE  SessionOK' /\ WorldOK'
<1>1. CASE Recover
  <2> DEFINE next == CASE cmd = "cycle" -> "orphans" [] cmd = "dry-run" -> "plan" [] OTHER -> "body"
  <2>1. next \in {"orphans", "plan", "body"}
    OBVIOUS
  <2>2. next \in Returns \ {"execute"}
    BY <2>1 DEF Returns
  <2>3. Goto(next) \/ (journal \in Snapshot /\ Commit(journal, next)) \/ Leave
    BY <1>1 DEF Recover, WorldOK
  <2>4. SessionOK'
    BY <2>2, <2>3, GoOnOK, CommitOK, LeaveOK
  <2> QED BY <1>1, <2>4, StoreUnchanged DEF Recover
<1>2. CASE RecoverOrphans
  <2> DEFINE next == IF cmd = "cycle" THEN "plan" ELSE "idle"
  <2>1. next \in Returns \ {"execute"}
    BY DEF Returns
  <2>2. Goto(next) \/ Commit(Retried(disk), next) \/ Leave
    BY <1>2 DEF RecoverOrphans
  <2>3. SessionOK'
    BY <2>1, <2>2, RetriedType, GoOnOK, CommitOK, LeaveOK DEF WorldOK
  <2> QED BY <1>2, <2>3, StoreUnchanged DEF RecoverOrphans
<1>3. CASE Plan
  <2> DEFINE released == WithTasks(disk, Released(disk.queue.task))
  <2>1. released \in Snapshot
    BY ReleasedType, WithTasksType DEF WorldOK, Snapshot, Queue
  <2>2. CASE Leave \/ Commit(released, "select")
    BY <2>1, <2>2, LeaveOK, CommitOK, <1>3, StoreUnchanged DEF Plan, Places, Returns
  <2>3. CASE pc' = "select" /\ mem' = released /\ UNCHANGED <<cmd, ret, cur, spawn>>
    <3>1. SessionOK'
      BY <2>1, <2>3 DEF SessionOK, Executing, Committing, Places, Returns
    <3> QED BY <3>1, <1>3, StoreUnchanged DEF Plan
  <2> QED BY <1>3, <2>2, <2>3 DEF Plan
<1>4. CASE SelectTask
  <2>1. CASE Leave
    BY <2>1, <1>4, LeaveOK, StoreUnchanged DEF SelectTask
  <2>2. ASSUME NEW t \in Select(mem.queue, week), pc' = "journal", mem' = Started(mem, t),
               ret' = "execute", cur' = t, UNCHANGED <<cmd, spawn>>
        PROVE  SessionOK'
    <3>1. t \in Tasks
      BY DEF Select, Candidates
    <3> QED BY <2>2, <3>1, StartedType DEF SessionOK, Executing, Committing, Places, Returns
  <2> QED BY <1>4, <2>1, <2>2, StoreUnchanged DEF SelectTask
<1>5. CASE Again
  <2>1. CASE Leave
    BY <2>1, <1>5, LeaveOK, StoreUnchanged DEF Again
  <2>2. CASE pc' = "recover" /\ cur' = NoTask /\ UNCHANGED <<cmd, mem, ret, spawn>>
    <3>1. SessionOK'
      BY <2>2 DEF SessionOK, Executing, Committing, Places, Returns
    <3> QED BY <3>1, <1>5, StoreUnchanged DEF Again
  <2> QED BY <1>5, <2>1, <2>2 DEF Again
<1> QED BY <1>1, <1>2, <1>3, <1>4, <1>5

(* Committing an outcome keeps the session's types.                        *)
LEMMA OutcomesType == ASSUME SessionOK, WorldOK, Executing, NEW outcome \in Ledger!Outcomes, Finish(outcome)
                      PROVE  SessionOK'
  BY FinishedType, CommitOK DEF Finish, SessionOK, WorldOK, Ledger!Outcomes, TaskStates, Returns

(* A captured child yields one of three outcomes.                          *)
LEMMA CapturedOutcome == Captured \in {"ADAPTER_NOT_CONFIGURED", "TERMINAL", "FAILED"}
  BY DEF Captured

(* Execution and its children keep the types.                              *)
LEMMA ExecuteType == ASSUME SessionOK, WorldOK, Execute PROVE SessionOK' /\ WorldOK'
<1> USE DEF Ledger!Outcomes
<1>1. CASE ExecutePhaseZero
  <2>1. Executing
    BY <1>1 DEF ExecutePhaseZero, Executing
  <2>2. SessionOK'
    BY <1>1, <2>1, OutcomesType, LeaveOK DEF ExecutePhaseZero
  <2> QED BY <1>1, <2>2, StoreUnchanged DEF ExecutePhaseZero
<1>2. CASE ExecuteLocal
  <2>1. Executing
    BY <1>2 DEF ExecuteLocal, Executing
  <2>2. SessionOK'
    BY <1>2, <2>1, OutcomesType, LeaveOK DEF ExecuteLocal
  <2>3. WorldOK'
    BY <1>2 DEF ExecuteLocal, WorldOK, storeVars, envVars, Artifacts
  <2> QED BY <2>2, <2>3
<1>3. CASE ExecuteUnmapped
  <2>1. Executing
    BY <1>3 DEF ExecuteUnmapped, Executing
  <2>2. SessionOK'
    BY <1>3, <2>1, OutcomesType DEF ExecuteUnmapped
  <2> QED BY <1>3, <2>2, StoreUnchanged DEF ExecuteUnmapped
<1>4. CASE Spawn
  <2>1. SessionOK'
    BY <1>4 DEF Spawn, SessionOK, Executing, Committing, Places, Processes
  <2> QED BY <1>4, <2>1, StoreUnchanged DEF Spawn
<1>5. CASE RecordProcess
  <2>1. SessionOK'
    BY <1>5 DEF RecordProcess, SessionOK, Executing, Committing, Places, Processes
  <2>2. WorldOK'
    <3>1. stray \in [Tasks -> Nat] /\ cur \in Tasks
      BY <1>5 DEF RecordProcess, SessionOK, WorldOK, Executing
    <3>2. stray' = stray \/ stray' = [stray EXCEPT ![cur] = @ + 1]
      BY <1>5 DEF RecordProcess
    <3>3. stray' \in [Tasks -> Nat]
      BY <3>1, <3>2
    <3> QED BY <1>5, <3>3 DEF RecordProcess, SessionOK, WorldOK, storeVars, envVars
  <2> QED BY <2>1, <2>2
<1>6. CASE Collect
  <2>1. Executing
    BY <1>6 DEF Collect, Executing
  <2>2. SessionOK'
    BY <1>6, <2>1, OutcomesType, CapturedOutcome DEF Collect
  <2> QED BY <1>6, <2>2, StoreUnchanged DEF Collect
<1>7. CASE Timeout
  <2>1. Executing
    BY <1>7 DEF Timeout, Executing
  <2>2. SessionOK'
    BY <1>7, <2>1, OutcomesType DEF Timeout
  <2>3. WorldOK'
    BY <1>7, <2>1 DEF Timeout, WorldOK, SessionOK, storeVars, envVars, Artifacts, Processes
  <2> QED BY <2>2, <2>3
<1>8. CASE ExecuteInventory
  <2>1. Executing
    BY <1>8 DEF ExecuteInventory, Executing
  <2>2. SessionOK'
    BY <1>8, <2>1, OutcomesType, LeaveOK DEF ExecuteInventory
  <2>3. WorldOK'
    BY <1>8 DEF ExecuteInventory, WorldOK, storeVars, envVars, Artifacts
  <2> QED BY <2>2, <2>3
<1> QED BY <1>1, <1>2, <1>3, <1>4, <1>5, <1>6, <1>7, <1>8 DEF Execute

(* The one-commit commands keep the types.                                 *)
LEMMA BodyType == ASSUME SessionOK, WorldOK, Body PROVE SessionOK' /\ WorldOK'
<1>0. disk \in Snapshot /\ disk.queue.task \in [Tasks -> TaskStates]
  BY DEF WorldOK, Snapshot, Queue
<1>1. ASSUME NEW snap \in Snapshot, Commit(snap, "idle") PROVE SessionOK'
  BY <1>1, CommitOK DEF Returns
<1>2. ASSUME RecordG0 PROVE SessionOK'
  BY <1>0, <1>1, <1>2, G0PassedType, LeaveOK DEF RecordG0
<1>3. ASSUME MaterializeCatalog PROVE SessionOK'
  <2> DEFINE seeded == WithTasks(disk, Materialized(disk.queue.task))
  <2>1. seeded \in Snapshot
    BY <1>0, MaterializedType, WithTasksType
  <2>2. Commit(seeded, "idle") \/ Leave
    BY <1>3 DEF MaterializeCatalog
  <2> QED BY <2>1, <2>2, <1>1, LeaveOK
<1>4. ASSUME EnqueueTask PROVE SessionOK'
  <2>1. ASSUME NEW t \in Appended
        PROVE  [disk EXCEPT !.queue.task[t] = "READY"] \in Snapshot
    BY <1>0 DEF Snapshot, Queue, TaskStates
  <2> QED BY <1>1, <1>4, <2>1, LeaveOK DEF EnqueueTask
<1>5. ASSUME RecoverExistingG1 PROVE SessionOK'
  <2> DEFINE recovered == WithTasks(disk, G1Recovered(disk.queue.task))
  <2>1. recovered \in Snapshot
    BY <1>0, G1RecoveredType, WithTasksType
  <2>2. Commit(recovered, "idle") \/ Leave
    BY <1>5 DEF RecoverExistingG1
  <2> QED BY <2>1, <2>2, <1>1, LeaveOK
<1>6. ASSUME ReconcileG1 PROVE SessionOK'
  <2> DEFINE reconciled == WithTasks(disk, Reconciled(disk.queue.task, artifact[Gate]))
  <2>1. reconciled \in Snapshot
    BY <1>0, ReconciledType, WithTasksType
  <2>2. Commit(reconciled, "idle") \/ Leave
    BY <1>6 DEF ReconcileG1
  <2> QED BY <2>1, <2>2, <1>1, LeaveOK
<1>7. SessionOK'
  BY <1>2, <1>3, <1>4, <1>5, <1>6 DEF Body
<1> QED BY <1>7, StoreUnchanged DEF Body

(* Starting a command keeps the types.                                     *)
LEMMA StartType == ASSUME SessionOK, WorldOK, NEW c \in Commands, Start(c)
                   PROVE  SessionOK' /\ WorldOK'
<1>1. SessionOK'
  BY DEF Start, SessionOK, Executing, Committing, Places, Returns
<1> QED BY <1>1, StoreUnchanged DEF Start

(* Resume, children, interruptions and weeks keep the types.               *)
LEMMA AroundType ==
    ASSUME SessionOK, WorldOK, ResumeRead \/ ResumeWrite \/ ChildExits \/ Interrupt \/ NextWeek
    PROVE  SessionOK' /\ WorldOK'
<1> USE DEF storeVars, labVars, sessionVars, envVars
<1>1. CASE ResumeRead
  BY <1>1 DEF ResumeRead, SessionOK, WorldOK, Executing, Snapshot
<1>2. CASE ResumeWrite
  <2>1. PICK state \in resuming : disk' = [disk EXCEPT !.state = [state EXCEPT !.paused = FALSE]]
    BY <1>2 DEF ResumeWrite
  <2>2. disk' \in Snapshot
    BY <2>1 DEF WorldOK, Snapshot, State
  <2> QED BY <1>2, <2>2 DEF ResumeWrite, SessionOK, WorldOK, Executing
<1>3. CASE ChildExits
  <2> USE <1>3 DEF ChildExits, WorldOK, SessionOK, Executing
  <2>1. artifact' \in [Tasks -> Artifacts]
    BY DEF Artifacts
  <2>2. recorded' \in [Tasks -> Processes] /\ spawn' \in Processes
    BY DEF Processes
  <2>3. stray' \in [Tasks -> Nat]
    OBVIOUS
  <2> QED BY <2>1, <2>2, <2>3
<1>4. CASE Interrupt
  <2>1. interrupts' \in 0..MaxInterrupts
    BY <1>4, ControllerAssumption DEF Interrupt, WorldOK
  <2>2. stray' \in [Tasks -> Nat]
    <3>1. stray' = stray \/ stray' = [stray EXCEPT ![cur] = @ + 1]
      BY <1>4 DEF Interrupt
    <3>2. \A t \in Tasks : stray[t] \in Nat /\ stray[t] + 1 \in Nat
      BY DEF WorldOK
    <3> QED BY <3>1, <3>2 DEF WorldOK
  <2>3. WorldOK'
    BY <1>4, <2>1, <2>2 DEF Interrupt, WorldOK
  <2> QED BY <1>4, <2>3, LeaveOK DEF Interrupt
<1>5. CASE NextWeek
  BY <1>5 DEF NextWeek, SessionOK, WorldOK, Executing
<1> QED BY <1>1, <1>2, <1>3, <1>4, <1>5

(* Types, and an executing command has a task, in every behaviour.         *)
THEOREM TypeInvariant == Spec => []TypeInv
<1>1. Init => TypeInv
  <2> SUFFICES ASSUME Init PROVE SessionOK /\ WorldOK
    BY TypeParts
  <2>1. SessionOK
    BY InitialType DEF Init, SessionOK, Executing, Committing, Places, Returns, Processes
  <2>2. artifact \in [Tasks -> Artifacts] /\ recorded \in [Tasks -> Processes] /\ stray \in [Tasks -> Nat]
    BY DEF Init, Artifacts, Processes
  <2>3. disk \in Snapshot /\ journal \in Snapshot \cup {NoJournal} /\ resuming \in SUBSET State
    BY InitialType DEF Init
  <2>4. week \in Weeks /\ interrupts \in 0..MaxInterrupts
    BY ControllerAssumption DEF Init
  <2> QED BY <2>1, <2>2, <2>3, <2>4 DEF WorldOK
<1>2. TypeInv /\ [Next]_vars => TypeInv'
  <2> SUFFICES ASSUME SessionOK, WorldOK, [Next]_vars PROVE SessionOK' /\ WorldOK'
    BY TypeParts, TypePartsNext
  <2>1. CASE CommandStep
    BY <2>1, CommitStepType, CycleType, ExecuteType, BodyType DEF CommandStep
  <2>2. CASE UNCHANGED vars
    BY <2>2 DEF vars, storeVars, labVars, sessionVars, envVars, SessionOK, WorldOK, Executing
  <2> QED BY <2>1, <2>2, StartType, AroundType DEF Next
<1> QED BY <1>1, <1>2, PTL DEF Spec

(* The variables keep their types, whatever is interrupted and resumed.     *)
THEOREM ControllerTypes == Spec => []TypeOK
<1>1. TypeInv => TypeOK
  BY DEF TypeInv
<1> QED BY <1>1, TypeInvariant, PTL

-----------------------------------------------------------------------------
(* The journal.  RecoveringOnly is what the theorems below assume: every    *)
(* command calls recover() first and nobody writes the state file unlocked. *)

RecoveringOnly == Commands \subseteq Recovering /\ ~Unlocked

\* b is a transaction of RegimeLedger away from a: its actions, of the
\* commands that recover, as a relation between snapshots.
Transaction(a, b) ==
    \/ b = WithTasks(a, Released(a.queue.task))
    \/ \E t \in Tasks :
            /\ ~a.state.paused /\ Running(a.queue.task) = {} /\ t \in Candidates(a.queue.task)
            /\ b = Started(a, t)
    \/ \E t \in Tasks, outcome \in Ledger!Outcomes, w \in Weeks :
            a.queue.task[t] = "RUNNING" /\ b = Finished(a, t, outcome, w)
    \/ Running(a.queue.task) # {} /\ b = Retried(a)
    \/ a.state.phase = 0 /\ b = G0Passed(a)
    \/ b = WithTasks(a, Materialized(a.queue.task))
    \/ \E t \in Appended :
            /\ a.state.phase = 1 /\ a.queue.task[t] = "ABSENT"
            /\ b = [a EXCEPT !.queue.task[t] = "READY"]

\* While the command works on its copy no journal is pending.
Working == {"orphans", "plan", "select", "execute", "spawned", "waiting", "body", "again"}

\* The files follow the journal in this order.
CommitInv ==
    /\ pc \in Working => journal = NoJournal
    /\ pc = "journal" => journal = mem \/ (journal = NoJournal /\ Transaction(disk, mem))
    /\ pc \in Committing \ {"journal"} => journal = mem
    /\ pc \in {"state", "score", "drop"} => disk.queue = mem.queue
    /\ pc \in {"score", "drop"} => disk.state = mem.state
    /\ pc = "drop" => disk.score = mem.score

\* What the copy is to the files, at pc and on the way to `place`.
At(place) == pc = place \/ (pc \in Committing /\ ret = place)

CopyInv ==
    /\ cmd \in Recovering \cup {"none"}
    /\ At("plan") \/ At("select") => cmd \in {"cycle", "dry-run"}
    /\ cmd = "cycle" =>
        /\ pc \in {"plan", "select"} => Running(disk.queue.task) = {}
        /\ pc \in Committing /\ ret \in {"plan", "select"} => Running(mem.queue.task) = {}
        /\ pc = "select" => mem = disk
    /\ At("select") /\ pc # "select" => cmd = "cycle"
    /\ pc \in {"execute", "spawned", "waiting"} => mem = disk
    /\ Executing => mem.queue.task[cur] = "RUNNING"

JournalInv == resuming = {} /\ CommitInv /\ CopyInv

(* There is no journal and no copy at the start.                           *)
LEMMA JournalInitially == Init => JournalInv
  BY DEF Init, JournalInv, CommitInv, CopyInv, Working, Committing, Executing, At

(* A command may end anywhere: what it leaves on disk is in order.         *)
LEMMA LeaveKeeps == ASSUME JournalInv, Leave, UNCHANGED resuming PROVE JournalInv'
  BY DEF Leave, JournalInv, CommitInv, CopyInv, Working, Committing, Executing, At

(* A command that commits a transaction of the files keeps the invariant.  *)
LEMMA CommitKeeps ==
    ASSUME JournalInv, UNCHANGED <<disk, journal, resuming>>, journal = NoJournal,
           NEW snap, NEW next \in Returns \ {"execute"}, Commit(snap, next),
           Transaction(disk, snap),
           next \in {"plan", "select"} => cmd = "cycle" /\ Running(snap.queue.task) = {}
    PROVE  JournalInv'
<1> USE DEF JournalInv
<1>1. /\ pc' = "journal" /\ mem' = snap /\ ret' = next
      /\ cmd' = cmd /\ cur' = cur /\ spawn' = spawn
  BY DEF Commit
<1>2. CommitInv'
  BY <1>1 DEF CommitInv, Working, Committing
<1>3. CopyInv'
  BY <1>1 DEF CopyInv, Executing, At, Committing, Returns
<1> QED BY <1>2, <1>3

(* Each of the five writes keeps files and journal in step.                *)
LEMMA CommitStepKeeps ==
    ASSUME RecoveringOnly, SessionOK, WorldOK, JournalInv, CommitStep
    PROVE  JournalInv'
<1>0. mem \in Snapshot /\ disk \in Snapshot /\ mem # NoJournal /\ resuming' = resuming
  BY ControllerAssumption DEF SessionOK, WorldOK, CommitStep, WriteJournal, WriteQueue,
     WriteState, WriteScore, DropJournal, envVars
<1> DEFINE GoOn(place) == pc' = place /\ UNCHANGED <<cmd, mem, ret, cur, spawn>>
<1> USE <1>0 DEF JournalInv
<1>1. CASE WriteJournal
  <2>1. pc = "journal" /\ GoOn("queue") /\ journal' = mem /\ disk' = disk
    BY <1>1 DEF WriteJournal, Goto
  <2> QED BY <2>1 DEF CommitInv, CopyInv, Working, Committing, Executing, At
<1>2. CASE WriteQueue
  <2>1. /\ pc = "queue" /\ GoOn("state") /\ journal' = journal
        /\ disk' = [disk EXCEPT !.queue = mem.queue]
    BY <1>2 DEF WriteQueue, Goto
  <2>2. disk'.queue = mem.queue
    BY <2>1 DEF Snapshot
  <2> QED BY <2>1, <2>2 DEF CommitInv, CopyInv, Working, Committing, Executing, At
<1>3. CASE WriteState
  <2>1. /\ pc = "state" /\ GoOn("score") /\ journal' = journal
        /\ disk' = [disk EXCEPT !.state = mem.state]
    BY <1>3 DEF WriteState, Goto
  <2>2. disk'.state = mem.state /\ disk'.queue = disk.queue
    BY <2>1 DEF Snapshot
  <2> QED BY <2>1, <2>2 DEF CommitInv, CopyInv, Working, Committing, Executing, At
<1>4. CASE WriteScore
  <2>1. /\ pc = "score" /\ GoOn("drop") /\ journal' = journal
        /\ disk' = [disk EXCEPT !.score = mem.score]
    BY <1>4 DEF WriteScore, Goto
  <2>2. disk'.score = mem.score /\ disk'.queue = disk.queue /\ disk'.state = disk.state
    BY <2>1 DEF Snapshot
  <2> QED BY <2>1, <2>2 DEF CommitInv, CopyInv, Working, Committing, Executing, At
<1>5. CASE DropJournal
  <2>1. pc = "drop" /\ Goto(ret) /\ journal' = NoJournal /\ disk' = disk
    BY <1>5 DEF DropJournal
  <2>2. disk = mem
    BY <2>1 DEF CommitInv, Snapshot
  <2>3. CASE ret = "idle"
    BY <2>1, <2>3, LeaveKeeps DEF Goto
  <2>4. CASE ret # "idle"
    <3>1. GoOn(ret)
      BY <2>1, <2>4 DEF Goto
    <3>2. ret \in Returns
      BY DEF SessionOK
    <3>3. CommitInv'
      BY <2>1, <3>1, <3>2 DEF CommitInv, Working, Committing, Returns
    <3>4. CopyInv'
      BY <2>1, <2>2, <3>1, <3>2 DEF CopyInv, Committing, Returns, Executing, At
    <3> QED BY <3>3, <3>4
  <2> QED BY <2>3, <2>4
<1> QED BY <1>1, <1>2, <1>3, <1>4, <1>5 DEF CommitStep

\* Releasing and retrying leave nothing RUNNING that is not.
(* A release runs nothing.                                                  *)
LEMMA ReleasedRunning == ASSUME NEW ts PROVE Running(Released(ts)) = Running(ts)
  BY DEF Running, Released

(* After a retry no task is RUNNING.                                       *)
LEMMA RetriedRunning == ASSUME NEW snap \in Snapshot PROVE Running(Retried(snap).queue.task) = {}
  BY DEF Running, Retried, WithTasks, Snapshot, Queue

(* The steps of cycle outside execution commit transactions only.          *)
LEMMA CycleKeeps ==
    ASSUME RecoveringOnly, SessionOK, WorldOK, JournalInv,
           Recover \/ RecoverOrphans \/ Plan \/ SelectTask \/ Again
    PROVE  JournalInv'
<1>0. UNCHANGED <<disk, journal, resuming>>
  BY DEF Recover, RecoverOrphans, Plan, SelectTask, Again, storeVars, envVars
<1>1. CASE Recover
  <2> DEFINE next == CASE cmd = "cycle" -> "orphans" [] cmd = "dry-run" -> "plan" [] OTHER -> "body"
  <2>1. pc = "recover"
    BY <1>1 DEF Recover
  <2>2. next \in {"orphans", "plan", "body"} /\ (next = "plan" => cmd = "dry-run")
    OBVIOUS
  <2>3. CASE journal = NoJournal /\ Goto(next)
    <3>1. pc' = next /\ UNCHANGED <<cmd, mem, ret, cur, spawn>>
      BY <2>2, <2>3 DEF Goto
    <3> HIDE DEF next
    <3>2. CommitInv'
      BY <1>0, <2>2, <2>3, <3>1 DEF CommitInv, Working, Committing
    <3>3. CopyInv'
      BY <1>0, <2>2, <3>1 DEF JournalInv, CopyInv, Executing, At, Committing
    <3> QED BY <1>0, <3>2, <3>3 DEF JournalInv
  <2>4. CASE journal # NoJournal /\ Commit(journal, next)
    <3>1. /\ pc' = "journal" /\ mem' = journal /\ ret' = next
          /\ UNCHANGED <<cmd, cur, spawn>>
      BY <2>4 DEF Commit
    <3> HIDE DEF next
    <3>2. CommitInv'
      BY <1>0, <3>1 DEF CommitInv, Working, Committing
    <3>3. CopyInv'
      BY <1>0, <2>2, <3>1 DEF JournalInv, CopyInv, Executing, At, Committing
    <3> QED BY <1>0, <3>2, <3>3 DEF JournalInv
  <2>5. CASE Leave
    BY <1>0, <2>5, LeaveKeeps
  <2> QED BY <1>1, <2>3, <2>4, <2>5 DEF Recover
<1>2. CASE RecoverOrphans
  <2> DEFINE next == IF cmd = "cycle" THEN "plan" ELSE "idle"
  <2>1. pc = "orphans" /\ journal = NoJournal
    BY <1>2 DEF RecoverOrphans, JournalInv, CommitInv, Working
  <2>2. CASE Running(disk.queue.task) = {} /\ Goto(next)
    <3>1. CASE cmd = "cycle"
      <4>1. pc' = "plan" /\ UNCHANGED <<cmd, mem, ret, cur, spawn>>
        BY <2>2, <3>1 DEF Goto
      <4>2. CommitInv'
        BY <1>0, <2>1, <4>1 DEF CommitInv, Working, Committing
      <4>3. CopyInv'
        BY <1>0, <2>2, <3>1, <4>1 DEF JournalInv, CopyInv, Executing, At, Committing
      <4> QED BY <1>0, <4>2, <4>3 DEF JournalInv
    <3>2. CASE cmd # "cycle"
      BY <1>0, <2>2, <3>2, LeaveKeeps DEF Goto
    <3> QED BY <3>1, <3>2
  <2>3. CASE Running(disk.queue.task) # {} /\ Commit(Retried(disk), next)
    <3>1. Transaction(disk, Retried(disk))
      BY <2>3 DEF Transaction
    <3>2. Running(Retried(disk).queue.task) = {}
      BY RetriedRunning DEF WorldOK
    <3>3. next \in Returns \ {"execute"} /\ (next \in {"plan", "select"} => cmd = "cycle")
      BY DEF Returns
    <3> HIDE DEF next
    <3> QED BY <1>0, <2>1, <2>3, <3>1, <3>2, <3>3, CommitKeeps
  <2>4. CASE Leave
    BY <1>0, <2>4, LeaveKeeps
  <2> QED BY <1>2, <2>2, <2>3, <2>4 DEF RecoverOrphans
<1>3. CASE Plan
  <2> DEFINE released == WithTasks(disk, Released(disk.queue.task))
  <2>1. pc = "plan" /\ journal = NoJournal
    BY <1>3 DEF Plan, JournalInv, CommitInv, Working
  <2>2. Transaction(disk, released)
    BY DEF Transaction
  <2>3. cmd = "cycle" => Running(disk.queue.task) = {}
    BY <2>1 DEF JournalInv, CopyInv
  <2>4. released.queue.task = Released(disk.queue.task)
    BY DEF WithTasks, WorldOK, Snapshot, Queue
  <2>5. Running(released.queue.task) = Running(disk.queue.task)
    BY <2>4, ReleasedRunning
  <2> HIDE DEF released
  <2>6. CASE cmd = "cycle" /\ Commit(released, "select")
    BY <1>0, <2>1, <2>2, <2>3, <2>5, <2>6, CommitKeeps DEF Returns
  <2>7. CASE (cmd = "dry-run" \/ released = disk) /\ pc' = "select" /\ mem' = released
             /\ UNCHANGED <<cmd, ret, cur, spawn>>
    <3>1. CommitInv'
      BY <1>0, <2>1, <2>7 DEF CommitInv, Working, Committing
    <3>2. CopyInv'
      BY <1>0, <2>1, <2>3, <2>7 DEF JournalInv, CopyInv, Executing, At, Committing
    <3> QED BY <1>0, <3>1, <3>2 DEF JournalInv
  <2>8. CASE Leave
    BY <1>0, <2>8, LeaveKeeps
  <2> QED BY <1>3, <2>6, <2>7, <2>8 DEF Plan, released
<1>4. CASE SelectTask
  <2>1. pc = "select" /\ journal = NoJournal
    BY <1>4 DEF SelectTask, JournalInv, CommitInv, Working
  <2>2. ASSUME NEW t \in Select(mem.queue, week), cmd # "dry-run", ~mem.state.paused,
               pc' = "journal", mem' = Started(mem, t), ret' = "execute", cur' = t,
               UNCHANGED <<cmd, spawn>>
        PROVE  JournalInv'
    <3>1. cmd = "cycle" /\ mem = disk /\ Running(disk.queue.task) = {}
      BY <2>1, <2>2 DEF JournalInv, CopyInv, At
    <3>2. t \in Tasks /\ t \in Candidates(mem.queue.task)
      BY DEF Select, Candidates
    <3>3. Transaction(disk, mem')
      BY <2>2, <3>1, <3>2 DEF Transaction
    <3>4. mem'.queue.task[t] = "RUNNING"
      BY <2>2, <3>2 DEF Started, SessionOK, Snapshot, Queue
    <3>5. CommitInv'
      BY <1>0, <2>1, <2>2, <3>3 DEF CommitInv, Working, Committing
    <3>6. CopyInv'
      BY <1>0, <2>2, <3>1, <3>4 DEF JournalInv, CopyInv, Executing, At, Committing
    <3> QED BY <1>0, <3>5, <3>6 DEF JournalInv
  <2>3. CASE Leave
    BY <1>0, <2>3, LeaveKeeps
  <2> QED BY <1>4, <2>2, <2>3 DEF SelectTask
<1>5. CASE Again
  <2>1. CASE Leave
    BY <1>0, <2>1, LeaveKeeps
  <2>2. CASE pc' = "recover" /\ cur' = NoTask /\ UNCHANGED <<cmd, mem, ret, spawn>>
    BY <1>0, <2>2 DEF JournalInv, CommitInv, CopyInv, Working, Committing, Executing, At
  <2> QED BY <1>5, <2>1, <2>2 DEF Again
<1> QED BY <1>1, <1>2, <1>3, <1>4, <1>5

\* An outcome ends the execution of a task that is RUNNING in the files.
(* A finished task keeps the invariant.                                     *)
LEMMA FinishKeeps ==
    ASSUME SessionOK, WorldOK, JournalInv, UNCHANGED <<disk, journal, resuming>>,
           pc \in {"execute", "spawned", "waiting"},
           NEW outcome \in Ledger!Outcomes, Finish(outcome)
    PROVE  JournalInv'
<1>1. journal = NoJournal /\ mem = disk /\ cur \in Tasks /\ mem.queue.task[cur] = "RUNNING"
  BY DEF JournalInv, CommitInv, CopyInv, Working, Executing, SessionOK
<1>2. Transaction(disk, Finished(mem, cur, outcome, week))
  BY <1>1 DEF Transaction, WorldOK
<1> QED BY <1>1, <1>2, CommitKeeps DEF Finish, Returns

(* Execution commits the outcome of the RUNNING task and nothing else.     *)
LEMMA ExecuteKeeps == ASSUME RecoveringOnly, SessionOK, WorldOK, JournalInv, Execute
                      PROVE  JournalInv'
<1>0. UNCHANGED <<disk, journal, resuming>>
  BY DEF Execute, ExecutePhaseZero, ExecuteLocal, ExecuteInventory, ExecuteUnmapped, Spawn, RecordProcess,
     Collect, Timeout, storeVars, envVars
<1> USE <1>0 DEF Ledger!Outcomes
<1>1. CASE ExecutePhaseZero
  BY <1>1, FinishKeeps, LeaveKeeps DEF ExecutePhaseZero
<1>2. CASE ExecuteLocal
  BY <1>2, FinishKeeps, LeaveKeeps DEF ExecuteLocal
<1>3. CASE ExecuteUnmapped
  BY <1>3, FinishKeeps DEF ExecuteUnmapped
<1>4. CASE Spawn
  BY <1>4 DEF Spawn, JournalInv, CommitInv, CopyInv, Working, Committing, Executing, At
<1>5. CASE RecordProcess
  BY <1>5 DEF RecordProcess, JournalInv, CommitInv, CopyInv, Working, Committing, Executing, At
<1>6. CASE Collect
  BY <1>6, FinishKeeps, CapturedOutcome DEF Collect
<1>7. CASE Timeout
  BY <1>7, FinishKeeps DEF Timeout
<1>8. CASE ExecuteInventory
  BY <1>8, FinishKeeps, LeaveKeeps DEF ExecuteInventory
<1> QED BY <1>1, <1>2, <1>3, <1>4, <1>5, <1>6, <1>7, <1>8 DEF Execute

(* The recovering one-commit commands commit transactions only.            *)
LEMMA BodyKeeps == ASSUME RecoveringOnly, SessionOK, WorldOK, JournalInv, Body
                   PROVE  JournalInv'
<1>1. /\ UNCHANGED <<disk, journal, resuming>> /\ journal = NoJournal
      /\ cmd \in Recovering \cup {"none"}
  BY DEF Body, storeVars, envVars, JournalInv, CommitInv, CopyInv, Working
<1>2. ASSUME NEW snap, Transaction(disk, snap), Commit(snap, "idle") PROVE JournalInv'
  BY <1>1, <1>2, CommitKeeps DEF Returns
<1>3. ASSUME RecordG0 PROVE JournalInv'
  <2>1. CASE disk.state.phase = 0 /\ Commit(G0Passed(disk), "idle")
    BY <1>2, <2>1 DEF Transaction
  <2>2. CASE Leave
    BY <1>1, <2>2, LeaveKeeps
  <2> QED BY <1>3, <2>1, <2>2 DEF RecordG0
<1>4. ASSUME MaterializeCatalog PROVE JournalInv'
  <2> DEFINE seeded == WithTasks(disk, Materialized(disk.queue.task))
  <2>1. Transaction(disk, seeded)
    BY DEF Transaction
  <2>2. Commit(seeded, "idle") \/ Leave
    BY <1>4 DEF MaterializeCatalog
  <2> QED BY <1>1, <1>2, <2>1, <2>2, LeaveKeeps
<1>5. ASSUME EnqueueTask PROVE JournalInv'
  <2>1. CASE \E t \in Appended :
            /\ disk.state.phase = 1 /\ disk.queue.task[t] = "ABSENT"
            /\ Commit([disk EXCEPT !.queue.task[t] = "READY"], "idle")
    <3>1. PICK t \in Appended :
            /\ disk.state.phase = 1 /\ disk.queue.task[t] = "ABSENT"
            /\ Commit([disk EXCEPT !.queue.task[t] = "READY"], "idle")
      BY <2>1
    <3>2. Transaction(disk, [disk EXCEPT !.queue.task[t] = "READY"])
      BY <3>1 DEF Transaction
    <3> QED BY <1>2, <3>1, <3>2
  <2>2. CASE Leave
    BY <1>1, <2>2, LeaveKeeps
  <2> QED BY <1>5, <2>1, <2>2 DEF EnqueueTask
<1>6. ~RecoverExistingG1 /\ ~ReconcileG1
  BY <1>1 DEF RecoverExistingG1, ReconcileG1, Recovering
<1> QED BY <1>3, <1>4, <1>5, <1>6 DEF Body

(* What happens around a command leaves files and journal in step.         *)
LEMMA AroundKeeps ==
    ASSUME RecoveringOnly, JournalInv,
           (\E c \in Commands : Start(c)) \/ ResumeRead \/ ResumeWrite \/ ChildExits \/ Interrupt \/ NextWeek
    PROVE  JournalInv'
<1>1. CASE \E c \in Commands : Start(c)
  <2>1. PICK c \in Recovering : Start(c)
    BY <1>1 DEF RecoveringOnly
  <2>2. cmd' = c /\ pc' = "recover" /\ UNCHANGED <<disk, journal, resuming>>
    BY <2>1 DEF Start, Recovering, storeVars, envVars
  <2> QED BY <2>2 DEF JournalInv, CommitInv, CopyInv, Working, Committing, Executing, At
<1>2. ~ResumeRead /\ ~ResumeWrite
  BY DEF ResumeRead, ResumeWrite, RecoveringOnly, JournalInv
<1>3. CASE ChildExits
  <2>1. UNCHANGED <<storeVars, cmd, pc, mem, ret, cur, envVars>>
    BY <1>3 DEF ChildExits
  <2> QED BY <2>1 DEF storeVars, envVars, JournalInv, CommitInv, CopyInv, Working, Committing,
             Executing, At
<1>4. CASE Interrupt
  BY <1>4, LeaveKeeps DEF Interrupt
<1>5. CASE NextWeek
  BY <1>5 DEF NextWeek, storeVars, sessionVars, JournalInv, CommitInv, CopyInv, Working,
     Committing, Executing, At
<1> QED BY <1>1, <1>2, <1>3, <1>4, <1>5

(* Files, journal and copy stay in step when every command recovers first. *)
THEOREM JournalInvariant == RecoveringOnly => (Spec => [](TypeInv /\ JournalInv))
<1> SUFFICES ASSUME RecoveringOnly PROVE Spec => [](TypeInv /\ JournalInv)
  OBVIOUS
<1>1. TypeInv /\ JournalInv /\ [Next]_vars => JournalInv'
  <2> SUFFICES ASSUME SessionOK, WorldOK, JournalInv, [Next]_vars PROVE JournalInv'
    BY TypeParts
  <2>1. CASE CommandStep
    BY <2>1, CommitStepKeeps, CycleKeeps, ExecuteKeeps, BodyKeeps DEF CommandStep
  <2>2. CASE UNCHANGED vars
    BY <2>2 DEF vars, storeVars, sessionVars, envVars, JournalInv, CommitInv, CopyInv, Working,
       Committing, Executing, At
  <2> QED BY <2>1, <2>2, AroundKeeps DEF Next
<1> QED BY <1>1, JournalInitially, TypeInvariant, PTL DEF Spec

-----------------------------------------------------------------------------
(* Refinement.                                                              *)

\* The instance has its own copies of the operators of RegimeQueue.
(* The ledger's operators on tasks are those of the controller.             *)
LEMMA SameOperators ==
    ASSUME NEW snap, NEW ts, NEW t, NEW outcome, NEW w
    PROVE  /\ Ledger!InitialSnapshot(t) = InitialSnapshot(t)
           /\ Ledger!Running(ts) = Running(ts)
           /\ Ledger!Candidates(ts) = Candidates(ts)
           /\ Ledger!Released(ts) = Released(ts)
           /\ Ledger!Materialized(ts) = Materialized(ts)
           /\ Ledger!WithTasks(snap, ts) = WithTasks(snap, ts)
           /\ Ledger!Started(snap, t) = Started(snap, t)
           /\ Ledger!Finished(snap, t, outcome, w) = Finished(snap, t, outcome, w)
           /\ Ledger!Retried(snap) = Retried(snap)
           /\ Ledger!G0Passed(snap) = G0Passed(snap)
<1>1. \A u : Ledger!DepsSatisfied(ts, u) = DepsSatisfied(ts, u)
  BY DEF Ledger!DepsSatisfied, DepsSatisfied
<1>2. Ledger!InitialSnapshot(t) = InitialSnapshot(t)
  BY DEF Ledger!InitialSnapshot, InitialSnapshot
<1>3. Ledger!Running(ts) = Running(ts)
  BY DEF Ledger!Running, Running
<1>4. Ledger!Candidates(ts) = Candidates(ts) /\ Ledger!Released(ts) = Released(ts)
  BY <1>1 DEF Ledger!Candidates, Candidates, Ledger!Released, Released
<1>5. Ledger!Materialized(ts) = Materialized(ts)
  BY DEF Ledger!Materialized, Materialized
<1>6. Ledger!WithTasks(snap, ts) = WithTasks(snap, ts)
  BY DEF Ledger!WithTasks, WithTasks
<1>7. Ledger!Started(snap, t) = Started(snap, t)
  BY DEF Ledger!Started, Started
<1>8. Ledger!Finished(snap, t, outcome, w) = Finished(snap, t, outcome, w)
  BY DEF Ledger!Finished, Finished
<1>9. Ledger!Retried(snap) = Retried(snap)
  BY DEF Ledger!Retried, Retried, Ledger!WithTasks, WithTasks
<1>10. Ledger!G0Passed(snap) = G0Passed(snap)
  BY DEF Ledger!G0Passed, G0Passed, Ledger!WithTasks, WithTasks
<1> QED BY <1>2, <1>3, <1>4, <1>5, <1>6, <1>7, <1>8, <1>9, <1>10

(* The first files are a first ledger.                                     *)
LEMMA InitImplemented == Init => Ledger!Init
  BY SameOperators DEF Init, Ledger!Init, Logical

(* A transaction of the files is a step of the ledger.                     *)
LEMMA TransactionIsStep ==
    ASSUME Transaction(Logical, Logical')
    PROVE  Ledger!Next
<1> DEFINE ts == Logical.queue.task
<1> USE SameOperators DEF Ledger!Next, Ledger!tasks
<1>1. CASE Logical' = WithTasks(Logical, Released(ts))
  BY <1>1 DEF Ledger!Release
<1>2. ASSUME NEW t \in Tasks, ~Logical.state.paused, Running(ts) = {}, t \in Candidates(ts),
             Logical' = Started(Logical, t)
      PROVE  Ledger!Start(t)
  BY <1>2 DEF Ledger!Start
<1>3. ASSUME NEW t \in Tasks, NEW outcome \in Ledger!Outcomes, NEW w \in Weeks,
             ts[t] = "RUNNING", Logical' = Finished(Logical, t, outcome, w)
      PROVE  Ledger!Finish(t, outcome, w)
  BY <1>3 DEF Ledger!Finish
<1>4. CASE Running(ts) # {} /\ Logical' = Retried(Logical)
  BY <1>4 DEF Ledger!Retry
<1>5. CASE Logical.state.phase = 0 /\ Logical' = G0Passed(Logical)
  BY <1>5 DEF Ledger!PassG0
<1>6. CASE Logical' = WithTasks(Logical, Materialized(ts))
  BY <1>6 DEF Ledger!Materialize
<1>7. ASSUME NEW t \in Appended, Logical.state.phase = 1, ts[t] = "ABSENT",
             Logical' = [Logical EXCEPT !.queue.task[t] = "READY"]
      PROVE  Ledger!Enqueue(t)
  BY <1>7 DEF Ledger!Enqueue
<1> QED BY <1>1, <1>2, <1>3, <1>4, <1>5, <1>6, <1>7 DEF Transaction

(* A step that changes what the files mean writes the copy as the journal.  *)
LEMMA LogicalStep ==
    ASSUME RecoveringOnly, TypeInv, JournalInv, [Next]_vars
    PROVE  Logical' = Logical \/ (pc = "journal" /\ Logical' = mem /\ UNCHANGED <<mem, labVars>>)
<1>0. /\ mem \in Snapshot /\ disk \in Snapshot /\ mem # NoJournal /\ ~ResumeWrite
  BY TypeParts, ControllerAssumption DEF SessionOK, WorldOK, ResumeWrite, JournalInv
<1>1. CASE UNCHANGED <<disk, journal>>
  BY <1>1 DEF Logical
<1>2. CASE WriteJournal
  BY <1>0, <1>2 DEF WriteJournal, Goto, Logical
<1>3. CASE WriteQueue \/ WriteState \/ WriteScore
  BY <1>0, <1>3 DEF WriteQueue, WriteState, WriteScore, JournalInv, CommitInv, Committing, Logical
<1>4. CASE DropJournal
  <2>1. journal = mem /\ disk = mem /\ journal' = NoJournal /\ disk' = disk
    BY <1>0, <1>4 DEF DropJournal, JournalInv, CommitInv, Committing, Snapshot
  <2> QED BY <1>0, <2>1 DEF Logical
<1>5. CASE CommandStep /\ ~CommitStep
  <2>1. UNCHANGED <<disk, journal>>
    BY <1>5 DEF CommandStep, Recover, RecoverOrphans, Plan, SelectTask, Again, Body,
       Execute, ExecutePhaseZero, ExecuteLocal, ExecuteInventory, ExecuteUnmapped, Spawn, RecordProcess,
       Collect, Timeout, storeVars
  <2> QED BY <1>1, <2>1
<1>6. CASE (\E c \in Commands : Start(c)) \/ ResumeRead \/ ChildExits \/ Interrupt \/ NextWeek
  <2>1. UNCHANGED <<disk, journal>>
    BY <1>6 DEF Start, ResumeRead, ChildExits, Interrupt, NextWeek, storeVars
  <2> QED BY <1>1, <2>1
<1> QED BY <1>0, <1>1, <1>2, <1>3, <1>4, <1>5, <1>6 DEF Next, CommitStep, vars, storeVars

(* Every step is one transaction or changes nothing a reader can tell.     *)
LEMMA StepTransacts ==
    ASSUME RecoveringOnly, TypeInv, JournalInv, [Next]_vars
    PROVE  Logical' = Logical \/ Transaction(Logical, Logical')
<1>1. CASE pc = "journal" /\ Logical' = mem
  <2>1. mem \in Snapshot /\ mem # NoJournal
    BY TypeParts, ControllerAssumption DEF SessionOK
  <2> QED BY <1>1, <2>1 DEF JournalInv, CommitInv, Logical
<1> QED BY <1>1, LogicalStep

(* Every step is a step of the ledger or a stutter.                        *)
LEMMA StepImplemented ==
    ASSUME RecoveringOnly, TypeInv, JournalInv, [Next]_vars
    PROVE  [Ledger!Next]_Logical
  BY StepTransacts, TransactionIsStep

(* The commands that recover first implement RegimeLedger, however often    *)
(* they are interrupted and whatever the queue, the catalog and the weeks.  *)
THEOREM ControllerImplementsLedger == RecoveringOnly => (Spec => LedgerImplemented)
<1> SUFFICES ASSUME RecoveringOnly PROVE Spec => LedgerImplemented
  OBVIOUS
<1>1. TypeInv /\ JournalInv /\ [Next]_vars => [Ledger!Next]_Logical
  BY StepImplemented
<1> QED BY <1>1, InitImplemented, JournalInvariant, PTL DEF Spec, LedgerImplemented, Ledger!Spec

(* A journal that changes is dropped, and then the files are its own.      *)
LEMMA JournalStep ==
    ASSUME RecoveringOnly, TypeInv, JournalInv, [Next]_vars,
           journal # NoJournal, journal' # journal
    PROVE  journal' = NoJournal /\ disk' = journal
<1>1. mem \in Snapshot /\ disk \in Snapshot
  BY TypeParts DEF SessionOK, WorldOK
<1>2. DropJournal \/ WriteJournal
  BY DEF Next, vars, CommandStep, CommitStep, WriteQueue, WriteState, WriteScore,
     Recover, RecoverOrphans, Plan, SelectTask, Again, Body,
     Execute, ExecutePhaseZero, ExecuteLocal, ExecuteInventory, ExecuteUnmapped, Spawn, RecordProcess,
     Collect, Timeout, storeVars, Start, ResumeRead, ResumeWrite, ChildExits, Interrupt, NextWeek
<1>3. ~WriteJournal
  BY DEF WriteJournal, JournalInv, CommitInv
<1>4. journal' = NoJournal /\ journal = mem /\ disk = mem /\ disk' = disk
  BY <1>1, <1>2, <1>3 DEF DropJournal, JournalInv, CommitInv, Committing, Snapshot
<1> QED BY <1>4

(* A complete journal is not replaced, and goes when the files are its own. *)
THEOREM JournalIsDurable == RecoveringOnly => (Spec => JournalDurable)
<1> SUFFICES ASSUME RecoveringOnly PROVE Spec => JournalDurable
  OBVIOUS
<1>1. TypeInv /\ JournalInv /\ [Next]_vars =>
        [journal # NoJournal /\ journal' # journal
            => journal' = NoJournal /\ disk' = journal]_vars
  BY JournalStep
<1> QED BY <1>1, JournalInvariant, PTL DEF Spec, JournalDurable

-----------------------------------------------------------------------------
(* The parts of the files, torn or not.                                     *)

(* What the files mean, files and journal are snapshots.                   *)
LEMMA LogicalType == ASSUME TypeInv PROVE Logical \in Snapshot /\ disk \in Snapshot
  BY TypeParts DEF WorldOK, Logical

(* A step writes into a file what it was or what the files mean then, and  *)
(* a journal is what they mean.                                            *)
LEMMA FilesFollow ==
    ASSUME RecoveringOnly, TypeInv, JournalInv, [Next]_vars
    PROVE  /\ disk'.queue = disk.queue \/ disk'.queue = Logical'.queue
           /\ disk'.score = disk.score \/ disk'.score = Logical'.score
           /\ journal' # NoJournal => journal' = Logical'
<1>0. /\ mem \in Snapshot /\ disk \in Snapshot /\ mem # NoJournal /\ ~ResumeWrite
  BY TypeParts, ControllerAssumption DEF SessionOK, WorldOK, ResumeWrite, JournalInv
<1>1. journal' # NoJournal => journal' = Logical'
  BY DEF Logical
<1>2. CASE WriteQueue \/ WriteState \/ WriteScore
  <2>1. journal = mem /\ journal' = journal /\ Logical' = mem
    BY <1>0, <1>2 DEF WriteQueue, WriteState, WriteScore, JournalInv, CommitInv, Committing, Logical
  <2>2. CASE WriteQueue
    BY <1>0, <2>1, <2>2 DEF WriteQueue, Snapshot
  <2>3. CASE WriteState
    BY <1>0, <1>1, <2>3 DEF WriteState, Snapshot
  <2>4. CASE WriteScore
    BY <1>0, <2>1, <2>4 DEF WriteScore, Snapshot
  <2> QED BY <1>1, <1>2, <2>2, <2>3, <2>4
<1>3. CASE UNCHANGED disk
  BY <1>1, <1>3
<1>4. CASE CommandStep /\ ~(WriteQueue \/ WriteState \/ WriteScore)
  <2>1. UNCHANGED disk
    BY <1>4 DEF CommandStep, CommitStep, WriteJournal, DropJournal, Recover, RecoverOrphans, Plan,
       SelectTask, Again, Body, Execute, ExecutePhaseZero, ExecuteLocal, ExecuteInventory,
       ExecuteUnmapped, Spawn, RecordProcess, Collect, Timeout, storeVars
  <2> QED BY <1>3, <2>1
<1>5. CASE (\E c \in Commands : Start(c)) \/ ResumeRead \/ ChildExits \/ Interrupt \/ NextWeek
  <2>1. UNCHANGED disk
    BY <1>5 DEF Start, ResumeRead, ChildExits, Interrupt, NextWeek, storeVars
  <2> QED BY <1>3, <2>1
<1> QED BY <1>0, <1>2, <1>3, <1>4, <1>5 DEF Next, vars, storeVars

-----------------------------------------------------------------------------
(* No task is scored twice, in no file at no time.                          *)

\* A snapshot in which nothing is scored twice and what is scored is settled.
Once(snap) ==
    \A t \in Tasks : /\ snap.score[t] <= 1
                     /\ snap.score[t] > 0 => snap.queue.task[t] \in Ledger!Settled

(* No transaction makes a scored task READY or RUNNING again.              *)
LEMMA TransactionOnce == ASSUME NEW a \in Snapshot, NEW b, Once(a), Transaction(a, b)
                         PROVE  Once(b)
<1> USE DEF Once, Ledger!Settled
<1>0. a.queue.task \in [Tasks -> TaskStates] /\ a.score \in [Tasks -> Nat]
  BY DEF Snapshot, Queue, Score
<1>1. CASE b = WithTasks(a, Released(a.queue.task))
  BY <1>0, <1>1 DEF WithTasks, Released, Snapshot, Queue
<1>2. ASSUME NEW t \in Tasks, t \in Candidates(a.queue.task), b = Started(a, t) PROVE Once(b)
  BY <1>0, <1>2 DEF Started, Candidates, Snapshot, Queue
<1>3. ASSUME NEW t \in Tasks, NEW outcome \in Ledger!Outcomes, NEW w \in Weeks,
             a.queue.task[t] = "RUNNING", b = Finished(a, t, outcome, w)
      PROVE  Once(b)
  <2>1. a.score[t] = 0
    BY <1>0, <1>3
  <2>2. CASE outcome = "TERMINAL"
    <3>1. b.score = [a.score EXCEPT ![t] = @ + 1] /\ b.queue.task = [a.queue.task EXCEPT ![t] = outcome]
      BY <1>3, <2>2 DEF Finished, Snapshot, Queue
    <3> QED BY <1>0, <2>1, <2>2, <3>1
  <2>3. CASE outcome # "TERMINAL"
    <3>1. b.score = a.score /\ b.queue.task = [a.queue.task EXCEPT ![t] = outcome]
      BY <1>3, <2>3 DEF Finished, Snapshot, Queue
    <3> QED BY <1>0, <2>1, <3>1
  <2> QED BY <2>2, <2>3
<1>4. CASE b = Retried(a)
  BY <1>0, <1>4 DEF Retried, WithTasks, Snapshot, Queue
<1>5. CASE b = G0Passed(a)
  BY <1>0, <1>5 DEF G0Passed, WithTasks, Snapshot, Queue
<1>6. CASE b = WithTasks(a, Materialized(a.queue.task))
  BY <1>0, <1>6 DEF Materialized, WithTasks, Snapshot, Queue
<1>7. ASSUME NEW t \in Appended, a.queue.task[t] = "ABSENT", b = [a EXCEPT !.queue.task[t] = "READY"]
      PROVE  Once(b)
  BY <1>0, <1>7, QueueAssumption DEF Snapshot, Queue
<1> QED BY <1>1, <1>2, <1>3, <1>4, <1>5, <1>6, <1>7 DEF Transaction

\* CompletedOnce with what makes it inductive.
OnceInv == Once(Logical) /\ CompletedOnce

(* Torn scorecards and pending journals included, no task is scored twice   *)
(* by the commands that recover first.                                      *)
THEOREM ScoredOnceOnDisk == RecoveringOnly => (Spec => []CompletedOnce)
<1> SUFFICES ASSUME RecoveringOnly PROVE Spec => []CompletedOnce
  OBVIOUS
<1>1. Init => OnceInv
  BY DEF Init, InitialSnapshot, OnceInv, Once, CompletedOnce, Logical
<1>2. TypeInv /\ JournalInv /\ OnceInv /\ [Next]_vars => OnceInv'
  <2> SUFFICES ASSUME TypeInv, JournalInv, OnceInv, [Next]_vars PROVE OnceInv'
    OBVIOUS
  <2>1. Once(Logical')
    BY StepTransacts, TransactionOnce, LogicalType DEF OnceInv
  <2>2. Once(Logical)'
    BY <2>1 DEF Once
  <2>3. CompletedOnce'
    BY <2>1, FilesFollow DEF OnceInv, Once, CompletedOnce
  <2> QED BY <2>2, <2>3 DEF OnceInv
<1>3. OnceInv => CompletedOnce
  BY DEF OnceInv
<1> QED BY <1>1, <1>2, <1>3, JournalInvariant, PTL DEF Spec

-----------------------------------------------------------------------------
(* One task RUNNING at a time, in no file two.                              *)

\* A queue in which one task at most is RUNNING.
Single(queue) == \A t, u \in Running(queue.task) : t = u

(* Only a start makes a task RUNNING, and it looks for others first.       *)
LEMMA TransactionSingle ==
    ASSUME NEW a \in Snapshot, NEW b, Single(a.queue), Transaction(a, b)
    PROVE  Single(b.queue)
<1> USE DEF Single, Running
<1>0. a.queue.task \in [Tasks -> TaskStates]
  BY DEF Snapshot, Queue
<1>1. CASE b = WithTasks(a, Released(a.queue.task))
  BY <1>0, <1>1 DEF WithTasks, Released, Snapshot, Queue
<1>2. ASSUME NEW t \in Tasks, Running(a.queue.task) = {}, b = Started(a, t) PROVE Single(b.queue)
  BY <1>0, <1>2 DEF Started, Snapshot, Queue
<1>3. ASSUME NEW t \in Tasks, NEW outcome \in Ledger!Outcomes, NEW w \in Weeks,
             b = Finished(a, t, outcome, w)
      PROVE  Single(b.queue)
  <2>1. b.queue.task = [a.queue.task EXCEPT ![t] = outcome]
    BY <1>3 DEF Finished, Snapshot, Queue
  <2>2. outcome # "RUNNING"
    BY DEF Ledger!Outcomes
  <2> QED BY <1>0, <2>1, <2>2
<1>4. CASE b = Retried(a)
  BY <1>0, <1>4 DEF Retried, WithTasks, Snapshot, Queue
<1>5. CASE b = G0Passed(a)
  <2>1. \A t \in Tasks : b.queue.task[t] = "RUNNING" => a.queue.task[t] = "RUNNING"
    BY <1>0, <1>5 DEF G0Passed, WithTasks, Snapshot, Queue
  <2> QED BY <2>1
<1>6. CASE b = WithTasks(a, Materialized(a.queue.task))
  BY <1>0, <1>6 DEF Materialized, WithTasks, Snapshot, Queue
<1>7. ASSUME NEW t \in Appended, b = [a EXCEPT !.queue.task[t] = "READY"] PROVE Single(b.queue)
  BY <1>0, <1>7, QueueAssumption DEF Snapshot, Queue
<1> QED BY <1>1, <1>2, <1>3, <1>4, <1>5, <1>6, <1>7 DEF Transaction

(* The same said with cardinality.                                         *)
LEMMA SingleCounts == ASSUME NEW queue, Single(queue) PROVE Cardinality(Running(queue.task)) <= 1
<1>1. CASE Running(queue.task) = {}
  BY <1>1, FS_EmptySet
<1>2. CASE Running(queue.task) # {}
  <2>1. PICK t : Running(queue.task) = {t}
    BY <1>2 DEF Single
  <2>2. Cardinality({t}) = 1
    BY FS_Singleton
  <2> QED BY <2>1, <2>2
<1> QED BY <1>1, <1>2

\* SingleRunning with what makes it inductive.
SingleInv == Single(Logical.queue) /\ Single(disk.queue)

(* SingleInv is kept by every step.                                        *)
LEMMA SingleKeeps ==
    ASSUME RecoveringOnly, TypeInv, JournalInv, SingleInv, [Next]_vars
    PROVE  SingleInv'
<1>1. Single(Logical'.queue)
  BY StepTransacts, TransactionSingle, LogicalType DEF SingleInv
<1>2. Single(disk'.queue)
  BY <1>1, FilesFollow DEF SingleInv
<1> QED BY <1>1, <1>2 DEF SingleInv, Single, Running

(* No file and no journal ever shows two RUNNING tasks.                     *)
THEOREM OneRunningOnDisk == RecoveringOnly => (Spec => []SingleRunning)
<1> SUFFICES ASSUME RecoveringOnly PROVE Spec => []SingleRunning
  OBVIOUS
<1>1. Init => SingleInv
  BY InitialAssumption DEF Init, InitialSnapshot, SingleInv, Single, Running, Logical
<1>2. TypeInv /\ JournalInv /\ SingleInv /\ [Next]_vars => SingleInv'
  BY SingleKeeps
<1>3. SingleInv => SingleRunning
  BY SingleCounts DEF SingleInv, SingleRunning, Logical
<1> QED BY <1>1, <1>2, <1>3, JournalInvariant, PTL DEF Spec

-----------------------------------------------------------------------------
(* G0: the phase and the appended task as one.                              *)

\* What the theorem assumes of the first files: recording G0 appends a task,
\* and files that say it was recorded have it.
G0Seeded == OnG0 # {} /\ (InitialPhase = 1 => \A t \in OnG0 : InitialTasks[t] # "ABSENT")

\* Before G0 not a single one of its tasks is there, after it all are.  G0Atomic
\* alone would allow some of them before.
BeforeG0(snap) == snap.state.phase = 0 => \A t \in OnG0 : snap.queue.task[t] = "ABSENT"
AfterG0(snap) == snap.state.phase = 1 => \A t \in OnG0 : snap.queue.task[t] # "ABSENT"
G0Whole(snap) == BeforeG0(snap) /\ AfterG0(snap)

\* What a transaction keeps of it.
KeepsG0(a, b) == (BeforeG0(a) => BeforeG0(b)) /\ (G0Whole(a) => G0Whole(b))

(* A transaction appends the G0 tasks with the phase or not at all.        *)
LEMMA TransactionG0 == ASSUME NEW a \in Snapshot, NEW b, Transaction(a, b)
                       PROVE  KeepsG0(a, b)
<1> USE DEF KeepsG0, G0Whole, BeforeG0, AfterG0
<1>0. /\ a.queue.task \in [Tasks -> TaskStates] /\ a.state.phase \in {0, 1}
      /\ OnG0 \subseteq Tasks /\ Appended \subseteq Tasks
      /\ OnG0 \cap Appended = {} /\ OnG0 \cap Catalog = {} /\ OnG0 \cap Superseded = {}
  BY QueueAssumption, SeedAssumption DEF Snapshot, Queue, State
<1>1. CASE b = WithTasks(a, Released(a.queue.task))
  BY <1>0, <1>1 DEF WithTasks, Released, Snapshot, Queue
<1>2. ASSUME NEW t \in Tasks, t \in Candidates(a.queue.task), b = Started(a, t) PROVE KeepsG0(a, b)
  BY <1>0, <1>2 DEF Started, Candidates, Snapshot, Queue
<1>3. ASSUME NEW t \in Tasks, NEW outcome \in Ledger!Outcomes, NEW w \in Weeks,
             a.queue.task[t] = "RUNNING", b = Finished(a, t, outcome, w)
      PROVE  KeepsG0(a, b)
  <2>1. b.queue.task = [a.queue.task EXCEPT ![t] = outcome] /\ b.state = a.state
    BY <1>3 DEF Finished, Snapshot, Queue
  <2>2. outcome # "ABSENT"
    BY DEF Ledger!Outcomes
  <2> QED BY <1>0, <1>3, <2>1, <2>2
<1>4. CASE b = Retried(a)
  BY <1>0, <1>4 DEF Retried, WithTasks, Snapshot, Queue
<1>5. CASE a.state.phase = 0 /\ b = G0Passed(a)
  <2>1. b.state.phase = 1
    BY <1>5 DEF G0Passed, WithTasks, Snapshot, State
  <2>2. BeforeG0(a) => \A t \in OnG0 : b.queue.task[t] = "READY"
    BY <1>0, <1>5 DEF G0Passed, WithTasks, Snapshot, Queue
  <2> QED BY <2>1, <2>2
<1>6. CASE b = WithTasks(a, Materialized(a.queue.task))
  BY <1>0, <1>6 DEF Materialized, WithTasks, Snapshot, Queue
<1>7. ASSUME NEW t \in Appended, b = [a EXCEPT !.queue.task[t] = "READY"] PROVE KeepsG0(a, b)
  BY <1>0, <1>7 DEF Snapshot, Queue
<1> QED BY <1>1, <1>2, <1>3, <1>4, <1>5, <1>6, <1>7 DEF Transaction

(* However record-g0-pass is interrupted, phase and task change together.   *)
THEOREM G0IsAtomic == RecoveringOnly /\ G0Seeded => (Spec => []G0Atomic)
<1> SUFFICES ASSUME RecoveringOnly, G0Seeded PROVE Spec => []G0Atomic
  OBVIOUS
<1>1. Init => G0Whole(Logical)
  BY InitialAssumption, QueueAssumption DEF Init, InitialSnapshot, G0Whole, BeforeG0, AfterG0, G0Seeded, Logical
<1>2. TypeInv /\ JournalInv /\ G0Whole(Logical) /\ [Next]_vars => G0Whole(Logical)'
  <2> SUFFICES ASSUME TypeInv, JournalInv, G0Whole(Logical), [Next]_vars PROVE G0Whole(Logical)'
    OBVIOUS
  <2>1. G0Whole(Logical')
    BY StepTransacts, TransactionG0, LogicalType DEF KeepsG0
  <2> QED BY <2>1 DEF G0Whole, BeforeG0, AfterG0
<1>3. TypeInv /\ G0Whole(Logical) => G0Atomic
  <2>1. TypeInv => Logical.state.phase \in {0, 1}
    BY LogicalType DEF Snapshot, State
  <2> QED BY <2>1 DEF G0Whole, BeforeG0, AfterG0, G0Atomic, G0Seeded
<1> QED BY <1>1, <1>2, <1>3, JournalInvariant, PTL DEF Spec

-----------------------------------------------------------------------------
(* A dry run.                                                               *)

\* A dry run commits nothing but a journal it has found.
DryInv ==
    cmd = "dry-run" =>
        /\ pc \in {"recover", "plan", "select"} \cup Committing
        /\ pc \in Committing => ret = "plan"
        /\ pc = "journal" => journal = mem

(* Nothing a dry run comes by makes it commit anything else.               *)
LEMMA DryKeeps == ASSUME RecoveringOnly, JournalInv, DryInv, [Next]_vars PROVE DryInv'
<1> USE DEF DryInv, Committing
<1>1. CASE UNCHANGED vars
  BY <1>1 DEF vars, storeVars, sessionVars
<1>2. CASE CommitStep
  BY <1>2 DEF CommitStep, WriteJournal, WriteQueue, WriteState, WriteScore, DropJournal, Goto, Leave
<1>3. CASE Recover
  <2>1. CASE Leave
    BY <2>1 DEF Leave
  <2>2. CASE cmd = "dry-run" /\ (Goto("plan") \/ Commit(journal, "plan"))
    BY <1>3, <2>2 DEF Recover, Goto, Commit, storeVars
  <2>3. CASE cmd # "dry-run" /\ cmd' = cmd
    BY <2>3
  <2>4. cmd' = cmd \/ Leave
    BY <1>3 DEF Recover, Goto, Commit
  <2> QED BY <1>3, <2>1, <2>2, <2>3, <2>4 DEF Recover
<1>4. CASE pc \notin {"recover", "plan", "select"} \cup Committing /\ (cmd' = cmd \/ cmd' = "none")
  BY <1>4
<1>5. CASE RecoverOrphans \/ Body \/ Execute \/ Again
  <2>1. pc \notin {"recover", "plan", "select"} \cup Committing
    BY <1>5 DEF RecoverOrphans, Body, Again, Execute, ExecutePhaseZero, ExecuteLocal,
       ExecuteInventory, ExecuteUnmapped, Spawn, RecordProcess, Collect, Timeout
  <2>2. cmd' = cmd \/ cmd' = "none"
    BY <1>5 DEF RecoverOrphans, Body, RecordG0, MaterializeCatalog, EnqueueTask, RecoverExistingG1,
       ReconcileG1, Again, Execute, ExecutePhaseZero, ExecuteLocal, ExecuteInventory, ExecuteUnmapped,
       Spawn, RecordProcess, Collect, Timeout, Finish, Commit, Goto, Leave
  <2> QED BY <1>4, <2>1, <2>2
<1>6. CASE Plan
  BY <1>6 DEF Plan, Commit, Leave, storeVars
<1>7. CASE SelectTask
  BY <1>7 DEF SelectTask, Leave
<1>8. CASE \E c \in Commands : Start(c)
  <2>1. PICK c \in Recovering : Start(c)
    BY <1>8 DEF RecoveringOnly
  <2> QED BY <2>1 DEF Start, Recovering
<1>9. CASE ResumeRead \/ ResumeWrite
  BY <1>9 DEF ResumeRead, ResumeWrite, RecoveringOnly, JournalInv
<1>10. CASE ChildExits
  BY <1>10 DEF ChildExits, storeVars
<1>11. CASE Interrupt
  BY <1>11 DEF Interrupt, Leave
<1>12. CASE NextWeek
  BY <1>12 DEF NextWeek, storeVars, sessionVars
<1> QED BY <1>1, <1>2, <1>3, <1>5, <1>6, <1>7, <1>8, <1>9, <1>10, <1>11, <1>12 DEF Next, CommandStep

(* What the files mean is the same before and after each step of a dry run. *)
LEMMA DryStep ==
    ASSUME RecoveringOnly, TypeInv, JournalInv, DryInv, [Next]_vars, cmd = "dry-run"
    PROVE  Logical' = Logical
<1>1. mem # NoJournal
  BY TypeParts, ControllerAssumption DEF SessionOK
<1> QED BY <1>1, LogicalStep DEF DryInv, Logical

(* A dry run finishes an interrupted commit at most: it releases, starts    *)
(* and records nothing, whatever the queue.                                 *)
THEOREM DryRunIsNeutral == RecoveringOnly => (Spec => DryRunNeutral)
<1> SUFFICES ASSUME RecoveringOnly PROVE Spec => DryRunNeutral
  OBVIOUS
<1>1. Init => DryInv
  BY DEF Init, DryInv
<1>2. JournalInv /\ DryInv /\ [Next]_vars => DryInv'
  BY DryKeeps
<1>3. TypeInv /\ JournalInv /\ DryInv /\ [Next]_vars => [cmd = "dry-run" => Logical' = Logical]_vars
  BY DryStep
<1> QED BY <1>1, <1>2, <1>3, JournalInvariant, PTL DEF Spec, DryRunNeutral

-----------------------------------------------------------------------------
(* What commands commit, with what they have checked before.                *)

Offered == Retried(disk)
Seeded == WithTasks(disk, Materialized(disk.queue.task))

\* The copy a command is about to commit comes from the files, of which it has
\* looked at this much.
FromFiles ==
    \/ /\ mem' = Offered /\ ValidStore(Offered)
       /\ \A t \in Running(disk.queue.task) : recorded[t] = "gone"
    \/ mem' = WithTasks(disk, Released(disk.queue.task))
    \/ \E t \in Candidates(disk.queue.task) :
            Running(disk.queue.task) = {} /\ mem' = Started(disk, t)
    \/ disk.state.phase = 0 /\ mem' = G0Passed(disk)
    \/ mem' = Seeded /\ ValidStore(Seeded)
    \/ \E t \in Appended :
            disk.queue.task[t] = "ABSENT" /\ mem' = [disk EXCEPT !.queue.task[t] = "READY"]

\* An outcome is committed for the task that ran, whose child is gone by then.
FromOutcome ==
    /\ cur \in Tasks /\ disk.queue.task[cur] = "RUNNING"
    /\ pc = "execute" \/ recorded'[cur] = "gone"
    /\ \A t \in Tasks : recorded'[t] = "live" => recorded[t] = "live"
    /\ \E outcome \in Ledger!Outcomes :
            /\ mem' = Finished(disk, cur, outcome, week)
            /\ outcome = "TERMINAL" => artifact'[cur] # "absent"

(* An execution that finishes commits an outcome.                          *)
LEMMA OutcomeSource ==
    ASSUME RecoveringOnly, TypeInv, JournalInv, Execute, pc' = "journal"
    PROVE  journal = NoJournal /\ FromOutcome
<1>0. /\ pc \in {"execute", "spawned", "waiting"}
      /\ artifact \in [Tasks -> Artifacts] /\ recorded \in [Tasks -> Processes]
  BY TypeParts DEF WorldOK, Execute, ExecutePhaseZero, ExecuteLocal, ExecuteInventory, ExecuteUnmapped,
     Spawn, RecordProcess, Collect, Timeout
<1>1. journal = NoJournal /\ mem = disk /\ cur \in Tasks /\ disk.queue.task[cur] = "RUNNING"
  BY <1>0, TypeParts DEF JournalInv, CommitInv, CopyInv, Working, Executing, SessionOK
<1>2. ASSUME NEW outcome \in Ledger!Outcomes, Finish(outcome),
             outcome = "TERMINAL" => artifact'[cur] # "absent",
             pc = "execute" \/ recorded'[cur] = "gone",
             \A t \in Tasks : recorded'[t] = "live" => recorded[t] = "live"
      PROVE  FromOutcome
  BY <1>1, <1>2 DEF Finish, Commit, FromOutcome
<1>3. ~Leave
  BY DEF Leave
<1> USE <1>0, <1>1, <1>3 DEF Ledger!Outcomes, labVars
<1>4. CASE ExecutePhaseZero
  BY <1>2, <1>4 DEF ExecutePhaseZero
<1>5. CASE ExecuteLocal
  BY <1>2, <1>5 DEF ExecuteLocal
<1>6. CASE ExecuteInventory
  <2>1. artifact'[cur] = "PASS" /\ UNCHANGED recorded /\ pc = "execute"
    BY <1>6 DEF ExecuteInventory
  <2> QED BY <1>2, <1>6, <2>1 DEF ExecuteInventory
<1>7. CASE ExecuteUnmapped
  BY <1>2, <1>7 DEF ExecuteUnmapped
<1>8. ~Spawn /\ ~RecordProcess
  BY DEF Spawn, RecordProcess
<1>9. CASE Collect
  BY <1>2, <1>9 DEF Collect, Captured
<1>10. CASE Timeout
  BY <1>2, <1>10 DEF Timeout
<1> QED BY <1>1, <1>4, <1>5, <1>6, <1>7, <1>8, <1>9, <1>10 DEF Execute

(* Where a copy that is about to be committed comes from.                  *)
LEMMA CopySource ==
    ASSUME RecoveringOnly, TypeInv, JournalInv, [Next]_vars, pc # "journal", pc' = "journal"
    PROVE  \/ journal # NoJournal /\ mem' = journal /\ UNCHANGED labVars
           \/ journal = NoJournal /\ FromFiles /\ UNCHANGED labVars
           \/ journal = NoJournal /\ FromOutcome
<1>0. /\ ret \in Returns /\ ~Leave /\ journal \in Snapshot \cup {NoJournal}
      /\ pc' # pc /\ pc # "journal"
  BY TypeParts DEF SessionOK, WorldOK, Leave
<1>1. ~CommitStep
  BY <1>0 DEF CommitStep, WriteJournal, WriteQueue, WriteState, WriteScore, DropJournal, Goto, Returns
<1>2. CASE Recover
  <2>1. \A next \in {"orphans", "plan", "body"} : ~Goto(next)
    BY <1>0 DEF Goto
  <2> QED BY <1>0, <1>2, <2>1 DEF Recover, Commit
<1>3. CASE RecoverOrphans
  <2>1. \A next \in {"plan", "idle"} : ~Goto(next)
    BY <1>0 DEF Goto
  <2>2. journal = NoJournal
    BY <1>3 DEF RecoverOrphans, JournalInv, CommitInv, Working
  <2> QED BY <1>0, <1>3, <2>1, <2>2 DEF RecoverOrphans, Commit, FromFiles, Offered
<1>4. CASE Plan
  <2>1. journal = NoJournal
    BY <1>4 DEF Plan, JournalInv, CommitInv, Working
  <2> QED BY <1>0, <1>4, <2>1 DEF Plan, Commit, FromFiles
<1>5. CASE SelectTask
  <2>1. pc = "select" /\ journal = NoJournal /\ cmd \in {"cycle", "dry-run"}
    BY <1>5 DEF SelectTask, JournalInv, CommitInv, CopyInv, At, Working
  <2>2. PICK t \in Select(mem.queue, week) : cmd # "dry-run" /\ mem' = Started(mem, t)
    BY <1>0, <1>5 DEF SelectTask
  <2>3. mem = disk /\ Running(disk.queue.task) = {} /\ UNCHANGED labVars
    BY <1>5, <2>1, <2>2 DEF JournalInv, CopyInv, SelectTask
  <2>4. t \in Candidates(disk.queue.task)
    BY <2>3 DEF Select
  <2> QED BY <2>1, <2>2, <2>3, <2>4 DEF FromFiles
<1>6. CASE Execute
  BY <1>6, OutcomeSource
<1>7. CASE Body
  <2>1. journal = NoJournal /\ UNCHANGED labVars /\ cmd \in Recovering \cup {"none"}
    BY <1>7 DEF Body, JournalInv, CommitInv, CopyInv, Working
  <2>2. ~RecoverExistingG1 /\ ~ReconcileG1
    BY <2>1 DEF RecoverExistingG1, ReconcileG1, Recovering
  <2>3. CASE RecordG0
    BY <1>0, <2>1, <2>3 DEF RecordG0, Commit, FromFiles
  <2>4. CASE MaterializeCatalog
    BY <1>0, <2>1, <2>4 DEF MaterializeCatalog, Commit, FromFiles, Seeded
  <2>5. CASE EnqueueTask
    BY <1>0, <2>1, <2>5 DEF EnqueueTask, Commit, FromFiles
  <2> QED BY <1>7, <2>2, <2>3, <2>4, <2>5 DEF Body
<1>8. ~Again
  BY <1>0 DEF Again
<1>9. CASE (\E c \in Commands : Start(c)) \/ ResumeRead \/ ResumeWrite \/ ChildExits \/ Interrupt \/ NextWeek
  <2>1. PICK c : Start(c)
    BY <1>0, <1>9 DEF ResumeRead, ResumeWrite, ChildExits, Interrupt, NextWeek, sessionVars
  <2> QED BY <1>0, <2>1 DEF Start
<1> QED BY <1>0, <1>1, <1>2, <1>3, <1>4, <1>5, <1>6, <1>7, <1>8, <1>9 DEF Next, CommandStep, vars, sessionVars

(* While a copy waits to be committed it stays what it is.                 *)
LEMMA CopyStays ==
    ASSUME TypeInv, [Next]_vars, pc = "journal", pc' = "journal"
    PROVE  mem' = mem /\ \A t \in Tasks : recorded'[t] = "live" => recorded[t] = "live"
<1>1. CASE UNCHANGED vars
  BY <1>1 DEF vars, sessionVars, labVars
<1>2. ~CommandStep
  BY DEF CommandStep, CommitStep, WriteJournal, WriteQueue, WriteState, WriteScore, DropJournal, Goto,
     Leave, Recover, RecoverOrphans, Plan, SelectTask, Execute, ExecutePhaseZero, ExecuteLocal,
     ExecuteInventory, ExecuteUnmapped, Spawn, RecordProcess, Collect, Timeout, Again, Body
<1>3. ~Interrupt /\ ~\E c \in Commands : Start(c)
  BY DEF Interrupt, Leave, Start
<1>4. CASE ResumeRead \/ ResumeWrite \/ NextWeek
  BY <1>4 DEF ResumeRead, ResumeWrite, NextWeek, sessionVars, labVars
<1>5. CASE ChildExits
  BY <1>5, TypeParts DEF ChildExits, WorldOK
<1> QED BY <1>1, <1>2, <1>3, <1>4, <1>5 DEF Next

-----------------------------------------------------------------------------
(* What the controller writes it can read.                                  *)

\* What the theorem assumes of the first files: a content task without
\* provenance, which has no dependencies, does not wait for any.
WithheldAtFirst == \A t \in Content \ Verified : InitialTasks[t] # "BLOCKED_DEPENDENCY"

Withheld(snap) == \A t \in Content \ Verified : snap.queue.task[t] # "BLOCKED_DEPENDENCY"
Readable(snap) == ValidStore(snap) /\ Withheld(snap)

\* Because no command looks again at what it commits, the copy is in it.
ReadInv ==
    /\ Readable(Logical) /\ BeforeG0(Logical)
    /\ pc = "journal" => Readable(mem)

\* An artifact that is there stays, perhaps with another content.
ArtifactsStay == \A t \in Tasks : artifact[t] # "absent" => artifact'[t] # "absent"

(* Nothing removes an artifact.                                            *)
LEMMA ArtifactKept == ASSUME TypeInv, [Next]_vars PROVE ArtifactsStay
<1> USE TypeParts DEF WorldOK, ArtifactsStay
<1>1. CASE UNCHANGED artifact
  BY <1>1
<1>2. CASE Execute
  BY <1>2 DEF Execute, ExecutePhaseZero, ExecuteLocal, ExecuteInventory, ExecuteUnmapped, Spawn,
     RecordProcess, Collect, Timeout, labVars
<1>3. CASE ChildExits
  BY <1>3 DEF ChildExits
<1>4. CASE CommandStep /\ ~Execute
  <2>1. UNCHANGED artifact
    BY <1>4 DEF CommandStep, CommitStep, WriteJournal, WriteQueue, WriteState, WriteScore, DropJournal,
       Recover, RecoverOrphans, Plan, SelectTask, Again, Body, labVars
  <2> QED BY <1>1, <2>1
<1>5. CASE (\E c \in Commands : Start(c)) \/ ResumeRead \/ ResumeWrite \/ Interrupt \/ NextWeek
  BY <1>1, <1>5 DEF Start, ResumeRead, ResumeWrite, Interrupt, NextWeek, labVars
<1> QED BY <1>1, <1>2, <1>3, <1>4, <1>5 DEF Next, vars, labVars

(* What is readable stays so while artifacts stay.                         *)
LEMMA StaysReadable ==
    ASSUME NEW snap, Readable(snap), ArtifactsStay
    PROVE  Valid(snap.queue.task, artifact') /\ Withheld(snap)
  BY DEF Readable, ValidStore, Valid, ArtifactsStay

(* A copy made from readable files is readable.                            *)
LEMMA CopyReadable ==
    ASSUME TypeInv, Readable(disk), BeforeG0(disk), FromFiles, UNCHANGED artifact
    PROVE  Valid(mem'.queue.task, artifact') /\ Withheld(mem')
<1>0. /\ disk \in Snapshot /\ disk.queue.task \in [Tasks -> TaskStates]
      /\ Valid(disk.queue.task, artifact) /\ Withheld(disk)
      /\ Content \subseteq Tasks /\ OnG0 \subseteq Tasks /\ Appended \subseteq Tasks
      /\ Deps \in [Tasks -> SUBSET Tasks]
  BY TypeParts, QueueAssumption DEF WorldOK, Snapshot, Queue, Readable, ValidStore
<1> USE <1>0 DEF Valid, Withheld, Present
<1>1. CASE mem' = Offered /\ ValidStore(Offered)
  BY <1>1 DEF Offered, Retried, WithTasks, ValidStore, Snapshot, Queue
<1>2. CASE mem' = WithTasks(disk, Released(disk.queue.task))
  BY <1>2 DEF WithTasks, Released, Snapshot, Queue
<1>3. ASSUME NEW t \in Candidates(disk.queue.task), mem' = Started(disk, t)
      PROVE  Valid(mem'.queue.task, artifact') /\ Withheld(mem')
  BY <1>3 DEF Candidates, Started, Snapshot, Queue
<1>4. CASE disk.state.phase = 0 /\ mem' = G0Passed(disk)
  <2> DEFINE ts == disk.queue.task  us == mem'.queue.task
  <2>1. \A t \in Tasks : us[t] = CASE t \in Superseded /\ ts[t] # "ABSENT" -> "HUMAN_APPROVAL"
                                   [] t \in OnG0 -> IF ts[t] = "ABSENT" THEN "READY" ELSE "DUPLICATE"
                                   [] OTHER -> ts[t]
    BY <1>4 DEF G0Passed, WithTasks, Snapshot, Queue
  <2>2. \A t \in OnG0 : ts[t] = "ABSENT" /\ Deps[t] = {} /\ t \notin Content
    BY <1>4, SeedAssumption DEF BeforeG0
  <2> HIDE DEF ts, us
  <2> USE DEF ts, us
  <2>3. \A t \in Tasks : us[t] = IF t \in OnG0 THEN "READY"
                                 ELSE IF t \in Superseded /\ ts[t] # "ABSENT" THEN "HUMAN_APPROVAL"
                                 ELSE ts[t]
    BY <2>1, <2>2
  <2> QED BY <2>2, <2>3
<1>5. CASE mem' = Seeded /\ ValidStore(Seeded)
  <2>1. \A t \in Content \ Verified : Deps[t] = {}
    BY ProvenanceAssumption
  <2>2. Withheld(mem')
    BY <1>5, <2>1 DEF Seeded, Materialized, WithTasks, Snapshot, Queue
  <2> QED BY <1>5, <2>2 DEF ValidStore
<1>6. ASSUME NEW t \in Appended, disk.queue.task[t] = "ABSENT",
             mem' = [disk EXCEPT !.queue.task[t] = "READY"]
      PROVE  Valid(mem'.queue.task, artifact') /\ Withheld(mem')
  <2>1. Deps[t] = {} /\ t \notin Content
    BY SeedAssumption
  <2> QED BY <1>6, <2>1 DEF Snapshot, Queue
<1> QED BY <1>1, <1>2, <1>3, <1>4, <1>5, <1>6 DEF FromFiles

(* An outcome leaves the files readable: a TERMINAL task has its artifact. *)
LEMMA OutcomeReadable ==
    ASSUME TypeInv, Readable(disk), FromOutcome, ArtifactsStay
    PROVE  Valid(mem'.queue.task, artifact') /\ Withheld(mem')
<1>0. /\ disk \in Snapshot /\ disk.queue.task \in [Tasks -> TaskStates]
      /\ Valid(disk.queue.task, artifact) /\ Withheld(disk)
      /\ Content \subseteq Tasks /\ Deps \in [Tasks -> SUBSET Tasks]
  BY TypeParts, QueueAssumption DEF WorldOK, Snapshot, Queue, Readable, ValidStore
<1>1. PICK outcome \in Ledger!Outcomes :
            mem' = Finished(disk, cur, outcome, week) /\ (outcome = "TERMINAL" => artifact'[cur] # "absent")
  BY DEF FromOutcome
<1>2. mem'.queue.task = [disk.queue.task EXCEPT ![cur] = outcome]
  BY <1>0, <1>1 DEF Finished, Snapshot, Queue
<1>3. cur \in Tasks /\ disk.queue.task[cur] = "RUNNING"
  BY DEF FromOutcome
<1>4. outcome \notin {"DUPLICATE", "ABSENT", "READY", "BLOCKED_DEPENDENCY"}
  BY DEF Ledger!Outcomes
<1> QED BY <1>0, <1>1, <1>2, <1>3, <1>4 DEF Valid, Withheld, Present, ArtifactsStay

(* The queue and evidence that the controller writes always pass validate,  *)
(* so no later command refuses them.                                        *)
THEOREM StoreIsReadable == RecoveringOnly /\ WithheldAtFirst => (Spec => []StoreReadable)
<1> SUFFICES ASSUME RecoveringOnly, WithheldAtFirst PROVE Spec => []StoreReadable
  OBVIOUS
<1>2. ASSUME Init PROVE ReadInv
  <2>1. Logical.queue.task = InitialTasks /\ Logical.state.phase = InitialPhase /\ pc = "idle"
    BY <1>2 DEF Init, InitialSnapshot, Logical
  <2>2. Valid(InitialTasks, artifact)
    BY InitialAssumption, QueueAssumption DEF Valid, Present
  <2>3. BeforeG0(Logical) /\ Withheld(Logical)
    BY <2>1, InitialAssumption DEF BeforeG0, Withheld, WithheldAtFirst
  <2> QED BY <2>1, <2>2, <2>3 DEF ReadInv, Readable, ValidStore
<1>3. TypeInv /\ JournalInv /\ ReadInv /\ [Next]_vars => ReadInv'
  <2> SUFFICES ASSUME TypeInv, JournalInv, ReadInv, [Next]_vars PROVE ReadInv'
    OBVIOUS
  <2>1. ArtifactsStay
    BY ArtifactKept
  <2>2. Valid(Logical'.queue.task, artifact') /\ Withheld(Logical')
    <3>1. CASE Logical' = Logical
      BY <2>1, <3>1, StaysReadable DEF ReadInv, Withheld
    <3>2. CASE pc = "journal" /\ Logical' = mem
      BY <2>1, <3>2, StaysReadable DEF ReadInv, Withheld
    <3> QED BY <3>1, <3>2, LogicalStep
  <2>3. BeforeG0(Logical')
    BY StepTransacts, TransactionG0, LogicalType DEF KeepsG0, ReadInv
  <2>4. ASSUME pc' = "journal" PROVE Valid(mem'.queue.task, artifact') /\ Withheld(mem')
    <3>1. CASE pc = "journal"
      BY <2>1, <2>4, <3>1, CopyStays, StaysReadable DEF ReadInv, Withheld
    <3>2. CASE journal # NoJournal /\ mem' = journal
      BY <2>1, <3>2, StaysReadable DEF ReadInv, Logical, Withheld
    <3>3. CASE journal = NoJournal /\ FromFiles /\ UNCHANGED labVars
      BY <3>3, CopyReadable DEF ReadInv, Logical, labVars
    <3>4. CASE journal = NoJournal /\ FromOutcome
      BY <2>1, <3>4, OutcomeReadable DEF ReadInv, Logical
    <3> QED BY <2>4, <3>1, <3>2, <3>3, <3>4, CopySource
  <2> QED BY <2>2, <2>3, <2>4 DEF ReadInv, Readable, ValidStore, BeforeG0, Withheld
<1>4. ReadInv => StoreReadable
  BY DEF ReadInv, Readable, StoreReadable
<1> QED BY <1>2, <1>3, <1>4, JournalInvariant, PTL DEF Spec

-----------------------------------------------------------------------------
(* Children.                                                                *)

Live == {t \in Tasks : recorded[t] = "live"}

\* A live child that is recorded belongs to the task the files say is RUNNING,
\* also in a copy about to be committed, and none is there when the next one is
\* started and recorded.
ChildInv ==
    /\ Live \subseteq Running(Logical.queue.task)
    /\ Live # {} => Logical.state.phase = 1
    /\ pc = "journal" => Live \subseteq Running(mem.queue.task) /\ (Live # {} => mem.state.phase = 1)
    /\ pc \in {"execute", "spawned"} \/ (pc \in Committing /\ ret = "execute") => Live = {}
    /\ pc # "spawned" => spawn = "none"
    /\ pc \in {"spawned", "waiting"} => mem.state.phase = 1

(* Only recording makes a child known to be live.                          *)
LEMMA LiveFrom ==
    ASSUME TypeInv, [Next]_vars
    PROVE  Live' \subseteq Live \/ (RecordProcess /\ Live' \subseteq Live \cup {cur})
<1> USE TypeParts DEF WorldOK, Live
<1>1. CASE UNCHANGED recorded
  BY <1>1
<1>2. CASE RecordProcess
  BY <1>2 DEF RecordProcess
<1>3. CASE Timeout
  BY <1>3 DEF Timeout
<1>4. CASE ChildExits
  BY <1>4 DEF ChildExits
<1>5. CASE CommandStep /\ ~RecordProcess /\ ~Timeout
  <2>1. UNCHANGED recorded
    BY <1>5 DEF CommandStep, CommitStep, WriteJournal, WriteQueue, WriteState, WriteScore, DropJournal,
       Recover, RecoverOrphans, Plan, SelectTask, Execute, ExecutePhaseZero, ExecuteLocal,
       ExecuteInventory, ExecuteUnmapped, Spawn, Collect, Again, Body, labVars
  <2> QED BY <1>1, <2>1
<1>6. CASE (\E c \in Commands : Start(c)) \/ ResumeRead \/ ResumeWrite \/ Interrupt \/ NextWeek
  BY <1>1, <1>6 DEF Start, ResumeRead, ResumeWrite, Interrupt, NextWeek, labVars
<1> QED BY <1>1, <1>2, <1>3, <1>4, <1>5, <1>6 DEF Next, vars, labVars

(* A copy about to be committed leaves the task of a live child RUNNING.   *)
LEMMA CopyLive ==
    ASSUME RecoveringOnly, TypeInv, JournalInv, SingleInv, ChildInv, [Next]_vars,
           pc # "journal", pc' = "journal", Live' \subseteq Live
    PROVE  Live' \subseteq Running(mem'.queue.task) /\ (Live' # {} => mem'.state.phase = 1)
<1>0. /\ disk \in Snapshot /\ disk.queue.task \in [Tasks -> TaskStates]
      /\ Live \subseteq Tasks /\ Appended \subseteq Tasks
  BY TypeParts, QueueAssumption DEF WorldOK, Snapshot, Queue, Live
<1>1. CASE journal # NoJournal /\ mem' = journal
  BY <1>1 DEF ChildInv, Logical
<1>2. ASSUME journal = NoJournal
      PROVE  Live \subseteq Running(disk.queue.task) /\ (Live # {} => disk.state.phase = 1)
  BY <1>2 DEF ChildInv, Logical
<1>3. ASSUME journal = NoJournal, FromFiles
      PROVE  Live \subseteq Running(mem'.queue.task) /\ (Live # {} => mem'.state.phase = 1)
  <2> USE <1>0, <1>2, <1>3 DEF Running, Snapshot, Queue, State
  <2>1. CASE \A t \in Running(disk.queue.task) : recorded[t] = "gone"
    BY <2>1 DEF Live
  <2>2. CASE mem' = WithTasks(disk, Released(disk.queue.task))
    BY <2>2 DEF WithTasks, Released
  <2>3. CASE Running(disk.queue.task) = {}
    BY <2>3
  <2>4. CASE disk.state.phase = 0
    BY <2>4
  <2>5. CASE mem' = Seeded
    BY <2>5 DEF Seeded, WithTasks, Materialized
  <2>6. ASSUME NEW t \in Appended, disk.queue.task[t] = "ABSENT",
               mem' = [disk EXCEPT !.queue.task[t] = "READY"]
        PROVE  Live \subseteq Running(mem'.queue.task) /\ (Live # {} => mem'.state.phase = 1)
    BY <2>6
  <2> QED BY <2>1, <2>2, <2>3, <2>4, <2>5, <2>6 DEF FromFiles
<1>4. ASSUME journal = NoJournal, FromOutcome PROVE Live' = {}
  <2>1. Live \subseteq {cur}
    BY <1>2, <1>4 DEF FromOutcome, SingleInv, Single, Running
  <2>2. CASE pc = "execute"
    BY <2>2 DEF ChildInv
  <2>3. CASE recorded'[cur] = "gone"
    BY <2>1, <2>3 DEF Live
  <2> QED BY <1>4, <2>2, <2>3 DEF FromOutcome
<1> QED BY <1>1, <1>3, <1>4, CopySource

(* The command's part of ChildInv: places and its own child.               *)
LEMMA ChildPlaces ==
    ASSUME RecoveringOnly, TypeInv, JournalInv, ChildInv, [Next]_vars, Live' \subseteq Live \/ RecordProcess
    PROVE  /\ pc' \in {"execute", "spawned"} \/ (pc' \in Committing /\ ret' = "execute") => Live' = {}
           /\ pc' # "spawned" => spawn' = "none"
           /\ pc' \in {"spawned", "waiting"} => mem'.state.phase = 1
<1>0. ret \in Returns /\ cur \in Tasks \cup {NoTask}
  BY TypeParts DEF SessionOK
<1> USE DEF ChildInv
<1>1. CASE UNCHANGED vars
  BY <1>1 DEF vars, sessionVars, labVars, Live
<1>2. CASE Leave
  BY <1>2 DEF Leave, Committing
<1>3. CASE RecordProcess
  BY <1>3 DEF RecordProcess, Committing
<1>4. CASE Spawn
  BY <1>4 DEF Spawn, Committing, labVars, Live
<1>5. ASSUME NEW snap, NEW next \in Returns \ {"execute"}, Commit(snap, next), pc # "spawned"
      PROVE  pc' = "journal" /\ ret' # "execute" /\ spawn' = "none"
  BY <1>5 DEF Commit
<1>6. ASSUME NEW next \in Places, Goto(next), pc # "spawned", Live' \subseteq Live,
             next \in {"execute"} \cup Committing => pc \in Committing,
             next = "execute" => ret = "execute",
             next \notin {"spawned", "waiting"}
      PROVE  /\ pc' \in {"execute", "spawned"} \/ (pc' \in Committing /\ ret' = "execute") => Live' = {}
             /\ pc' # "spawned" => spawn' = "none"
             /\ pc' \in {"spawned", "waiting"} => mem'.state.phase = 1
  BY <1>2, <1>6 DEF Goto
<1>7. CASE CommitStep
  BY <1>0, <1>6, <1>7, LiveFrom DEF CommitStep, WriteJournal, WriteQueue, WriteState, WriteScore,
     DropJournal, Committing, Places, Returns, RecordProcess
<1>8. CASE Recover
  <2> DEFINE next == CASE cmd = "cycle" -> "orphans" [] cmd = "dry-run" -> "plan" [] OTHER -> "body"
  <2>1. next \in {"orphans", "plan", "body"}
    OBVIOUS
  <2> HIDE DEF next
  <2>2. Goto(next) \/ Commit(journal, next) \/ Leave
    BY <1>8 DEF Recover, next
  <2>3. pc # "spawned" /\ Live' \subseteq Live
    BY <1>8, LiveFrom DEF Recover, RecordProcess
  <2> QED BY <1>2, <1>5, <1>6, <2>1, <2>2, <2>3 DEF Returns, Places, Committing
<1>9. CASE RecoverOrphans
  <2> DEFINE next == IF cmd = "cycle" THEN "plan" ELSE "idle"
  <2>1. next \in {"plan", "idle"}
    OBVIOUS
  <2> HIDE DEF next
  <2>2. Goto(next) \/ Commit(Retried(disk), next) \/ Leave
    BY <1>9 DEF RecoverOrphans, next
  <2>3. pc # "spawned" /\ Live' \subseteq Live
    BY <1>9, LiveFrom DEF RecoverOrphans, RecordProcess
  <2> QED BY <1>2, <1>5, <1>6, <2>1, <2>2, <2>3 DEF Returns, Places, Committing
<1>10. CASE Plan
  BY <1>2, <1>5, <1>10 DEF Plan, Returns, Committing
<1>11. CASE SelectTask
  <2>1. CASE pc' = "journal"
    <3>1. pc = "select" /\ journal = NoJournal /\ UNCHANGED <<labVars, spawn>>
      BY <1>11, <2>1 DEF SelectTask, JournalInv, CommitInv, Working, Leave
    <3>2. Running(disk.queue.task) = {}
      BY <1>11, <2>1, <3>1 DEF SelectTask, JournalInv, CopyInv, At, Leave
    <3>3. Live' = {}
      BY <3>1, <3>2 DEF Logical, Live, labVars
    <3> QED BY <2>1, <3>1, <3>3
  <2>2. CASE pc' # "journal"
    BY <1>2, <1>11, <2>2 DEF SelectTask
  <2> QED BY <2>1, <2>2
<1>12. CASE Execute /\ ~RecordProcess /\ ~Spawn
  <2>1. pc # "spawned" /\ (Leave \/ \E outcome : Finish(outcome))
    BY <1>12 DEF Execute, ExecutePhaseZero, ExecuteLocal, ExecuteInventory, ExecuteUnmapped, Collect,
       Timeout
  <2> QED BY <1>2, <1>5, <2>1 DEF Finish, Returns, Committing
<1>13. CASE Again
  BY <1>2, <1>13 DEF Again, Committing
<1>14. CASE Body
  <2>1. pc # "spawned" /\ (Leave \/ \E snap : Commit(snap, "idle"))
    BY <1>14 DEF Body, RecordG0, MaterializeCatalog, EnqueueTask, RecoverExistingG1, ReconcileG1
  <2> QED BY <1>2, <1>5, <2>1 DEF Returns, Committing
<1>15. CASE \E c \in Commands : Start(c)
  <2>1. PICK c \in Recovering : Start(c)
    BY <1>15 DEF RecoveringOnly
  <2> QED BY <2>1 DEF Start, Recovering, Committing
<1>16. CASE ChildExits
  <2>1. ~RecordProcess
    BY <1>16 DEF ChildExits, RecordProcess
  <2> QED BY <1>16, <2>1 DEF ChildExits
<1>17. CASE Interrupt
  BY <1>2, <1>17 DEF Interrupt
<1>18. CASE ResumeRead \/ ResumeWrite \/ NextWeek
  BY <1>18 DEF ResumeRead, ResumeWrite, NextWeek, sessionVars, labVars, Live
<1> QED BY <1>1, <1>3, <1>4, <1>7, <1>8, <1>9, <1>10, <1>11, <1>12, <1>13, <1>14, <1>15, <1>16, <1>17, <1>18
        DEF Next, CommandStep

(* ChildInv is kept by every step.                                         *)
LEMMA ChildKeeps ==
    ASSUME RecoveringOnly, TypeInv, JournalInv, SingleInv, ChildInv, [Next]_vars
    PROVE  ChildInv'
<1>1. CASE RecordProcess
  <2>1. /\ pc = "spawned" /\ pc' = "waiting" /\ spawn' = "none" /\ UNCHANGED <<storeVars, mem>>
        /\ Live' \subseteq Live \cup {cur}
    BY <1>1, LiveFrom DEF RecordProcess, Live
  <2>2. journal = NoJournal /\ mem = disk /\ mem.queue.task[cur] = "RUNNING" /\ cur \in Tasks
    BY <2>1, TypeParts DEF JournalInv, CommitInv, CopyInv, Working, Executing, SessionOK
  <2>3. Live = {} /\ mem.state.phase = 1
    BY <2>1 DEF ChildInv
  <2>4. Logical' = mem
    BY <2>1, <2>2 DEF Logical, storeVars
  <2>5. Live' \subseteq Running(mem.queue.task)
    BY <2>1, <2>2, <2>3 DEF Running
  <2> QED BY <2>1, <2>3, <2>4, <2>5 DEF ChildInv, Committing, Running
<1>2. CASE Live' \subseteq Live
  <2>1. Live' \subseteq Running(Logical'.queue.task) /\ (Live' # {} => Logical'.state.phase = 1)
    <3>1. CASE Logical' = Logical
      BY <1>2, <3>1 DEF ChildInv
    <3>2. CASE pc = "journal" /\ Logical' = mem
      BY <1>2, <3>2 DEF ChildInv
    <3> QED BY <3>1, <3>2, LogicalStep
  <2>2. pc' = "journal" => Live' \subseteq Running(mem'.queue.task) /\ (Live' # {} => mem'.state.phase = 1)
    <3>1. CASE pc = "journal"
      BY <1>2, <3>1, CopyStays DEF ChildInv
    <3>2. CASE pc # "journal"
      BY <1>2, <3>2, CopyLive
    <3> QED BY <3>1, <3>2
  <2> QED BY <1>2, <2>1, <2>2, ChildPlaces DEF ChildInv, Running
<1> QED BY <1>1, <1>2, LiveFrom

(* At most one child is alive that anybody knows of, however often commands *)
(* are interrupted: a child is not started beside one that is recorded.     *)
THEOREM KnownChildIsAlone == RecoveringOnly => (Spec => []OneKnownChild)
<1> SUFFICES ASSUME RecoveringOnly PROVE Spec => []OneKnownChild
  OBVIOUS
<1>1. ASSUME Init PROVE ChildInv /\ SingleInv
  <2>1. Live = {} /\ pc = "idle" /\ spawn = "none"
    BY <1>1 DEF Init, Live
  <2>2. Logical = disk /\ disk.queue.task = InitialTasks
    BY <1>1 DEF Init, InitialSnapshot, Logical
  <2>3. Running(InitialTasks) = {}
    BY InitialAssumption DEF Running
  <2> QED BY <2>1, <2>2, <2>3 DEF ChildInv, Committing, SingleInv, Single
<1>2. TypeInv /\ JournalInv /\ SingleInv /\ [Next]_vars => SingleInv'
  BY SingleKeeps
<1>3. TypeInv /\ JournalInv /\ SingleInv /\ ChildInv /\ [Next]_vars => ChildInv'
  BY ChildKeeps
<1>4. SingleInv /\ ChildInv => OneKnownChild
  <2> SUFFICES ASSUME SingleInv, ChildInv PROVE OneKnownChild
    OBVIOUS
  <2>1. CASE Live = {}
    <3>1. Cardinality(Live) = 0
      BY <2>1, FS_EmptySet
    <3> QED BY <3>1 DEF OneKnownChild, Live
  <2>2. CASE Live # {}
    <3>1. PICK t : Live = {t}
      BY <2>2 DEF ChildInv, SingleInv, Single
    <3>2. Cardinality({t}) = 1
      BY FS_Singleton
    <3>3. spawn # "live"
      BY <2>2 DEF ChildInv
    <3> QED BY <3>1, <3>2, <3>3 DEF OneKnownChild, Live
  <2> QED BY <2>1, <2>2
<1> QED BY <1>1, <1>2, <1>3, <1>4, JournalInvariant, PTL DEF Spec

-----------------------------------------------------------------------------
(* The queue's weekly counts and the scorecard tell the same story.         *)

\* The completions of a workstream by week, and its checkpoints by task.
WeeksOf(snap, s) == [w \in Weeks |-> snap.queue.weekly[w][s]]
PointsOf(snap, s) == [t \in Tasks |-> IF StreamOf[t] = s THEN snap.score[t] ELSE 0]

\* Accounting, said of any sums.
Balanced(snap) ==
    \A s \in Streams : \A g, h :
        IsSum(g, WeeksOf(snap, s), Weeks) /\ IsSum(h, PointsOf(snap, s), Tasks)
            => g[Weeks] = h[Tasks]

(* Both are counts.                                                         *)
LEMMA CountsType ==
    ASSUME NEW a \in Snapshot, NEW s \in Streams
    PROVE  WeeksOf(a, s) \in [Weeks -> Nat] /\ PointsOf(a, s) \in [Tasks -> Nat]
  BY DEF WeeksOf, PointsOf, Snapshot, Queue, Score

(* The fold over the weeks is one of these sums ...                         *)
LEMMA WeeksSummed ==
    ASSUME NEW a \in Snapshot, NEW s \in Streams
    PROVE  \E g : /\ IsSum(g, WeeksOf(a, s), Weeks)
                  /\ g[Weeks] = Ledger!MapThenSumSet(LAMBDA w : a.queue.weekly[w][s], Weeks)
<1> DEFINE F(h) == [u \in SUBSET Weeks |->
                       IF u = {} THEN 0
                       ELSE a.queue.weekly[CHOOSE x \in u : TRUE][s]
                            + h[u \ {CHOOSE x \in u : TRUE}]]
           H == CHOOSE h : h = F(h)
<1>1. ASSUME NEW h PROVE F(h) = [u \in SUBSET Weeks |->
                       IF u = {} THEN 0
                       ELSE WeeksOf(a, s)[Chosen(u)] + h[u \ {Chosen(u)}]]
  <2>1. ASSUME NEW u \in SUBSET Weeks, u # {}
        PROVE  WeeksOf(a, s)[Chosen(u)] = a.queue.weekly[Chosen(u)][s]
    <3>1. Chosen(u) \in Weeks
        BY <2>1 DEF Chosen
    <3> QED BY <3>1 DEF WeeksOf
  <2> QED BY <2>1 DEF Chosen
<1>2. PICK g : IsSum(g, WeeksOf(a, s), Weeks)
    BY CountsType, SumExists, QueueAssumption
<1>3. g = F(g)
    BY <1>1, <1>2 DEF IsSum
<1>4. H = F(H)
    BY <1>3
<1>5. IsSum(H, WeeksOf(a, s), Weeks)
    BY <1>1, <1>4 DEF IsSum
<1>6. Ledger!MapThenSumSet(LAMBDA w : a.queue.weekly[w][s], Weeks) = H[Weeks]
    BY DEF Ledger!MapThenSumSet, Ledger!MapThenFoldSet
<1> QED BY <1>5, <1>6

(* ... and the fold over the tasks as well.                                 *)
LEMMA PointsSummed ==
    ASSUME NEW a \in Snapshot, NEW s \in Streams
    PROVE  \E g : /\ IsSum(g, PointsOf(a, s), Tasks)
                  /\ g[Tasks] = Ledger!MapThenSumSet(
                        LAMBDA t : IF StreamOf[t] = s THEN a.score[t] ELSE 0, Tasks)
<1> DEFINE Points(t) == IF StreamOf[t] = s THEN a.score[t] ELSE 0
           F(h) == [u \in SUBSET Tasks |->
                       IF u = {} THEN 0
                       ELSE Points(CHOOSE x \in u : TRUE) + h[u \ {CHOOSE x \in u : TRUE}]]
           H == CHOOSE h : h = F(h)
<1>1. ASSUME NEW h PROVE F(h) = [u \in SUBSET Tasks |->
                       IF u = {} THEN 0
                       ELSE PointsOf(a, s)[Chosen(u)] + h[u \ {Chosen(u)}]]
  <2>1. ASSUME NEW u \in SUBSET Tasks, u # {}
        PROVE  PointsOf(a, s)[Chosen(u)] = Points(Chosen(u))
    <3>1. Chosen(u) \in Tasks
        BY <2>1 DEF Chosen
    <3> QED BY <3>1 DEF PointsOf
  <2> HIDE DEF Points
  <2> QED BY <2>1 DEF Chosen
<1>2. PICK g : IsSum(g, PointsOf(a, s), Tasks)
    BY CountsType, SumExists, QueueAssumption
<1>3. g = F(g)
    BY <1>1, <1>2 DEF IsSum
<1>4. H = F(H)
    BY <1>3
<1>5. IsSum(H, PointsOf(a, s), Tasks)
    BY <1>1, <1>4 DEF IsSum
<1>6. Ledger!MapThenSumSet(LAMBDA t : IF StreamOf[t] = s THEN a.score[t] ELSE 0, Tasks) = H[Tasks]
    BY DEF Ledger!MapThenSumSet, Ledger!MapThenFoldSet
<1> QED BY <1>5, <1>6

(* What balances for any sums balances for the folds.                       *)
LEMMA BalancedAccounts ==
    ASSUME Logical \in Snapshot, Balanced(Logical) PROVE AccountingKept
<1> SUFFICES ASSUME NEW s \in Streams
             PROVE  Ledger!MapThenSumSet(LAMBDA w : Logical.queue.weekly[w][s], Weeks)
                        = Ledger!MapThenSumSet(
                            LAMBDA t : IF StreamOf[t] = s THEN Logical.score[t] ELSE 0, Tasks)
    BY DEF AccountingKept, Ledger!Accounting
<1>1. PICK g : /\ IsSum(g, WeeksOf(Logical, s), Weeks)
               /\ g[Weeks] = Ledger!MapThenSumSet(LAMBDA w : Logical.queue.weekly[w][s], Weeks)
    BY WeeksSummed
<1>2. PICK h : /\ IsSum(h, PointsOf(Logical, s), Tasks)
               /\ h[Tasks] = Ledger!MapThenSumSet(
                    LAMBDA t : IF StreamOf[t] = s THEN Logical.score[t] ELSE 0, Tasks)
    BY PointsSummed
<1>3. g[Weeks] = h[Tasks]
    BY <1>1, <1>2 DEF Balanced
<1> QED BY <1>1, <1>2, <1>3

(* Only a TERMINAL outcome moves the counts: it adds one to the week of the *)
(* task's own workstream and one to the task's checkpoints.                 *)
LEMMA CountsMove ==
    ASSUME NEW a \in Snapshot, NEW b, Transaction(a, b)
    PROVE  \/ b.queue.weekly = a.queue.weekly /\ b.score = a.score
           \/ \E t \in Tasks, w \in Weeks :
                 /\ b.queue.weekly = [a.queue.weekly EXCEPT ![w][StreamOf[t]] = @ + 1]
                 /\ b.score = [a.score EXCEPT ![t] = @ + 1]
<1> DEFINE Still == b.queue.weekly = a.queue.weekly /\ b.score = a.score
           Counts(t, w) == /\ b.queue.weekly = [a.queue.weekly EXCEPT ![w][StreamOf[t]] = @ + 1]
                           /\ b.score = [a.score EXCEPT ![t] = @ + 1]
<1>1. ASSUME NEW ts, b = WithTasks(a, ts) PROVE Still
  BY <1>1 DEF WithTasks, Snapshot, Queue
<1>2. CASE b = WithTasks(a, Released(a.queue.task))
  BY <1>1, <1>2
<1>3. CASE \E t \in Tasks : b = Started(a, t)
  BY <1>3 DEF Started, Snapshot, Queue
<1>4. ASSUME NEW t \in Tasks, NEW outcome \in Ledger!Outcomes, NEW w \in Weeks,
             b = Finished(a, t, outcome, w)
      PROVE  Still \/ Counts(t, w)
  BY <1>4 DEF Finished, Snapshot, Queue
<1>5. CASE b = Retried(a)
  BY <1>1, <1>5 DEF Retried
<1>6. CASE b = G0Passed(a)
  BY <1>6 DEF G0Passed, WithTasks, Snapshot, Queue
<1>7. CASE b = WithTasks(a, Materialized(a.queue.task))
  BY <1>1, <1>7
<1>8. CASE \E t \in Appended : b = [a EXCEPT !.queue.task[t] = "READY"]
  BY <1>8 DEF Snapshot, Queue
<1>9. CASE \E t \in Tasks, outcome \in Ledger!Outcomes, w \in Weeks : b = Finished(a, t, outcome, w)
  <2> HIDE DEF Still, Counts
  <2>1. PICK t \in Tasks, outcome \in Ledger!Outcomes, w \in Weeks : b = Finished(a, t, outcome, w)
    BY <1>9
  <2>2. Still \/ Counts(t, w)
    BY <1>4, <2>1
  <2> QED BY <2>2 DEF Still, Counts
<1> QED BY <1>2, <1>3, <1>5, <1>6, <1>7, <1>8, <1>9, Zenon DEF Transaction

(* A transaction keeps the balance.                                         *)
LEMMA TransactionBalances ==
    ASSUME NEW a \in Snapshot, NEW b \in Snapshot, Balanced(a), Transaction(a, b)
    PROVE  Balanced(b)
<1> SUFFICES ASSUME NEW s \in Streams, NEW g, NEW h,
                    IsSum(g, WeeksOf(b, s), Weeks), IsSum(h, PointsOf(b, s), Tasks)
             PROVE  g[Weeks] = h[Tasks]
    BY DEF Balanced
<1>0. /\ a.queue.weekly \in [Weeks -> [Streams -> Nat]] /\ a.score \in [Tasks -> Nat]
      /\ b.queue.weekly \in [Weeks -> [Streams -> Nat]] /\ b.score \in [Tasks -> Nat]
      /\ IsFiniteSet(Weeks) /\ IsFiniteSet(Tasks) /\ StreamOf \in [Tasks -> Streams]
    BY QueueAssumption DEF Snapshot, Queue, Score
<1>1. PICK x : IsSum(x, WeeksOf(a, s), Weeks)
    BY <1>0, CountsType, SumExists
<1>2. PICK y : IsSum(y, PointsOf(a, s), Tasks)
    BY <1>0, CountsType, SumExists
<1>3. x[Weeks] = y[Tasks]
    BY <1>1, <1>2 DEF Balanced
<1>4. ASSUME WeeksOf(b, s) = WeeksOf(a, s), PointsOf(b, s) = PointsOf(a, s)
      PROVE  g[Weeks] = h[Tasks]
    BY <1>4 DEF Balanced
<1>5. CASE b.queue.weekly = a.queue.weekly /\ b.score = a.score
    BY <1>4, <1>5 DEF WeeksOf, PointsOf
<1>6. ASSUME NEW t \in Tasks, NEW w \in Weeks,
             b.queue.weekly = [a.queue.weekly EXCEPT ![w][StreamOf[t]] = @ + 1],
             b.score = [a.score EXCEPT ![t] = @ + 1]
      PROVE  g[Weeks] = h[Tasks]
  <2>0. /\ \A v \in Weeks : b.queue.weekly[v][s] = IF v = w /\ s = StreamOf[t]
                                                    THEN a.queue.weekly[v][s] + 1
                                                    ELSE a.queue.weekly[v][s]
        /\ \A u \in Tasks : b.score[u] = IF u = t THEN a.score[u] + 1 ELSE a.score[u]
      BY <1>0, <1>6
  <2>1. CASE s # StreamOf[t]
    <3>1. WeeksOf(b, s) = WeeksOf(a, s)
        BY <2>0, <2>1 DEF WeeksOf
    <3>2. PointsOf(b, s) = PointsOf(a, s)
        BY <2>0, <2>1 DEF PointsOf
    <3> QED BY <1>4, <3>1, <3>2
  <2>2. CASE s = StreamOf[t]
    <3>1. g[Weeks] = x[Weeks] + 1
      <4>1. /\ WeeksOf(b, s)[w] = WeeksOf(a, s)[w] + 1
            /\ \A v \in Weeks \ {w} : WeeksOf(b, s)[v] = WeeksOf(a, s)[v]
          BY <2>0, <2>2 DEF WeeksOf
      <4>2. WeeksOf(a, s) \in [Weeks -> Nat] /\ WeeksOf(b, s) \in [Weeks -> Nat]
          BY CountsType
      <4> DEFINE before == WeeksOf(a, s)
                 after == WeeksOf(b, s)
      <4>3. IsSum(x, before, Weeks) /\ IsSum(g, after, Weeks)
          BY <1>1
      <4>4. before \in [Weeks -> Nat] /\ after \in [Weeks -> Nat]
          BY <4>2
      <4>5. after = [before EXCEPT ![w] = @ + 1]
          BY <4>1, <4>4
      <4> HIDE DEF before, after
      <4>6. OneMore(after, before, w, Weeks)
          BY <1>0, <4>4, <4>5 DEF OneMore
      <4> QED BY <4>3, <4>6, SumAddsOne
    <3>2. h[Tasks] = y[Tasks] + 1
      <4>1. /\ PointsOf(b, s)[t] = PointsOf(a, s)[t] + 1
            /\ \A u \in Tasks \ {t} : PointsOf(b, s)[u] = PointsOf(a, s)[u]
          BY <2>0, <2>2 DEF PointsOf
      <4>2. PointsOf(a, s) \in [Tasks -> Nat] /\ PointsOf(b, s) \in [Tasks -> Nat]
          BY CountsType
      <4> DEFINE before == PointsOf(a, s)
                 after == PointsOf(b, s)
      <4>3. IsSum(y, before, Tasks) /\ IsSum(h, after, Tasks)
          BY <1>2
      <4>4. before \in [Tasks -> Nat] /\ after \in [Tasks -> Nat]
          BY <4>2
      <4>5. after = [before EXCEPT ![t] = @ + 1]
          BY <4>1, <4>4
      <4> HIDE DEF before, after
      <4>6. OneMore(after, before, t, Tasks)
          BY <1>0, <4>4, <4>5 DEF OneMore
      <4> QED BY <4>3, <4>6, SumAddsOne
    <3> QED BY <1>3, <3>1, <3>2
  <2> QED BY <2>1, <2>2
<1> DEFINE Counts(t, w) == /\ b.queue.weekly = [a.queue.weekly EXCEPT ![w][StreamOf[t]] = @ + 1]
                           /\ b.score = [a.score EXCEPT ![t] = @ + 1]
<1>7. CASE \E t \in Tasks, w \in Weeks : Counts(t, w)
  <2>1. PICK t \in Tasks, w \in Weeks : Counts(t, w)
      BY <1>7
  <2> QED BY <1>6, <2>1
<1> QED BY <1>5, <1>7, CountsMove

(* Read through the journal, the weeks of every workstream add up to the    *)
(* checkpoints of its tasks, however the commands that recover first are    *)
(* interrupted (the two writes of the outcome are one commit).              *)
THEOREM AccountsBalance == RecoveringOnly => (Spec => []AccountingKept)
<1> SUFFICES ASSUME RecoveringOnly PROVE Spec => []AccountingKept
  OBVIOUS
<1>1. Init => Balanced(Logical)
  <2> SUFFICES ASSUME Init PROVE Balanced(Logical)
    OBVIOUS
  <2>1. PICK paused \in BOOLEAN : Logical = InitialSnapshot(paused)
    BY InitImplemented, SameOperators DEF Ledger!Init
  <2>2. Logical \in Snapshot
    BY <2>1, InitialType
  <2> SUFFICES ASSUME NEW s \in Streams, NEW g, NEW h,
                      IsSum(g, WeeksOf(Logical, s), Weeks), IsSum(h, PointsOf(Logical, s), Tasks)
               PROVE  g[Weeks] = h[Tasks]
    BY DEF Balanced
  <2>3. \A w \in Weeks : WeeksOf(Logical, s)[w] = 0
    BY <2>1 DEF WeeksOf, InitialSnapshot
  <2>4. \A t \in Tasks : PointsOf(Logical, s)[t] = 0
    BY <2>1 DEF PointsOf, InitialSnapshot
  <2>5. g[Weeks] = 0
    BY <2>2, <2>3, CountsType, SumOfZeros, QueueAssumption
  <2>6. h[Tasks] = 0
    BY <2>2, <2>4, CountsType, SumOfZeros, QueueAssumption
  <2> QED BY <2>5, <2>6
<1>2. TypeInv /\ TypeInv' /\ JournalInv /\ Balanced(Logical) /\ [Next]_vars => Balanced(Logical)'
  <2> SUFFICES ASSUME TypeInv, TypeInv', JournalInv, Balanced(Logical), [Next]_vars
               PROVE  Balanced(Logical)'
    OBVIOUS
  <2>1. Logical \in Snapshot /\ Logical' \in Snapshot
    BY LogicalType, TypePartsNext DEF WorldOK, Logical
  <2>2. Balanced(Logical')
    BY <2>1, StepTransacts, TransactionBalances
  <2> QED BY <2>2 DEF Balanced, WeeksOf, PointsOf
<1>3. TypeInv /\ Balanced(Logical) => AccountingKept
  BY LogicalType, BalancedAccounts
<1> QED BY <1>1, <1>2, <1>3, JournalInvariant, PTL DEF Spec
=============================================================================
