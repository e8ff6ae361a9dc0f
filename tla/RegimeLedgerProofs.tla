------------------------- MODULE RegimeLedgerProofs -------------------------
(* The ledger, for every queue: types, one task at a time, no task scored   *)
(* twice.                                                                   *)
EXTENDS RegimeLedger, RegimeQueueProofs, FiniteSetTheorems, TLAPS

-----------------------------------------------------------------------------
(* Queue, state and scorecard keep their types in every transaction.       *)
THEOREM TypeCorrect == Spec => []TypeOK
<1>1. Init => TypeOK
  BY InitialAssumption DEF Init, TypeOK, InitialSnapshot, Snapshot, Queue, State, Score, TaskStates
<1>2. TypeOK /\ [Next]_ledger => TypeOK'
  <2> SUFFICES ASSUME TypeOK, [Next]_ledger PROVE TypeOK'
    OBVIOUS
  <2>0. tasks \in [Tasks -> TaskStates]
    BY DEF TypeOK, tasks, Snapshot, Queue
  <2>1. CASE Release
    BY <2>0, <2>1, ReleasedType, WithTasksType DEF Release, TypeOK
  <2>2. ASSUME NEW t \in Tasks, Start(t) PROVE TypeOK'
    BY <2>2, StartedType DEF Start, TypeOK
  <2>3. ASSUME NEW t \in Tasks, NEW outcome \in Outcomes, NEW week \in Weeks,
               Finish(t, outcome, week)
        PROVE  TypeOK'
    BY <2>3, FinishedType DEF Finish, TypeOK, Outcomes, TaskStates
  <2>4. CASE Retry
    BY <2>4, RetriedType DEF Retry, TypeOK
  <2>5. CASE PassG0
    BY <2>5, G0PassedType DEF PassG0, TypeOK
  <2>6. CASE Materialize
    BY <2>0, <2>6, MaterializedType, WithTasksType DEF Materialize, TypeOK
  <2>7. ASSUME NEW t \in Appended, Enqueue(t) PROVE TypeOK'
    BY <2>7 DEF Enqueue, TypeOK, Snapshot, Queue, TaskStates
  <2>8. CASE RecoverG1
    BY <2>0, <2>8, G1RecoveredType, WithTasksType DEF RecoverG1, TypeOK
  <2>9. ASSUME NEW verdict \in {"PASS", "FAIL"}, Reconcile(verdict) PROVE TypeOK'
    BY <2>0, <2>9, ReconciledType, WithTasksType DEF Reconcile, TypeOK
  <2>10. CASE Resume
    BY <2>10 DEF Resume, TypeOK, Snapshot, State
  <2>11. CASE UNCHANGED ledger
    BY <2>11 DEF TypeOK
  <2> QED BY <2>1, <2>2, <2>3, <2>4, <2>5, <2>6, <2>7, <2>8, <2>9, <2>10, <2>11 DEF Next
<1> QED BY <1>1, <1>2, PTL DEF Spec

-----------------------------------------------------------------------------
(* What a step does to the tasks: the facts the invariants below rest on.   *)

(* What TypeOK says of the task map and the scorecard.                     *)
LEMMA TaskTypes == ASSUME TypeOK
                   PROVE  tasks \in [Tasks -> TaskStates] /\ ledger.score \in [Tasks -> Nat]
  BY DEF TypeOK, tasks, Snapshot, Queue, Score

\* Only Finish scores, one checkpoint for a task that is RUNNING ...
Scores(t) ==
    /\ tasks[t] = "RUNNING" /\ tasks'[t] = "TERMINAL"
    /\ ledger'.score = [ledger.score EXCEPT ![t] = @ + 1]

\* ... and the other steps move a task only as far as this.
Moves(t) ==
    \/ tasks'[t] = tasks[t]
    \/ tasks[t] \notin Settled
    \/ tasks'[t] \in Settled

(* A step scores one RUNNING task, or scores nothing and leaves the settled *)
(* ones settled.                                                           *)
LEMMA StepMoves ==
    ASSUME TypeOK, Next
    PROVE  \/ \E t \in Tasks : Scores(t) /\ \A u \in Tasks \ {t} : tasks'[u] = tasks[u]
           \/ ledger'.score = ledger.score /\ \A t \in Tasks : Moves(t)
<1> USE TaskTypes DEF TypeOK, Snapshot, Queue, tasks, Moves, Settled
<1>1. CASE Release
  BY <1>1, ReleasedMoves DEF Release, WithTasks
<1>2. ASSUME NEW t \in Tasks, Start(t)
      PROVE  ledger'.score = ledger.score /\ \A u \in Tasks : Moves(u)
  BY <1>2 DEF Start, Started, Candidates
<1>3. ASSUME NEW t \in Tasks, NEW outcome \in Outcomes, NEW week \in Weeks,
             Finish(t, outcome, week)
      PROVE  \/ Scores(t) /\ \A u \in Tasks \ {t} : tasks'[u] = tasks[u]
             \/ ledger'.score = ledger.score /\ \A u \in Tasks : Moves(u)
  BY <1>3 DEF Finish, Finished, Scores
<1>4. CASE Retry
  BY <1>4 DEF Retry, Retried, WithTasks
<1>5. CASE PassG0
  BY <1>5 DEF PassG0, G0Passed, WithTasks
<1>6. CASE Materialize
  BY <1>6 DEF Materialize, Materialized, WithTasks
<1>7. ASSUME NEW t \in Appended, Enqueue(t)
      PROVE  ledger'.score = ledger.score /\ \A u \in Tasks : Moves(u)
  BY <1>7 DEF Enqueue
<1>8. CASE RecoverG1
  BY <1>8, ReleasedMoves DEF RecoverG1, G1Recovered, WithTasks
<1>9. ASSUME NEW verdict \in {"PASS", "FAIL"}, Reconcile(verdict)
      PROVE  ledger'.score = ledger.score /\ \A u \in Tasks : Moves(u)
  BY <1>9, ReleasedMoves DEF Reconcile, Reconciled, WithTasks
<1>10. CASE Resume
  BY <1>10 DEF Resume
<1> QED BY <1>1, <1>2, <1>3, <1>4, <1>5, <1>6, <1>7, <1>8, <1>9, <1>10 DEF Next

-----------------------------------------------------------------------------
(* A scored task is settled and is scored once.                             *)

OnceInv == CompletedOnce /\ ScoredSettled

(* The inductive form: no task scored twice, and what is scored is settled. *)
THEOREM ScoredOnce == Spec => [](CompletedOnce /\ ScoredSettled)
<1>1. Init => OnceInv
  BY DEF Init, InitialSnapshot, OnceInv, CompletedOnce, ScoredSettled
<1>2. TypeOK /\ OnceInv /\ [Next]_ledger => OnceInv'
  <2> SUFFICES ASSUME TypeOK, OnceInv, [Next]_ledger PROVE OnceInv'
    OBVIOUS
  <2> USE TaskTypes DEF OnceInv, CompletedOnce, ScoredSettled
  <2>1. ASSUME NEW t \in Tasks, Scores(t), \A u \in Tasks \ {t} : tasks'[u] = tasks[u]
        PROVE  OnceInv'
    <3>1. ledger.score[t] = 0
      BY <2>1 DEF Scores, Settled
    <3>2. ledger'.score[t] = 1 /\ tasks'[t] \in Settled
      BY <2>1, <3>1 DEF Scores, Settled
    <3>3. \A u \in Tasks \ {t} : ledger'.score[u] = ledger.score[u] /\ tasks'[u] = tasks[u]
      BY <2>1 DEF Scores
    <3> QED BY <3>2, <3>3
  <2>2. CASE ledger'.score = ledger.score /\ \A t \in Tasks : Moves(t)
    BY <2>2 DEF Moves
  <2>3. CASE UNCHANGED ledger
    BY <2>3 DEF tasks
  <2> QED BY <2>1, <2>2, <2>3, StepMoves
<1> QED BY <1>1, <1>2, TypeCorrect, PTL DEF Spec, OnceInv

(* No task is scored twice, for any queue, catalog and number of weeks.     *)
THEOREM EachCompletedOnce == Spec => []CompletedOnce
  BY ScoredOnce, PTL

-----------------------------------------------------------------------------
(* One task RUNNING at a time.                                              *)

OneRunning == \A t, u \in Running(tasks) : t = u

(* At most one RUNNING task, said with equality and with cardinality.      *)
LEMMA OneRunningCounts == OneRunning => SingleRunning
<1> SUFFICES ASSUME OneRunning PROVE SingleRunning
  OBVIOUS
<1>1. CASE Running(tasks) = {}
  BY <1>1, FS_EmptySet DEF SingleRunning
<1>2. CASE Running(tasks) # {}
  <2>1. PICK t : Running(tasks) = {t}
    BY <1>2 DEF OneRunning
  <2>2. Cardinality({t}) = 1
    BY FS_Singleton
  <2> QED BY <2>1, <2>2 DEF SingleRunning
<1> QED BY <1>1, <1>2

\* Every step but Start leaves at most the tasks RUNNING that are.
(* No other step starts a task.                                             *)
LEMMA OthersStartNothing ==
    ASSUME TypeOK, Next, ~ \E t \in Tasks : Start(t)
    PROVE  Running(tasks') \subseteq Running(tasks)
<1> USE TaskTypes DEF TypeOK, Snapshot, Queue, tasks, Running
<1>1. CASE Release
  BY <1>1, ReleasedMoves DEF Release, WithTasks
<1>2. ASSUME NEW t \in Tasks, NEW outcome \in Outcomes, NEW week \in Weeks,
             Finish(t, outcome, week)
      PROVE  Running(tasks') \subseteq Running(tasks)
  BY <1>2 DEF Finish, Finished, Outcomes
<1>3. CASE Retry
  BY <1>3 DEF Retry, Retried, WithTasks
<1>4. CASE PassG0
  BY <1>4 DEF PassG0, G0Passed, WithTasks
<1>5. CASE Materialize
  BY <1>5 DEF Materialize, Materialized, WithTasks
<1>6. ASSUME NEW t \in Appended, Enqueue(t)
      PROVE  Running(tasks') \subseteq Running(tasks)
  BY <1>6 DEF Enqueue
<1>7. CASE RecoverG1
  BY <1>7, ReleasedMoves DEF RecoverG1, G1Recovered, WithTasks
<1>8. ASSUME NEW verdict \in {"PASS", "FAIL"}, Reconcile(verdict)
      PROVE  Running(tasks') \subseteq Running(tasks)
  BY <1>8, ReleasedMoves DEF Reconcile, Reconciled, WithTasks
<1>9. CASE Resume
  BY <1>9 DEF Resume
<1> QED BY <1>1, <1>2, <1>3, <1>4, <1>5, <1>6, <1>7, <1>8, <1>9 DEF Next

(* Never two tasks RUNNING.                                                 *)
THEOREM OneTaskRunning == Spec => []SingleRunning
<1>1. Init => OneRunning
  BY InitialAssumption DEF Init, InitialSnapshot, OneRunning, Running, tasks
<1>2. TypeOK /\ OneRunning /\ [Next]_ledger => OneRunning'
  <2> SUFFICES ASSUME TypeOK, OneRunning, [Next]_ledger PROVE OneRunning'
    OBVIOUS
  <2>1. ASSUME NEW t \in Tasks, Start(t) PROVE OneRunning'
    <3>1. Running(tasks) = {} /\ tasks' = [tasks EXCEPT ![t] = "RUNNING"]
      BY <2>1 DEF Start, Started, TypeOK, Snapshot, Queue, tasks
    <3>2. Running(tasks') = {t}
      BY <3>1, TaskTypes DEF Running
    <3> QED BY <3>2 DEF OneRunning
  <2>2. CASE Next /\ ~ \E t \in Tasks : Start(t)
    BY <2>2, OthersStartNothing DEF OneRunning
  <2>3. CASE UNCHANGED ledger
    BY <2>3 DEF OneRunning, tasks, Running
  <2> QED BY <2>1, <2>2, <2>3
<1> QED BY <1>1, <1>2, TypeCorrect, OneRunningCounts, PTL DEF Spec
=============================================================================
