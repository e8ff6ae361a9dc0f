---------------------------- MODULE RegimeLedger ----------------------------
(***************************************************************************)
(* What the RegimeMoE commands promise: one ledger - queue, program state  *)
(* and scorecard together - that changes only by whole transactions.       *)
(* There are no files, no journal, no processes and no crashes here;       *)
(* RegimeController has them and is checked against this specification.    *)
(***************************************************************************)
EXTENDS RegimeQueue, FiniteSetsExt

VARIABLE ledger

tasks == ledger.queue.task

Outcomes == {"TERMINAL", "WAITING_EXTERNAL", "HUMAN_APPROVAL",
             "ADAPTER_NOT_CONFIGURED", "FAILED"}

Init == \E paused \in BOOLEAN : ledger = InitialSnapshot(paused)

\* cycle, first commit: dependency-blocked tasks whose dependencies are done.
Release == ledger' = WithTasks(ledger, Released(tasks))

\* Mutant of Start: a task already RUNNING is not looked for.
StartBesides(t) ==
    /\ ~ledger.state.paused
    /\ t \in Candidates(tasks)
    /\ ledger' = Started(ledger, t)

\* cycle, second commit: one task at a time, and never during a usage pause.
Start(t) ==
    /\ ~ledger.state.paused
    /\ Running(tasks) = {}
    /\ t \in Candidates(tasks)
    /\ ledger' = Started(ledger, t)

\* cycle, third commit: outcome, weekly count and scorecard together.
Finish(t, outcome, week) ==
    /\ tasks[t] = "RUNNING"
    /\ ledger' = Finished(ledger, t, outcome, week)

\* An interrupted invocation is offered again.
Retry ==
    /\ Running(tasks) # {}
    /\ ledger' = Retried(ledger)

PassG0 ==
    /\ ledger.state.phase = 0
    /\ ledger' = G0Passed(ledger)

Materialize == ledger' = WithTasks(ledger, Materialized(tasks))

Enqueue(t) ==
    /\ ledger.state.phase = 1
    /\ tasks[t] = "ABSENT"
    /\ ledger' = [ledger EXCEPT !.queue.task[t] = "READY"]

RecoverG1 == ledger' = WithTasks(ledger, G1Recovered(tasks))

Reconcile(verdict) ==
    /\ tasks[Gate] # "ABSENT"
    /\ ledger' = WithTasks(ledger, Reconciled(tasks, verdict))

Resume == ledger' = [ledger EXCEPT !.state.paused = FALSE]

Next ==
    \/ Release
    \/ \E t \in Tasks : Start(t)
    \/ \E t \in Tasks, outcome \in Outcomes, week \in Weeks : Finish(t, outcome, week)
    \/ Retry
    \/ PassG0
    \/ Materialize
    \/ \E t \in Appended : Enqueue(t)
    \/ RecoverG1
    \/ \E verdict \in {"PASS", "FAIL"} : Reconcile(verdict)
    \/ Resume

Spec == Init /\ [][Next]_ledger

-----------------------------------------------------------------------------
(* Properties.                                                             *)

(* Queue, state and scorecard have their types.                            *)
TypeOK == ledger \in Snapshot

(* One bounded task at a time: never two tasks marked RUNNING.             *)
SingleRunning == Cardinality(Running(tasks)) <= 1

(* No task is scored twice, however often it is interrupted, retried,      *)
(* reset by recover-existing-g1 or re-judged by reconcile-g1-integration.  *)
CompletedOnce == \A t \in Tasks : ledger.score[t] <= 1

(* Why CompletedOnce holds: a scored task stays in the states from which   *)
(* no command makes it READY again.                                        *)
Settled == {"TERMINAL", "FAILED", "HUMAN_APPROVAL", "DUPLICATE"}
ScoredSettled == \A t \in Tasks : ledger.score[t] > 0 => tasks[t] \in Settled

(* The queue's weekly counts and the scorecard tell the same story: for    *)
(* every workstream the weeks add up to the checkpoints of its tasks.      *)
Accounting ==
    \A s \in Streams :
        MapThenSumSet(LAMBDA w : ledger.queue.weekly[w][s], Weeks)
            = MapThenSumSet(LAMBDA t : IF StreamOf[t] = s THEN ledger.score[t] ELSE 0, Tasks)
=============================================================================
