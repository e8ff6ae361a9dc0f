---------------------------- MODULE RegimeQueue ----------------------------
(***************************************************************************)
(* The data of the RegimeMoE controller and the pure functions that its    *)
(* commands apply to it: the work queue, the program state and the         *)
(* scorecard, which orchestrate_regimemoe.py keeps in three JSON files.    *)
(*                                                                         *)
(* A task is reduced to its life-cycle state; its priority and id to a     *)
(* rank; its adapter to a kind.  A scorecard is the number of checkpoints  *)
(* it holds for each task.  Checkpoints, prompts, hashes and wording are   *)
(* left out.                                                               *)
(***************************************************************************)
EXTENDS Integers, FiniteSets

CONSTANTS
    Tasks,      \* every task id that can appear in the queue
    Streams,    \* the queue's workstreams
    Weeks,      \* the ISO weeks completions can fall into
    Deps,       \* depends_on: the tasks whose TERMINAL outcome releases a task
    StreamOf,   \* the workstream of each task
    Rank,       \* the order (priority, id) as one number, no two tasks equal
    KindOf,     \* what execute_task does with a task
    G1,         \* ids that start with "g1-"
    Content,    \* tasks of the workstream AUDIENCE_AND_MONETIZATION
    Verified,   \* tasks carrying verified_provenance
    Recoverable,\* RECOVERABLE of g1_recovery_validation.py
    Gate,       \* g1-integration-gate
    Superseded, \* phase0-data-contract-review
    OnG0,       \* tasks production_queue appends
    Appended,   \* tasks the two enqueue commands append
    Catalog,    \* tasks of the authorized catalog
    Legacy,     \* weekly_completed_by_workstream, used in a week without entry
    InitialTasks, \* the queue file the controller starts from
    InitialPhase  \* state["phase"] it starts from

Kinds == {"smoke", "local", "inventory", "codex", "review", "none"}

\* STATES, without DEFERRED and PAUSED_FOR_USAGE, which no code assigns.
\* ABSENT: the id is not in the queue.  DUPLICATE: it is there twice.
TaskStates == {"ABSENT", "DUPLICATE", "READY", "RUNNING", "WAITING_EXTERNAL",
               "BLOCKED_DEPENDENCY", "HUMAN_APPROVAL", "TERMINAL", "FAILED",
               "ADAPTER_NOT_CONFIGURED"}

\* What the lab holds for a task: nothing, or a file that the code reading it
\* accepts (PASS) or rejects (FAIL).
Artifacts == {"absent", "PASS", "FAIL"}

ASSUME QueueAssumption ==
    /\ IsFiniteSet(Tasks) /\ IsFiniteSet(Streams) /\ IsFiniteSet(Weeks)
    /\ Deps \in [Tasks -> SUBSET Tasks]
    /\ StreamOf \in [Tasks -> Streams]
    /\ Rank \in [Tasks -> Nat]
    /\ \A t, u \in Tasks : Rank[t] = Rank[u] => t = u
    /\ KindOf \in [Tasks -> Kinds]
    /\ Legacy \in [Streams -> Nat]
    /\ Gate \in Tasks \ Recoverable
    /\ \A S \in {G1, Content, Verified, Recoverable, Superseded, OnG0, Appended, Catalog} :
            S \subseteq Tasks

\* What production_queue and the enqueue commands append has no dependencies
\* and is no content task, and nothing else names what production_queue appends.
ASSUME SeedAssumption ==
    /\ \A t \in OnG0 \cup Appended : Deps[t] = {} /\ t \notin Content
    /\ OnG0 \cap (Appended \cup Catalog \cup Superseded \cup Recoverable \cup {Gate}) = {}

\* In the authorized catalog no content task waits for a dependency without
\* carrying its provenance: release_satisfied_dependencies does not look.
ASSUME ProvenanceAssumption ==
    \A t \in Content \ Verified : Deps[t] = {}

\* The program starts from a queue that validate accepts, before any task has
\* run, and with the G0 task missing until G0 is recorded.
ASSUME InitialAssumption ==
    /\ InitialTasks \in [Tasks -> {"ABSENT", "READY", "BLOCKED_DEPENDENCY"}]
    /\ \A t \in Tasks : InitialTasks[t] # "ABSENT" =>
            \A d \in Deps[t] : InitialTasks[d] # "ABSENT"
    /\ \A t \in Content : InitialTasks[t] = "READY" => t \in Verified
    /\ InitialPhase \in {0, 1}
    /\ InitialPhase = 0 => \A t \in OnG0 : InitialTasks[t] = "ABSENT"

Queue == [task : [Tasks -> TaskStates], weekly : [Weeks -> [Streams -> Nat]]]
State == [phase : {0, 1}, paused : BOOLEAN]
Score == [Tasks -> Nat]
Snapshot == [queue : Queue, state : State, score : Score]

InitialSnapshot(paused) ==
    [queue |-> [task   |-> InitialTasks,
                weekly |-> [w \in Weeks |-> [s \in Streams |-> 0]]],
     state |-> [phase |-> InitialPhase, paused |-> paused],
     score |-> [t \in Tasks |-> 0]]

Present(ts) == {t \in Tasks : ts[t] # "ABSENT"}
Running(ts) == {t \in Tasks : ts[t] = "RUNNING"}

-----------------------------------------------------------------------------
(* validate: what a queue must satisfy before a command works on it.       *)
Valid(ts, artifact) ==
    /\ \A t \in Tasks : ts[t] # "DUPLICATE"
    /\ \A t \in Present(ts) : Deps[t] \subseteq Present(ts)
    /\ \A t \in Content : ts[t] = "READY" => t \in Verified
    /\ \A t \in Tasks : ts[t] = "TERMINAL" => artifact[t] # "absent"

(* dependency_outcomes_satisfied; every accepted outcome is TERMINAL.      *)
DepsSatisfied(ts, t) == \A d \in Deps[t] : ts[d] = "TERMINAL"

(* release_satisfied_dependencies *)
Released(ts) ==
    [t \in Tasks |-> IF ts[t] = "BLOCKED_DEPENDENCY" /\ DepsSatisfied(ts, t)
                     THEN "READY" ELSE ts[t]]

Candidates(ts) == {t \in Tasks : ts[t] = "READY" /\ DepsSatisfied(ts, t)}

\* The completions of this week, or the legacy totals before the first one.
Recent(q, week) ==
    IF \E s \in Streams : q.weekly[week][s] > 0 THEN q.weekly[week] ELSE Legacy

\* The sort key of select: g1 tasks, then the least served workstream, then
\* priority and id.
Precedes(recent, t, u) ==
    \/ t \in G1 /\ u \notin G1
    \/ /\ t \in G1 <=> u \in G1
       /\ \/ recent[StreamOf[t]] < recent[StreamOf[u]]
          \/ /\ recent[StreamOf[t]] = recent[StreamOf[u]]
             /\ Rank[t] < Rank[u]

(* select: the first candidate, as a set of none or one.                   *)
Select(q, week) ==
    {t \in Candidates(q.task) :
        \A u \in Candidates(q.task) \ {t} : Precedes(Recent(q, week), t, u)}

-----------------------------------------------------------------------------
(* What the commands make of a snapshot.                                   *)

WithTasks(snap, ts) == [snap EXCEPT !.queue.task = ts]

(* cycle: the selected task is marked RUNNING before its adapter runs.     *)
Started(snap, t) == [snap EXCEPT !.queue.task[t] = "RUNNING"]

\* Mutant of Finished: every outcome counts for the week.
FinishedAlwaysCounts(snap, t, outcome, week) ==
    [snap EXCEPT !.queue.task[t] = outcome,
                 !.queue.weekly[week][StreamOf[t]] = @ + 1,
                 !.score[t] = IF outcome = "TERMINAL" THEN @ + 1 ELSE @]

(* cycle: the outcome; only TERMINAL counts for the week and is scored.    *)
Finished(snap, t, outcome, week) ==
    IF outcome = "TERMINAL"
    THEN [snap EXCEPT !.queue.task[t] = outcome,
                      !.queue.weekly[week][StreamOf[t]] = @ + 1,
                      !.score[t] = @ + 1]
    ELSE [snap EXCEPT !.queue.task[t] = outcome]

\* Mutant of Retried: the checkpoint's status becomes the task's state.
RetriedWithStatus(snap) ==
    WithTasks(snap, [t \in Tasks |-> IF snap.queue.task[t] = "RUNNING"
                                     THEN "CAPTURE_INTERRUPTED_RETRY_AUTHORIZED"
                                     ELSE snap.queue.task[t]])

(* recover_orphaned_running_tasks *)
Retried(snap) ==
    WithTasks(snap, [t \in Tasks |-> IF snap.queue.task[t] = "RUNNING"
                                     THEN "READY" ELSE snap.queue.task[t]])

\* Mutant of Materialized: existing tasks are seeded again.
MaterializedAfresh(ts) ==
    [t \in Tasks |-> IF t \notin Catalog THEN ts[t]
                     ELSE IF Deps[t] = {} THEN "READY" ELSE "BLOCKED_DEPENDENCY"]

(* materialize_authorized_catalog: seed what is not there yet.             *)
Materialized(ts) ==
    [t \in Tasks |-> IF t \notin Catalog \/ ts[t] # "ABSENT" THEN ts[t]
                     ELSE IF Deps[t] = {} THEN "READY" ELSE "BLOCKED_DEPENDENCY"]

(* record_g0_foundation_pass and production_queue, which appends without   *)
(* looking whether the id is there.                                        *)
G0Passed(snap) ==
    [WithTasks(snap, [t \in Tasks |->
        CASE t \in Superseded /\ snap.queue.task[t] # "ABSENT" -> "HUMAN_APPROVAL"
          [] t \in OnG0 -> IF snap.queue.task[t] = "ABSENT" THEN "READY" ELSE "DUPLICATE"
          [] OTHER -> snap.queue.task[t]])
     EXCEPT !.state.phase = 1]

\* Mutant of G1Recovered: the gate is blocked again whatever its state.
G1RecoveredBlocksGate(ts) ==
    Released([t \in Tasks |->
        CASE t \in Recoverable /\ ts[t] # "ABSENT" -> "TERMINAL"
          [] t = Gate /\ ts[t] # "ABSENT" -> "BLOCKED_DEPENDENCY"
          [] OTHER -> ts[t]])

(* recover_existing_g1_artifacts *)
G1Recovered(ts) ==
    Released([t \in Tasks |->
        CASE t \in Recoverable /\ ts[t] # "ABSENT" -> "TERMINAL"
          [] t = Gate /\ ts[t] = "ADAPTER_NOT_CONFIGURED" -> "BLOCKED_DEPENDENCY"
          [] OTHER -> ts[t]])

(* reconcile_g1_integration_gate *)
Reconciled(ts, verdict) ==
    Released([ts EXCEPT ![Gate] = IF verdict = "PASS" THEN "TERMINAL" ELSE "FAILED"])
=============================================================================
