-------------------------- MODULE RegimeController --------------------------
(***************************************************************************)
(* orchestrate_regimemoe.py as it runs: one command at a time holds the    *)
(* lock file (RegimeLock says when that is so), reads the three files into *)
(* memory, and commits through a journal, one file at a time.  A command   *)
(* may be interrupted between any two of its writes - killed, or leaving   *)
(* through an exception - and then only the files and the adapter child    *)
(* processes are left.  `resume` is not serialised with the rest: it       *)
(* rewrites the state file without taking the lock.                        *)
(***************************************************************************)
EXTENDS RegimeQueue, FiniteSetsExt

CONSTANTS
    Commands,     \* the commands that are given
    Unlocked,     \* whether `resume` is given as well
    MaxInterrupts,\* bound: how often a command is interrupted
    NoJournal, NoTask

\* Commands whose branch of main calls recover() first, and those that do not.
Recovering == {"cycle", "dry-run", "record-g0-pass", "materialize-catalog", "enqueue"}
Blind == {"recover-existing-g1", "recover-orphaned-running", "reconcile-g1-integration"}

ASSUME ControllerAssumption ==
    /\ Commands \subseteq Recovering \cup Blind
    /\ Unlocked \in BOOLEAN
    /\ MaxInterrupts \in Nat
    /\ NoJournal \notin Snapshot
    /\ NoTask \notin Tasks

VARIABLES
    (* the program directory *)
    disk,        \* QUEUE, STATE and SCORECARD as they are on disk
    journal,     \* the snapshot in JOURNAL, or NoJournal
    (* the lab *)
    artifact,    \* expected_artifact of each task
    recorded,    \* the process named by a task's latest process.json
    stray,       \* live children of a task that no latest process.json names
    (* the command holding the lock *)
    cmd, pc, mem, \* its name, its place, its copy of the three files
    ret,         \* where it goes on after the commit it is in
    cur,         \* the task it runs
    spawn,       \* its child between Popen and process.json
    (* the rest *)
    resuming,    \* the state file `resume` has read and not written back yet
    week,        \* the ISO week
    interrupts

storeVars   == <<disk, journal>>
labVars     == <<artifact, recorded, stray>>
sessionVars == <<cmd, pc, mem, ret, cur, spawn>>
envVars     == <<resuming, week, interrupts>>
vars == <<storeVars, labVars, sessionVars, envVars>>

Processes == {"none", "live", "gone"}

\* Where a command goes on after a commit, and all its places.
Returns == {"idle", "orphans", "plan", "select", "execute", "body", "again"}
Committing == {"journal", "queue", "state", "score", "drop"}
Places == Returns \cup Committing \cup {"recover", "spawned", "waiting"}

Init ==
    /\ \E paused \in BOOLEAN : disk = InitialSnapshot(paused)
    /\ journal = NoJournal
    /\ \E there \in {"absent", "PASS"} :
            artifact = [t \in Tasks |-> IF KindOf[t] = "smoke" THEN there ELSE "absent"]
    /\ recorded = [t \in Tasks |-> "none"]
    /\ stray = [t \in Tasks |-> 0]
    /\ cmd = "none" /\ pc = "idle" /\ mem = InitialSnapshot(FALSE)
    /\ ret = "idle" /\ cur = NoTask /\ spawn = "none"
    /\ resuming = {} /\ week \in Weeks /\ interrupts = 0

-----------------------------------------------------------------------------
(* The command: leaving, going on, committing.                             *)

\* release_lock and the end of the process: its memory is forgotten.
Leave ==
    /\ pc' = "idle" /\ cmd' = "none" /\ mem' = InitialSnapshot(FALSE)
    /\ ret' = "idle" /\ cur' = NoTask /\ spawn' = "none"

Goto(place) ==
    IF place = "idle" THEN Leave
    ELSE pc' = place /\ UNCHANGED <<cmd, mem, ret, cur, spawn>>

\* Call commit_snapshot(snap) and go on at `next`.
Commit(snap, next) ==
    /\ pc' = "journal" /\ mem' = snap /\ ret' = next
    /\ UNCHANGED <<cmd, cur, spawn>>

ValidStore(snap) == Valid(snap.queue.task, artifact)

Start(c) ==
    /\ pc = "idle" /\ c \in Commands
    /\ cmd' = c
    /\ pc' = CASE c \in Recovering -> "recover"
               [] c = "recover-orphaned-running" -> "orphans"
               [] OTHER -> "body"
    /\ UNCHANGED <<storeVars, labVars, envVars, mem, ret, cur, spawn>>

-----------------------------------------------------------------------------
(* commit_snapshot: journal, queue, state, scorecard, journal removed.     *)

WriteJournal ==
    /\ pc = "journal" /\ journal' = mem
    /\ Goto("queue")
    /\ UNCHANGED <<disk, labVars, envVars>>

\* Mutant of WriteQueue: the state file is forgotten.
WriteQueueOnly ==
    /\ pc = "queue" /\ disk' = [disk EXCEPT !.queue = mem.queue]
    /\ Goto("score")
    /\ UNCHANGED <<journal, labVars, envVars>>

WriteQueue ==
    /\ pc = "queue" /\ disk' = [disk EXCEPT !.queue = mem.queue]
    /\ Goto("state")
    /\ UNCHANGED <<journal, labVars, envVars>>

\* Mutant of WriteState: the journal goes before the scorecard is written.
WriteStateLast ==
    /\ pc = "state" /\ disk' = [disk EXCEPT !.state = mem.state]
    /\ Goto("drop")
    /\ UNCHANGED <<journal, labVars, envVars>>

WriteState ==
    /\ pc = "state" /\ disk' = [disk EXCEPT !.state = mem.state]
    /\ Goto("score")
    /\ UNCHANGED <<journal, labVars, envVars>>

\* Mutant of WriteScore: the old scorecard is written back.
WriteOldScore ==
    /\ pc = "score" /\ UNCHANGED disk
    /\ Goto("drop")
    /\ UNCHANGED <<journal, labVars, envVars>>

WriteScore ==
    /\ pc = "score" /\ disk' = [disk EXCEPT !.score = mem.score]
    /\ Goto("drop")
    /\ UNCHANGED <<journal, labVars, envVars>>

DropJournal ==
    /\ pc = "drop" /\ journal' = NoJournal
    /\ Goto(ret)
    /\ UNCHANGED <<disk, labVars, envVars>>

CommitStep == WriteJournal \/ WriteQueue \/ WriteState \/ WriteScore \/ DropJournal

-----------------------------------------------------------------------------
\* Mutant of Recover: a pending journal is ignored.
RecoverIgnores ==
    /\ pc = "recover"
    /\ Goto(CASE cmd = "cycle" -> "orphans" [] cmd = "dry-run" -> "plan" [] OTHER -> "body")
    /\ UNCHANGED <<storeVars, labVars, envVars>>

\* Mutant of Recover: a pending journal is an error.
RecoverRefuses ==
    /\ pc = "recover"
    /\ IF journal # NoJournal THEN Leave
       ELSE Goto(CASE cmd = "cycle" -> "orphans" [] cmd = "dry-run" -> "plan" [] OTHER -> "body")
    /\ UNCHANGED <<storeVars, labVars, envVars>>

\* Mutant of Recover: a cycle goes on without looking for RUNNING tasks.
RecoverSkipsOrphans ==
    /\ pc = "recover"
    /\ LET next == IF cmd \in {"cycle", "dry-run"} THEN "plan" ELSE "body"
       IN  \/ journal = NoJournal /\ Goto(next)
           \/ journal # NoJournal /\ ValidStore(journal) /\ Commit(journal, next)
           \/ journal # NoJournal /\ ~ValidStore(journal) /\ Leave
    /\ UNCHANGED <<storeVars, labVars, envVars>>

(* recover: replay a journal that validates, refuse one that does not.     *)
Recover ==
    /\ pc = "recover"
    /\ LET next == CASE cmd = "cycle" -> "orphans"
                     [] cmd = "dry-run" -> "plan"
                     [] OTHER -> "body"
       IN  \/ journal = NoJournal /\ Goto(next)
           \/ journal # NoJournal /\ ValidStore(journal) /\ Commit(journal, next)
           \/ journal # NoJournal /\ ~ValidStore(journal) /\ Leave
    /\ UNCHANGED <<storeVars, labVars, envVars>>

\* Mutant of RecoverOrphans: whether the process is gone is not asked.
RecoverOrphansBlindly ==
    /\ pc = "orphans"
    /\ LET orphans == Running(disk.queue.task)
           next == IF cmd = "cycle" THEN "plan" ELSE "idle"
       IN  IF orphans = {} THEN Goto(next) ELSE Commit(Retried(disk), next)
    /\ UNCHANGED <<storeVars, labVars, envVars>>

\* Mutant of RecoverOrphans: the comparison of the start ticks is inverted.
RecoverOrphansInverted ==
    /\ pc = "orphans"
    /\ LET orphans == Running(disk.queue.task)
           next == IF cmd = "cycle" THEN "plan" ELSE "idle"
       IN  IF orphans = {} THEN Goto(next)
           ELSE IF \A t \in orphans : recorded[t] = "live" THEN Commit(Retried(disk), next)
           ELSE Leave
    /\ UNCHANGED <<storeVars, labVars, envVars>>

(* recover_orphaned_running_tasks: every RUNNING task needs a process.json *)
(* whose process is gone, else the command fails.                          *)
RecoverOrphans ==
    /\ pc = "orphans"
    /\ LET orphans == Running(disk.queue.task)
           next == IF cmd = "cycle" THEN "plan" ELSE "idle"
           retried == Retried(disk)
       IN  \/ orphans = {} /\ Goto(next)
           \/ /\ orphans # {} /\ \A t \in orphans : recorded[t] = "gone"
              /\ ValidStore(retried) /\ Commit(retried, next)
           \/ /\ orphans # {}
              /\ ~(ValidStore(retried) /\ \A t \in orphans : recorded[t] = "gone")
              /\ Leave
    /\ UNCHANGED <<storeVars, labVars, envVars>>

\* Mutant of Plan: a dry run commits its releases as well.
PlanDryCommits ==
    /\ pc = "plan"
    /\ LET released == WithTasks(disk, Released(disk.queue.task))
       IN  \/ ~ValidStore(disk) /\ Leave
           \/ ValidStore(disk) /\ released # disk /\ Commit(released, "select")
           \/ /\ ValidStore(disk) /\ released = disk
              /\ pc' = "select" /\ mem' = released
              /\ UNCHANGED <<cmd, ret, cur, spawn>>
    /\ UNCHANGED <<storeVars, labVars, envVars>>

(* cycle: read, validate, release; only a mutating cycle commits that.     *)
Plan ==
    /\ pc = "plan"
    /\ LET released == WithTasks(disk, Released(disk.queue.task))
       IN  \/ ~ValidStore(disk) /\ Leave
           \/ /\ ValidStore(disk) /\ cmd = "cycle" /\ released # disk
              /\ Commit(released, "select")
           \/ /\ ValidStore(disk) /\ (cmd = "dry-run" \/ released = disk)
              /\ pc' = "select" /\ mem' = released
              /\ UNCHANGED <<cmd, ret, cur, spawn>>
    /\ UNCHANGED <<storeVars, labVars, envVars>>

\* Mutant of SelectTask: the usage pause is not looked at.
SelectTaskPaused ==
    /\ pc = "select"
    /\ \/ Select(mem.queue, week) = {} /\ Leave
       \/ \E t \in Select(mem.queue, week) :
                IF cmd = "dry-run" THEN Leave
                ELSE /\ pc' = "journal" /\ mem' = Started(mem, t)
                     /\ ret' = "execute" /\ cur' = t
                     /\ UNCHANGED <<cmd, spawn>>
    /\ UNCHANGED <<storeVars, labVars, envVars>>

(* cycle: a usage pause or an empty selection ends the command, a dry run  *)
(* ends with its plan, and the selected task is committed as RUNNING.      *)
SelectTask ==
    /\ pc = "select"
    /\ \/ (mem.state.paused \/ Select(mem.queue, week) = {}) /\ Leave
       \/ /\ ~mem.state.paused
          /\ \E t \in Select(mem.queue, week) :
                IF cmd = "dry-run" THEN Leave
                ELSE /\ pc' = "journal" /\ mem' = Started(mem, t)
                     /\ ret' = "execute" /\ cur' = t
                     /\ UNCHANGED <<cmd, spawn>>
    /\ UNCHANGED <<storeVars, labVars, envVars>>

-----------------------------------------------------------------------------
(* execute_task *)

Finish(outcome) == Commit(Finished(mem, cur, outcome, week), "again")

\* Phase 0 runs the repository smoke and leaves the rest to a human.
ExecutePhaseZero ==
    /\ pc = "execute" /\ mem.state.phase = 0
    /\ \/ KindOf[cur] # "smoke" /\ Finish("HUMAN_APPROVAL")
       \/ KindOf[cur] = "smoke" /\ artifact[cur] # "absent" /\ Finish("TERMINAL")
       \/ KindOf[cur] = "smoke" /\ artifact[cur] = "absent" /\ Leave
    /\ UNCHANGED <<storeVars, labVars, envVars>>

\* Mutant of ExecuteLocal: TERMINAL without the artifact.
ExecuteLocalUnwritten ==
    /\ pc = "execute" /\ mem.state.phase = 1 /\ KindOf[cur] = "local"
    /\ Finish("TERMINAL")
    /\ UNCHANGED <<storeVars, labVars, envVars>>

\* The deterministic adapters write their artifact, or their evidence is not
\* in order and they raise.
ExecuteLocal ==
    /\ pc = "execute" /\ mem.state.phase = 1 /\ KindOf[cur] = "local"
    /\ \/ artifact' = [artifact EXCEPT ![cur] = "PASS"] /\ Finish("TERMINAL")
       \/ Leave /\ UNCHANGED artifact
    /\ UNCHANGED <<storeVars, recorded, stray, envVars>>

\* The manifest inventory may also write that it waits for the manifest.
ExecuteInventory ==
    /\ pc = "execute" /\ mem.state.phase = 1 /\ KindOf[cur] = "inventory"
    /\ \/ /\ artifact' = [artifact EXCEPT ![cur] = "PASS"]
          /\ \E outcome \in {"TERMINAL", "WAITING_EXTERNAL"} : Finish(outcome)
       \/ Leave /\ UNCHANGED artifact
    /\ UNCHANGED <<storeVars, recorded, stray, envVars>>

\* The registry has no entry for the task, or its catalog hash is not the
\* frozen one.
ExecuteUnmapped ==
    /\ pc = "execute" /\ mem.state.phase = 1 /\ KindOf[cur] \notin {"local", "inventory"}
    /\ Finish("ADAPTER_NOT_CONFIGURED")
    /\ UNCHANGED <<storeVars, labVars, envVars>>

\* run_codex_task: the child first, then the process.json that names it.
Spawn ==
    /\ pc = "execute" /\ mem.state.phase = 1 /\ KindOf[cur] \in {"codex", "review"}
    /\ pc' = "spawned" /\ spawn' = "live"
    /\ UNCHANGED <<storeVars, labVars, envVars, cmd, mem, ret, cur>>

RecordProcess ==
    /\ pc = "spawned"
    /\ recorded' = [recorded EXCEPT ![cur] = spawn]
    /\ stray' = IF recorded[cur] = "live" THEN [stray EXCEPT ![cur] = @ + 1] ELSE stray
    /\ pc' = "waiting" /\ spawn' = "none"
    /\ UNCHANGED <<storeVars, artifact, envVars, cmd, mem, ret, cur>>

\* Mutant of Captured: the verdict itself is taken for the outcome.
CapturedVerdict ==
    IF artifact[cur] = "absent" THEN "ADAPTER_NOT_CONFIGURED"
    ELSE IF KindOf[cur] = "review" THEN artifact[cur] ELSE "TERMINAL"

\* The child has exited with status 0 and a response; what is then at the
\* expected path decides.
Captured ==
    IF artifact[cur] = "absent" THEN "ADAPTER_NOT_CONFIGURED"
    ELSE IF KindOf[cur] = "review"
         THEN IF artifact[cur] = "PASS" THEN "TERMINAL" ELSE "FAILED"
         ELSE IF cur \in Recoverable /\ artifact[cur] # "PASS"
              THEN "ADAPTER_NOT_CONFIGURED" ELSE "TERMINAL"

Collect ==
    /\ pc = "waiting" /\ recorded[cur] = "gone"
    /\ \E outcome \in {Captured, "ADAPTER_NOT_CONFIGURED"} : Finish(outcome)
    /\ UNCHANGED <<storeVars, labVars, envVars>>

\* child.wait times out: the child, which may have written its artifact by
\* then, is killed, and the exit status is not 0.
Timeout ==
    /\ pc = "waiting" /\ recorded[cur] = "live"
    /\ recorded' = [recorded EXCEPT ![cur] = "gone"]
    /\ \E content \in {artifact[cur], "PASS", "FAIL"} :
            artifact' = [artifact EXCEPT ![cur] = content]
    /\ Finish("ADAPTER_NOT_CONFIGURED")
    /\ UNCHANGED <<storeVars, stray, envVars>>

Execute ==
    \/ ExecutePhaseZero \/ ExecuteLocal \/ ExecuteInventory \/ ExecuteUnmapped
    \/ Spawn \/ RecordProcess \/ Collect \/ Timeout

\* one-cycle ends here, multi-cycle may go round again.
Again ==
    /\ pc = "again"
    /\ \/ Leave
       \/ pc' = "recover" /\ cur' = NoTask /\ UNCHANGED <<cmd, mem, ret, spawn>>
    /\ UNCHANGED <<storeVars, labVars, envVars>>

-----------------------------------------------------------------------------
(* The commands that are one read, one change and one commit.              *)

\* Mutant of RecordG0: it is not asked whether G0 is recorded.
RecordG0Again ==
    /\ cmd = "record-g0-pass"
    /\ (ValidStore(disk) /\ Commit(G0Passed(disk), "idle")) \/ (~ValidStore(disk) /\ Leave)

RecordG0 ==
    /\ cmd = "record-g0-pass"
    /\ \/ ValidStore(disk) /\ disk.state.phase = 0 /\ Commit(G0Passed(disk), "idle")
       \/ ~(ValidStore(disk) /\ disk.state.phase = 0) /\ Leave

MaterializeCatalog ==
    /\ cmd = "materialize-catalog"
    /\ LET seeded == WithTasks(disk, Materialized(disk.queue.task))
       IN  \/ ValidStore(seeded) /\ Commit(seeded, "idle")
           \/ ~ValidStore(seeded) /\ Leave

\* Mutant of EnqueueTask: it is not asked whether the task is queued.
EnqueueTaskAgain ==
    /\ cmd = "enqueue"
    /\ \E t \in Appended :
        \/ /\ ValidStore(disk) /\ disk.state.phase = 1
           /\ Commit([disk EXCEPT !.queue.task[t] = "READY"], "idle")
        \/ ~(ValidStore(disk) /\ disk.state.phase = 1) /\ Leave

EnqueueTask ==
    /\ cmd = "enqueue"
    /\ \E t \in Appended :
        \/ /\ ValidStore(disk) /\ disk.state.phase = 1 /\ disk.queue.task[t] = "ABSENT"
           /\ Commit([disk EXCEPT !.queue.task[t] = "READY"], "idle")
        \/ /\ ~(ValidStore(disk) /\ disk.state.phase = 1 /\ disk.queue.task[t] = "ABSENT")
           /\ Leave

\* Every recoverable task of the queue must have an artifact that validates.
RecoverExistingG1 ==
    /\ cmd = "recover-existing-g1"
    /\ LET ts == disk.queue.task
           recovered == WithTasks(disk, G1Recovered(ts))
           possible == /\ \A t \in Recoverable \cap Present(ts) : artifact[t] = "PASS"
                       /\ Gate \in Present(ts)
                       /\ ValidStore(recovered)
       IN  (possible /\ Commit(recovered, "idle")) \/ (~possible /\ Leave)

\* A rejected artifact is a FAIL verdict or no verdict at all, which raises.
ReconcileG1 ==
    /\ cmd = "reconcile-g1-integration"
    /\ LET ts == disk.queue.task
           reconciled == WithTasks(disk, Reconciled(ts, artifact[Gate]))
           possible == /\ Gate \in Present(ts)
                       /\ artifact[Gate] # "absent"
                       /\ ValidStore(reconciled)
       IN  \/ possible /\ Commit(reconciled, "idle")
           \/ (~possible \/ artifact[Gate] = "FAIL") /\ Leave

Body ==
    /\ pc = "body"
    /\ \/ RecordG0 \/ MaterializeCatalog \/ EnqueueTask
       \/ RecoverExistingG1 \/ ReconcileG1
    /\ UNCHANGED <<storeVars, labVars, envVars>>

-----------------------------------------------------------------------------
(* What happens around the command.                                        *)

\* `resume`: read the state file, ...
ResumeRead ==
    /\ Unlocked /\ resuming = {}
    /\ resuming' = {disk.state}
    /\ UNCHANGED <<storeVars, labVars, sessionVars, week, interrupts>>

\* ... and write it back without the pause.
ResumeWrite ==
    /\ \E state \in resuming : disk' = [disk EXCEPT !.state = [state EXCEPT !.paused = FALSE]]
    /\ resuming' = {}
    /\ UNCHANGED <<journal, labVars, sessionVars, week, interrupts>>

\* A child exits, perhaps after writing its artifact.
ChildExits ==
    \E t \in Tasks :
        /\ \/ /\ spawn = "live" /\ cur = t /\ spawn' = "gone"
              /\ UNCHANGED <<recorded, stray>>
           \/ /\ recorded[t] = "live" /\ recorded' = [recorded EXCEPT ![t] = "gone"]
              /\ UNCHANGED <<spawn, stray>>
           \/ /\ stray[t] > 0 /\ stray' = [stray EXCEPT ![t] = @ - 1]
              /\ UNCHANGED <<spawn, recorded>>
        /\ \E content \in {artifact[t], "PASS", "FAIL"} :
                artifact' = [artifact EXCEPT ![t] = content]
        /\ UNCHANGED <<storeVars, cmd, pc, mem, ret, cur, envVars>>

\* The command is killed or raises; a child it has not recorded is left alone.
Interrupt ==
    /\ pc # "idle" /\ interrupts < MaxInterrupts
    /\ interrupts' = interrupts + 1
    /\ stray' = IF spawn = "live" THEN [stray EXCEPT ![cur] = @ + 1] ELSE stray
    /\ Leave
    /\ UNCHANGED <<storeVars, artifact, recorded, resuming, week>>

NextWeek ==
    /\ \E w \in Weeks : w > week /\ week' = w
    /\ UNCHANGED <<storeVars, labVars, sessionVars, resuming, interrupts>>

CommandStep ==
    \/ CommitStep \/ Recover \/ RecoverOrphans \/ Plan \/ SelectTask
    \/ Execute \/ Again \/ Body

Next ==
    \/ \E c \in Commands : Start(c)
    \/ CommandStep
    \/ ResumeRead \/ ResumeWrite
    \/ ChildExits \/ Interrupt \/ NextWeek

Spec == Init /\ [][Next]_vars

\* A command that holds the processor goes on, children end (they run under
\* `timeout`), and somebody - a timer or the operator - gives `cycle` again.
Fairness == WF_vars(CommandStep) /\ WF_vars(ChildExits) /\ WF_vars(Start("cycle"))

FairSpec == Spec /\ Fairness

-----------------------------------------------------------------------------
(* Properties.                                                             *)

(* Every variable has its type.                                            *)
TypeOK ==
    /\ disk \in Snapshot
    /\ journal \in Snapshot \cup {NoJournal}
    /\ artifact \in [Tasks -> Artifacts]
    /\ recorded \in [Tasks -> Processes]
    /\ stray \in [Tasks -> Nat]
    /\ cmd \in Commands \cup {"none"} /\ pc \in Places /\ ret \in Returns
    /\ mem \in Snapshot
    /\ cur \in Tasks \cup {NoTask} /\ spawn \in Processes
    /\ resuming \in SUBSET State
    /\ week \in Weeks /\ interrupts \in 0..MaxInterrupts

\* What the files mean: an interrupted commit has happened once its journal is
\* complete, because recover() will finish it.
Logical == IF journal = NoJournal THEN disk ELSE journal

Ledger == INSTANCE RegimeLedger WITH ledger <- Logical

(* However commands are interrupted, as long as all of them recover first  *)
(* the files are the ledger: every step a reader can tell is one whole     *)
(* transaction of RegimeLedger, none is half done, none is undone.         *)
LedgerImplemented == Ledger!Spec

(* The same account in queue and scorecard, read through the journal.      *)
AccountingKept == Ledger!Accounting

(* A complete journal is either finished, file by file, or still there:    *)
(* nothing replaces it and it does not go before the files are its own.    *)
JournalDurable ==
    [][journal # NoJournal /\ journal' # journal
        => journal' = NoJournal /\ disk' = journal]_vars

(* What a command will find when it starts passes validate, so recover()   *)
(* and cycle() never refuse what the controller itself has written.        *)
StoreReadable == ValidStore(Logical)

(* No task is scored twice, in the scorecard or in a journal about to      *)
(* become it - also with torn files and commands that do not recover.      *)
CompletedOnce ==
    \A t \in Tasks : disk.score[t] <= 1 /\ (journal # NoJournal => journal.score[t] <= 1)

(* Never two tasks RUNNING, in torn files neither.                         *)
SingleRunning ==
    /\ Cardinality(Running(disk.queue.task)) <= 1
    /\ journal # NoJournal => Cardinality(Running(journal.queue.task)) <= 1

(* A child is never started beside one whose process.json is there to be   *)
(* found: at most one child that anybody knows of is alive.                *)
OneKnownChild ==
    Cardinality({t \in Tasks : recorded[t] = "live"}) + (IF spawn = "live" THEN 1 ELSE 0) <= 1

(* "Retry only a captured invocation whose process is demonstrably gone."  *)
RetriesOnlyGone ==
    [][\A t \in Tasks :
        journal' # NoJournal /\ disk.queue.task[t] = "RUNNING" /\ journal'.queue.task[t] = "READY"
            => stray[t] = 0 /\ recorded[t] # "live"]_vars

(* A dry run may finish an interrupted commit, but what the files mean does *)
(* not change while it runs: it releases and starts nothing.               *)
DryRunNeutral == [][cmd = "dry-run" => Logical' = Logical]_vars

(* After `resume` has written the state file, the pause is over.           *)
ResumeSticks == [][disk.state.paused \/ ~disk'.state.paused]_vars

(* G0 is recorded in two files as one: the phase and the task that the     *)
(* transition adds to the queue change together, in spite of interruptions.*)
G0Atomic ==
    Logical.state.phase = 1 <=> \A t \in OnG0 : Logical.queue.task[t] # "ABSENT"

\* A RUNNING task without process.json that no running command will settle:
\* every cycle from now on fails on it.
Wedged == pc = "idle" /\ \E t \in Tasks : Logical.queue.task[t] = "RUNNING" /\ recorded[t] = "none"

(* Released work is done: a task that can be selected gets an outcome,     *)
(* unless usage is paused or an attempt without process.json was lost.     *)
ReadyWorkEnds ==
    \A t \in Tasks :
        (t \in Candidates(Logical.queue.task) /\ ~Logical.state.paused)
            ~> (Logical.queue.task[t] \notin {"READY", "RUNNING"} \/ Wedged)

(* A complete journal does not stay: its transaction reaches the files.    *)
JournalReplayed == (journal # NoJournal) ~> (journal = NoJournal)
=============================================================================
