# A verification project for crypto-strategy-control

Paths below are relative to the repository (`src/` in the tables of
PROJECT.json).  The repository has two programs that keep state across runs and
start other processes - the **RegimeMoE controller** (`orchestrate_regimemoe.py`)
and the **research program** (`src/strategy_control/orchestrator.py`) - and a
library of studies, evaluators and audits that they call (the **portfolio
programs** below): single processes that read frozen data, compute, and end with a
report or an exception.

## 1. Inventory

| Part | State | Operations | Correct when |
|---|---|---|---|
| RegimeMoE queue, state, scorecard | three JSON files | validate, release, select, outcome, seed, enqueue, recover G1, reconcile | never two RUNNING, nothing scored twice, queue and scorecard agree, what it writes it can read |
| RegimeMoE journal | `REGIMEMOE_TRANSACTION.json` | `commit_snapshot`, `recover` | a commit happens as a whole or not at all, whatever is interrupted |
| RegimeMoE adapter children | `codex exec` processes, `process.json`, artifacts | spawn, record, wait, time out, adopt orphans | a task is retried only when its process is gone |
| RegimeMoE lock | `.orchestrator.lock` | `acquire_lock`, `release_lock` | one command at a time; a dead owner does not block the program |
| Research program | `CURRENT_STATE.json`, the experiment, rejection and model-usage ledgers, preregistrations, reports, audits, the git tree | freeze, cycle, reviews, data audits, development runs, independent audits; between them the operator's commits and hand-made moves | calls are charged and recorded, nothing is evaluated before its preregistration is committed, an experiment is concluded once, the state never runs ahead of the evidence |
| Mean-reversion studies (v1, v2) | per-asset position state machine; clocks, targets, dispositions | one step per session: fill, decide, quarantine, account | no exposure over a session that was not observed, holding limits kept, in cash at the end |
| Rotation studies (v1, v2) | bindings, decisions, oracle | one step per binding | rule and oracle agree, nothing is bridged |
| Clean-room evaluations (v5) | evaluator, reference, daily sessions | one step per date | two independently written loops agree; exposure rests on observed sessions; decide is the registered rule (it is not, see CleanDecide) |
| Trend, calendar and volatility studies | minute vectors, gap detections, targets, a pending liquidation, fills | one step per session, hour or event | a gap flattens, no stale target trades, targets fill or are cancelled |
| Development studies as a whole | paths won, statistics, registries, gates | nine evaluations in a fixed order | DEVELOPMENT_GO only when everything asked for passed; any doubt about it fails closed |
| Holdout latch | latch file, `.arming` file, directory entry | create, arm | once a caller was let through the latch stays armed, power losses included (that only one is let through is not so, see section 3) |
| Archive audit | root pages, two worker pools, listings, records, manifest | list, fetch in pools, collect, write | every directory accounted for once, a valid record rests on consistent pairs |
| Route 4 ledger | attempt and terminal records in order | read a record, end the ledger | an accepted ledger tells the outcome of every request |
| Phase work queue | none (pure) | `work_queue.py`: selection | the first open item whose dependencies are done |
| Fixed-pair evaluator | none (pure) | rows to returns | same sessions and delays as the studies |

How the RegimeMoE parts interact: a command is a process.  It takes the lock
file, reads the three files into memory, changes its copy and commits through
the journal; `cycle` additionally starts an adapter in between, which may be a
child process writing into the lab.  A timer and the operator start commands.
`resume` takes no lock.

The research program's commands are processes too, under a kernel lock (`flock`,
released by the kernel when its holder dies).  A command reads the state, refuses
unless experiment, task, budget and git tree are what it expects, computes or
calls a model, and then writes its files one by one; there is no journal.  What
no command does - committing, allocating a budget, moving `next_task` on, ending
an audit that was not obtained - the operator does by hand, and the ledgers in
the repository show it.

The portfolio programs share nothing while they run.  Their inputs are a market
with holes in it; what makes them hard is that fills, delays, holding limits,
quarantines, recoveries and the end of a window may fall on the same session or
minute, that rules are written twice and must agree, and that every irregularity
must end in an exception or NO_GO.  The archive audit is concurrent (two pools, and
a bucket that changes meanwhile), the latch is exposed to power losses and second
callers, the Route 4 ledger to runs that were cut off.

What is hard in the two stateful programs is not one function: it is what is on disk when a command
ends somewhere in the middle, what the next command makes of it, and which
processes are then still alive.  PROJECT.json lists these places under
"hazards".

## 2. Modules

```
RegimeQueue            the data and the pure functions of the commands
 |- RegimeLedger       abstract: queue, state and scorecard as one value
 |- RegimeController   the program: files, journal, children, interruptions
 |    Ledger == INSTANCE RegimeLedger WITH ledger <- Logical
 |- RegimeQueueProofs, RegimeLedgerProofs, RegimeControllerProofs
 '- MCRegimeTasks, MCRegimeController: instances for TLC
RegimeLock             acquire_lock / release_lock, call by call
 |- RegimeLockProofs, MCRegimeLock
 '- MCRegimeFair       the lock or the controller, commands given again and again
      C == INSTANCE RegimeController WITH pc <- place
ResearchProgram        orchestrator.py, write by write
 '- ResearchProgramProofs

JointSessions          joint sessions, segments, eligibility, exact fills
 |- ReversionPath      mean_reversion_v2_evaluator._path, with ReversionClock
 '- RotationPath       relative_value_v2: bindings, simulator, oracle
ReversionPeriod        mean_reversion.asset_state_machine and its period fills
RotationPeriod         relative_value_pipeline.build_period_run
MinuteMarket           minute rows, joint vectors, daily endpoints
 |- ParityPath         volatility_parity: loading, targets, simulate_path
 |- ManagedPath        volatility_managed_evaluator: the managed study's path
 '- TrendPath          trend_pipeline: loading, period fills, accounting
CalendarPath           calendar_evaluator.execute_trial
CleanSessions          the daily sessions of v5
 |- CleanReversion     mean_reversion_v5_cleanroom: evaluator and reference in lockstep
 |   '- MCCleanRoom    the primary months, for the holding limit
 '- CleanRotation      relative_value_v5_cleanroom, with RotationPath for the rule
     '- MCCleanDecide  the primary trial, for its decisions
StudyGates             evaluate_development of all nine studies
HoldoutLatch           create_holdout_latch, arm_holdout_latch
ArchiveAudit           archive_audit.run_archive_observed_audit
Route4Ledger           route4_contract.validate_ledger
MCPortfolio            instances of all of these for TLC, one program at a time

SessionProofs          JointSessions, ReversionPeriod, RotationPeriod, RotationPath,
                       ReversionPath, CleanReversion, CleanRotation
MinuteProofs           MinuteMarket, ParityPath, ManagedPath, TrendPath, CalendarPath
EvidenceProofs         StudyGates, HoldoutLatch, Route4Ledger, ArchiveAudit
```

**RegimeQueue.**  A task is its life-cycle state (`task[t]`, with `ABSENT` for an
id that is not in the queue and `DUPLICATE` for one that is there twice, which
`validate` refuses).  Priority and id become a rank, the adapter a kind
(`smoke`, `local`, `inventory`, `codex`, `review`, `none`), the scorecard a count
of checkpoints for each task.  `select` is the four-part sort key of the code.
The states `DEFERRED` and `PAUSED_FOR_USAGE` are left out: no code assigns them.

**RegimeLedger.**  One action per transaction, no files and no crashes.  It says
what the commands promise.

**RegimeController.**  `disk` and `journal` are the files, `mem` a command's copy,
`pc` its place.  `commit_snapshot` is five steps, one per file operation
(`atomic_write` replaces a file in one step); `recover`, the orphan check,
planning, selection, execution and the one-commit commands are one step each
between two file operations.  `artifact`, `recorded` and `stray` are the lab: what
is at a task's expected path, the process its newest `process.json` names, and
live children no newest `process.json` names.  `Interrupt` ends a command
anywhere - a signal, an exception - and leaves files and children as they are.
`ResumeRead`/`ResumeWrite` are the unlocked `resume`.  The lock is a guard here:
one command at a time, which is what RegimeLock is about.

A journal that is complete *is* the transaction: `Logical` is the journal while
there is one and the files otherwise, and the refinement mapping is `Logical`.

**RegimeLock.**  `stat`, the probe of the pid, `unlink`, the second `open` and the
write of the pid are separate steps of each process, and any process may die
between them.  `Age` makes a file an hour old; a live process is assumed not to
take an hour for the lines from `unlink` to the write of its pid.  Without
`Contention` no command comes while another one is between its failed `open` and
its `unlink`; commands may still meet everywhere else.

**ResearchProgram.**  `st` is `CURRENT_STATE.json` cut down to what commands look
at; the other file variables hold, for each experiment, whether a
preregistration exists, the classification in the report and in the audit, and
the rows of the ledgers.  `clean` and `committed` are the git tree.  A command is
`Begin` (its guards), `Invoke`, `Retrieve`, `Verify` or `Evaluate` (what it
computes), and one action per durable write; `After(write)` is the order of the
writes, which branches on what the call returned as the code does.  `Crash` ends
the command between any two of them and covers the exceptions that leave files
behind.  `issued`, `evals` and `crashes` are history variables.  The kernel lock
is the guard `pc = "idle"`.

The operator's actions are external: they are read off the ledgers
(`EXPERIMENT_BUDGET_ALLOCATION`, `NEXT_EXPERIMENT_SELECTED`, the two rows
`AUDIT_INCONCLUSIVE`) and the tasks that commands expect but none writes.  A
manifest and its report are one write (nothing reads the one without the other),
the writes nobody reads (usage rows, `DIRECTION_REVIEW.json`) are one `Note`, and
of the cycles of `resume --cycles` only the first can change anything.

**JointSessions, ReversionClock, ReversionPath.**  A market is the set of assets
whose grid is complete, session by session; segments, eligibility after `Recovery`
sessions and the one fill between two sessions follow from it.  `ReversionClock` is
the class `Clock` of `mean_reversion_v2.py` as operators on a record; the path is
the loop of `_path`: each step quarantines, fills, decides and accounts in the
code's order, and the checks after the loop (`trace_rejected`, `not_cash`) are the
last step.  Signals are chosen per session.

**ReversionPeriod, RotationPeriod.**  The first studies' loops over one prepared
period.  A day has a session, a fill, both or neither.

**RotationPath.**  Bindings come from the production grid or from an index with
missing rows; scores are small integers, so that ties and crossings of the gap
happen.  `DecisionForScores` is the rule, `OracleTarget` the second formulation of
`relative_value_v2_oracle.py`.

**MinuteMarket, ParityPath, ManagedPath, TrendPath.**  A session has three minutes
instead of 1440: an open, one between, an end.  Both volatility paths walk over the
union of vectors, gap detections, fills and endpoints; of an account only "exposed
since" is kept, of a target only that it is held.  The parity study takes its gaps
from the loader, the managed one from `joint_grid_status`, which is why they are two
modules.

**CalendarPath.**  One step is an hour; the quarantine may enter within it, and the
schedule of an hour is the one an earlier Monday fixed.

**CleanSessions, CleanReversion, CleanRotation.**  Dates without any row are no
session; their neighbours are consecutive to the evaluators.  Evaluator and
reference of the reversion step together over the same dates and signals.  In the
rotation `DecisionDue` is where `decide` is asked and its answer ordered;
CleanDecidesFrozen compares it there with `RotationPath`'s `DecisionForScores`.

**StudyGates.**  One state machine for the nine studies: `stage` walks through the
study's own list of steps; each step passes, fails or raises.  Numbers are reduced
to "passes its threshold", "undefined", "empty".  A gate is a name, and `contract`,
the mapping of the preregistration, is any set of names, or no mapping at all: the
first studies walk over whatever it holds (`TrendGo`, `ReversionGo`, `RotationGo`; only
the trend study asks that it holds something), the later ones compare it with what they
implement.

**HoldoutLatch.**  File operations one by one for any number of callers; `durable`
is what a power loss cannot take back, which changes at the fsync of the file and of
the directory.

**ArchiveAudit.**  The main thread lists the root pages, submits, collects and
writes; the workers of the two pools list and fetch in any order; `Publish` adds an
archive, then its checksum, at any time.  A symbol's own listing is one read.

**Route4Ledger.**  One step reads one record, of whatever content, and refuses or
keeps it; the ledger may end anywhere.

**MCPortfolio** chooses one of these fourteen programs and its data in the initial
state; the others rest.  They share nothing, so no interleaving is lost, and one run
checks them all.

## 3. Runs

| Run | Question | Result |
|---|---|---|
| RegimeCore | Do the recovering commands keep the three files one ledger? | LedgerImplemented, JournalDurable, DryRunNeutral, AccountingKept, G0Atomic, StoreReadable, OneKnownChild hold |
| RegimeOperator | What survives the commands that do not recover, and `resume`? | CompletedOnce and SingleRunning hold |
| RegimeLock | With commands given again and again: is the lock file a lock, does it survive dead owners; does released work end, does a journal get replayed? | Mutex, LiveOwnerKeepsLock, AbandonedRecovered hold, if no command comes while another judges an existing file; ReadyWorkEnds and JournalReplayed hold |
| RegimeLockRace | And if one does? | Mutex violated |
| RegimeBlind | Is an interrupted commit always finished? | violated by `recover-existing-g1` |
| RegimeRetry | Is only a dead invocation retried? | violated by a crash between `Popen` and `process.json` |
| RegimeResume | Does a pause that was ended stay ended? | violated by an unlocked `resume` |
| Research | Do the research program's files stay consistent when commands die between writes? | CallsAccounted, StateBacked, EvaluatedFrozen, SoleEvaluation, ConcludedOnce, AuditConcludes hold |
| ResearchBudget | Does a failed archive audit use up the final call? | violated: it is not charged |
| Portfolio | Do the portfolio programs end as they promise? | the fourteen properties below hold |
| CleanHold | Is a clean-room position in cash at the fill its contract names? | CleanHoldLimit violated: held one interval longer |
| CleanDecide | Does the clean-room rotation decide as its contract says? | CleanDecidesFrozen violated: a held asset that no longer rises stays |

The properties of Portfolio: *PathSound* (no return over a session not observed,
holding limit kept, the trace reconciles), *PeriodHoldsBounded* (the first study's
holding clock anticipates the delay), *RotationSound* (rule and oracle agree;
exposure stays in consecutive sessions of a segment), *RotationBridgesNothing* (a
position ends at the first fill after a gap), *ParityObserved* and
*ManagedObserved* (a gap flattens, stale targets do not trade, a target is filled or
cancelled, never both), *TrendExposureObserved*, *CalendarObserved* (entries and
exits alternate, a position lasts an hour unless no vector exists, schedules are
causal), *CleanAgreesWithReference*, *CleanRotationSound* (exposure rests on observed
sessions, orders are filled in time, no path refuses its own end), *GoIsEarned* (what a
GO was asked for has passed, is known and rests on no empty panel or undefined Sharpe),
*LatchIrreversible*, *ArchiveManifestSound*, *LedgerTellsOutcome*.  In
CleanAgreesWithReference prices are not compared: an exit in the last session is priced
differently by the evaluator (`mean_reversion_v5_cleanroom.py:331`) and the reference
(`mean_reversion_v5_reference.py:110`), which counts of sessions and intervals cannot
show.  LedgerTellsOutcome needs no check of `seen_record_ids`, which the model leaves
out: ordinals and lineage already tell the records of a request apart.

CleanHold: `mean_reversion_v5_cleanroom.py:317` decides to exit at the close where
the index since entry reaches the maximum and fills at the next, so a position is
exposed for one interval more than
`experiments/btc-eth-long-only-mean-reversion-v2/PREREGISTRATION_DRAFT.json:97` counts.

CleanDecide: `relative_value_v5_cleanroom.py:124` asks for the median of the leading
asset only, so a held asset that is not the leader stays although its own median is not
positive.  `experiments/btc-eth-relative-value-rotation-v1/PREREGISTRATION.json:41`
targets cash then; the second study's contract inherits the clause
(`...-v2/PREREGISTRATION_DRAFT.json:43`), and the clean-room evaluation is authorized
under that contract (`...-v5-cleanroom-evaluation/EXPERIMENT_AUTHORIZATION.json:9`).  The
run has the primary trial.  In the trials with a gap of 0 `decide` departs from `:42`
(tie_rule) as well: it enters BTC at an exact tie, from cash.

**Bounds.**  Five tasks: a recoverable prerequisite, the gate it releases, a task
of a second workstream, the phase 0 smoke (or the review that G0 supersedes and
the manifest inventory) and the task that recording G0 appends.  These are the
shapes the functions tell apart: with and without dependency, in and outside the
G1 order, in the catalog, enqueued, appended, superseded, and one of every kind.
Two weeks, because the fairness order differs in a week without completions.
`MaxInterrupts = 2`: an interrupted commit whose replay is interrupted as well;
a third finds the same files.  Every other quantity is finite by itself.  The
lock has four processes of which three may die (three and two where the
violation is looked for).  One `resume` at a time.

Research goes through the four experiments that follow each other and one of the
queue, a one-shot one (`Queue = {"volpar"}`; `volman` differs in nothing the
model keeps, and `calendar` is repeatable as `relval` is).  `Calls = 3`: a
direction review, an audit that fails with a call left and one that fails
without.  Two crashes, so that the repetition of an interrupted command is
interrupted as well; two evaluations of an experiment and two uncharged calls
are enough for one retry of each.  ResearchBudget needs no crash at all.

Portfolio.  `Days = 7`, `Recovery = 2`, `MaxHold = 2`, `MaxGaps = 2`: a warm-up, a
position, a gap in it, a recovery and a second gap fit, with a delay of one.
`PeriodDays = 8` with `HoldIntervals = 3` and one abnormal day for the reversion
period, `CalendarDays = 7` and up to `MaxGone = 3` abnormal days for the rotation
period, which continues after gaps.  `Minutes = 3`, `MarketDays = 7`, `Week = 3`: two
scheduled sessions with daily endpoints between them; the holes are any one or two
minutes, or a day.  The calendar study has hours of three minutes, days of two hours,
a refresh every two days and a path of three, and loses two minutes or four in a row.
`CleanDays = 7` (8 in CleanHold) with at most two abnormal dates.  The latch has two
callers and two power losses (`MaxLosses`).  The archive has two symbols, two months,
pools of two, root pages of one, at most two objects missing and `MaxPublished = 1`: an
archive or a checksum is revised under the audit, but not both of a pair; for any number
of publications there is the theorem.  Contracts (`MCContracts`) are what each study
implements, the same with gates left out or a name it does not know, and a few that ask
for next to nothing, the empty one among them.
The ledger has two requests; records carry right and wrong ordinals, priors, actions,
prefixes and states; one of the two requests is only answered or times out.  The
shapes the code tells apart (first, next, last; on time, delayed, at the boundary;
before, in and after recovery) all occur; larger windows repeat them.  Deadlock is
not checked in Portfolio, CleanHold and CleanDecide, whose programs end.  CleanDecide has
eight complete sessions of the primary trial.

**Fairness.**  `FairSpec` of the controller: a command that runs goes on (weak
fairness of its steps; interruptions are bounded), children end because they run
under `timeout`, and `cycle` is given again - by the timer or by the operator.
`FairSpec` of the lock: the same for each process, and time passes.  MCRegimeFair
checks both in one run: an instance runs the lock or the controller, with the fairness of
the one that runs, while the other rests.  `FairSpec` of
the research program: a running command goes on, the operator commits, and the
audit that is due is given again for as long as it is not refused; this is used
for AuditConcludes only.  Nothing is
assumed about interruptions, about what a child writes or about an operator
using any other command.

ReadyWorkEnds names two exceptions, both in the code: a usage pause, and a
RUNNING task without any `process.json`, on which
`recover_orphaned_running_tasks` fails in every later cycle.

**Not shown by a run.**  A dry run calls `recover()` and may thereby rewrite the
queue file, although `test_dry_run_does_not_mutate_queue`
(`regime_moe_program/tests/test_orchestrator.py:36`) says it does not; DryRunNeutral states
what does hold, that the meaning of the files stays the same.  With `resume`
running beside `record-g0-pass`, the phase can be lost and G0 recorded a second
time; the queue then holds an id twice and `validate` refuses it from then on
(this is why StoreReadable and G0Atomic are checked without `resume`).

Two callers that both read the latch as unarmed can both be let through to the holdout:
the second finds no `.arming` file any more (`volatility_parity.py:962`, `:989`).
`experiments/btc-eth-causal-volatility-parity-rebalancing-v1/PREREGISTRATION_REVISED_DRAFT.json:403`
speaks of "the sole invocation", and `:406` allows one.  HoldoutLatch reaches this state;
LatchIrreversible is about what is left when a caller was let through, not about how
many are.  Nothing in the repository calls the latch from two processes.

Of the portfolio programs, met while modelling and without a line of a document
that contradicts them:

* The delayed stress of the second reversion gives an order that is due at the
  current base fill the current session's own later fill
  (`mean_reversion_v2_evaluator.py:240`), which the clock refuses;
  `experiments/btc-eth-long-only-mean-reversion-v2/PHASE_3_FORMAL_EVALUATOR_PARENT_VALIDATION_FAILURE.json:26`
  records it.  Its `_buy_hold("cash")` raises for every input, so the second
  reversion study never reports.
* The first studies give a GO to a contract without, say, the multiplicity or the
  stress gates, and reversion and rotation to an empty one
  (`mean_reversion_pipeline.py:383`, `relative_value_pipeline.py:695`), where the trend
  study asks for at least one check (`trend_pipeline.py:446`).  GoIsEarned states
  what is left of "fails closed" then.
* `relative_value_v5_formal.py` takes an undefined Sharpe for 0; every gap after the
  first decision is fatal to a v5 rotation path, even in cash; the v5 loader bridges
  dates that have no row; an entry ordered in the last session fails a v5 path.
* The calendar study, once it has found sixty minutes in a row after a gap, does not
  look at the minutes from there to the full hour at which it resumes.
* `build_terminal` of Route 4 (`:657`) hashes the prefix and the request's own
  attempts; the validator hashes everything before the record, so the two agree only
  if no other request's record lies between.

## 4. Proofs

Every safety property that a passing run checks is also a theorem; the constants are
arbitrary: any finite set of tasks with any dependencies, any catalog, weeks, streams,
number of interruptions, processes; any number of days and minutes, any loss of
sessions, fills, minutes or rows, any window, any bucket and order of publications.
The specifications the portfolio theorems are about (`PathSpec`, `RotationSpec`,
`ParitySpec`, `ManagedSpec`, `TrendSpec`, ...) take every market of their kind, where
MCPortfolio takes a few; `CleanSpec` takes every list of sessions.

The assumptions are the named ASSUMEs of the modules, which TLC evaluates in the
runs.  Those a reader should know: a session has more than one minute
(`Minutes > 1`, 1440 in the code), recovery asks for more complete sessions than a
target looks back on (`RunRequired > Lookback`; 150 and 91 against 90 at most, which is
why a window is never broken), the trend's asks for more than one, and "CASH" is
not the name of an asset.  Of the portfolio theorems one has a hypothesis of its own:
HoldsAreBounded assumes a holding limit above 2 (the frozen trials have 4, 5 and 7);
with less, an exit decided at the first close of a delayed position comes too late.

No induction rule is used.  Where the code computes along a list, a proof takes the
least place at which the claim fails (`LeastNatural`), and a function that is defined by
recursion is shown to exist first, as the one built up to each number
(`CounterExists`, `SumExists`).

* **RegimeControllerProofs.**  `TypeInv` (types, and an executing command has a
  task) is inductive for all commands, with `resume`: theorem ControllerTypes.
  For commands that recover first (`RecoveringOnly`), `JournalInv` is inductive: while
  a command works on its copy there is no journal; from the first write on the
  journal is its copy, and the files follow it in order; an executing command's
  copy is what is on disk, and its task is RUNNING there.  It is needed because
  `LedgerImplemented` speaks of the files alone: that the journal a command writes
  is one transaction away from them is only true because nobody has touched them
  since they were read.  From it follow ControllerImplementsLedger (every step is
  a step of the ledger or a stutter, `Transaction` being the steps as a relation
  on snapshots) and JournalIsDurable.  The hypothesis is not idle: RegimeBlind and
  RegimeResume are what happens without it.

  The other safety properties of RegimeCore follow by the same route: a property of
  snapshots that every transaction keeps, and two lemmas that bring it to the files -
  `StepTransacts` (what the files mean changes by a transaction) and `FilesFollow` (a
  file that is written becomes what the files mean).  CompletedOnce needs that what is
  scored is settled, SingleRunning that a start looks first, G0Atomic that before G0
  *none* of its tasks is there (`BeforeG0`), DryRunNeutral that a dry run's copy is a
  journal it found (`DryInv`).  StoreReadable and OneKnownChild are also about the
  lab, which moves between making a copy and committing it; `CopySource` lists where
  a copy comes from and what had been checked.  `ReadInv` carries readability into the
  copy (nobody validates it again; artifacts never go away), `ChildInv` that a live
  recorded child belongs to the RUNNING task, in the copy too, and that none is there
  when the next is started.  G0IsAtomic assumes that recording G0 appends a task and
  that files which say it was recorded have it (`G0Seeded`), StoreIsReadable that no
  content task without provenance waits at the start (`WithheldAtFirst`).
  AccountsBalance is about sums, which the fold of the community modules takes in the
  order CHOOSE gives it: `IsSum` is the table of these sums over all subsets, which exists
  (`SumExists`) and grows by one when the function does (`SumAddsOne`), in whatever
  order; `Balanced` speaks of any such tables and is kept by every transaction.
* **RegimeLedgerProofs.**  CompletedOnce is not inductive: recover-existing-g1,
  retries and the gate's verdict all move tasks.  `ScoredSettled` strengthens it:
  what is scored is in a state no command makes READY again.  OneTaskRunning
  needs only that Start looks first and nothing else makes a task RUNNING.
* **RegimeLockProofs.**  `LockInv` ties each process's place to the file:
  whoever is between `open` and release owns it, whoever is about to unlink looks
  at a dead owner's file.  The last part fails when a command comes while
  another judges an hour-old file, so the theorems assume `NoStealRace`; RegimeLockRace is the
  counterexample without it.
* **RegimeQueueProofs.**  Typing lemmas for the functions on snapshots.
* **ResearchProgramProofs.**  For every budget, queue and number of crashes.
  `TypeOK` is not inductive: that `left` stays natural depends on which command
  is where.  `Control` adds the places of each command, the answers it can hold,
  the experiments it works on, and that a command about to charge a call has one
  left; `AfterPlaces` and `WriteControl` say once for all writes that they keep
  it.  On top of it, `FrozenInv` (a clean tree has everything frozen committed; a
  command that will write a report began with a clean tree) gives
  CommittedFirst, and `AccountInv` (the counts, with the call under way) gives
  CallsAccountedFor.  `SoleInv` counts, besides evaluations and crashes, whether the
  command under way has evaluated and whether the report is written; `OnceInv`, that an
  experiment that lies ahead has no terminal row and that a row without a state to
  match cost a crash; `BackedInv`, what an audit has written at each of its places, and
  that the experiment in the state is not the finished one, so that nothing written
  about the one disturbs the other.  With them all safety properties of Research are
  theorems.
* **SessionProofs.**  `JointSessions` first: the segment and the eligibility of a session
  are recursive functions; `CompleteRunEquation` and `SegmentsStay` are what the rest
  relies on.
  - *ReversionPeriod* (HoldsAreBounded): `PeriodInv` ties the state machine to the marks it
    has left: the clock of a position counts the marks since it was entered, a queued
    exit was ordered in time for the limit, marks that follow each other are adjacent.
  - *RotationPeriod* (RotationNeverBridges): consecutive rows of the ledger join, and
    after a gap the next fill ends what is open (`OpenPosition`).
  - *RotationPath* (RotationStaysSound): `BindingFacts` are facts on all bindings of any
    grid; the invariant says where the trace has got to, that its last entry carries the
    position and that the order under way is the one it asks for.  Rule and oracle agree
    for every score.
  - *ReversionPath* (PathStaysSound): `ClocksMatch` ties each asset's clock to the book -
    a position has been open in every entry since it was entered, one index each, in one
    segment -, `Prompt` and `Late` say which targets wait without and with the delay (with
    it the clock refuses the order before it is filled, so that nothing is ever held).  A step is followed through its four parts (quarantine, fills,
    decisions, accounting).
  - *CleanReversion* (EvaluatorAgrees): evaluator and reference differ only where an
    order misses its session, and none does (`InTime`); over complete sessions their
    accounts are then equal.  *CleanRotation* (CleanRotationStaysSound): what is held or
    awaited rests on a run of complete sessions, and an order is due within the delay
    (`Backed`).
* **MinuteProofs.**
  - *ParityPath* (ParityPathObserved): every detection passed is remembered by the trigger
    or too old for the fills to come (`Covered`), and one a position was held over owes a
    sale at the next vector (`Owing`), which is a moment of the path.  An event has four
    stages, each with its own form of the invariant (`Good`, `Detected`, `Sold`).
  - *ManagedPath* (ManagedPathObserved): targets of past moments are settled, each once
    (`Books`), a detection owes a sale at a later vector (`Covering`), endpoints a position
    was held over had a price (`Priced`).  A missing minute need not be detected at all; but
    then its session has no last minute, so that the endpoint has no price, or it is
    noticed within the session and the sale comes before the next day's endpoint.
  - *TrendPath* (TrendAccountsObserved): `TapeFacts` is what any rows give - fills ascend,
    come after their sessions, no target lies over a hole; `OrdersAdjacent` needs that the
    next order can only be the next session.
  - *CalendarPath* (CalendarPathObserved): what is held was filled in the hour before and
    is sold when the path waits; the last fill lies before the hour of the next one or the
    one at which the quarantine ends.
* **EvidenceProofs.**
  - *StudyGates*, for all nine studies and any set of contracts.  GoIsEarned speaks of
    the end; `StudyInv` says what the steps passed so far have shown (`Judged`), what a
    study that has not raised has let pass (`Admitted`), that a study's own list
    has multiplicity after what it judges and the gates after everything (`Orderly`, a
    fact on the nine lists), and that a GO that was found was earned (`Earned`).
  - *HoldoutLatch*, for any number of callers and power losses.  LatchIrreversible says
    nothing of who may still write, so `LatchInv` adds it: each place is a place of the
    program, one caller at most owns the `.arming` file, the file at hand fits the
    owner's place, and a caller past its `rename` finds the latch armed.
  - *Route4Ledger*, for any requests and records.  `LedgerInv` keeps what one record leaves
    for the next: the ordinals count the attempts, each attempt but the last asks for a
    retry, and a terminal record answers the last action.  That no attempt follows it is
    not a guard of the code: it follows because the last action would have to be `retry`,
    which no terminal state answers (`PolicyTells`).
  - *ArchiveAudit* (ManifestIsSound), for any bucket, pools and publications meanwhile:
    a listing never shows more than the bucket has, what a worker has read are pairs of
    one publication, and all of them once it has ended without an error (`ReadSound`);
    `RecordsKept` says that exactly the directories collected so far have a record.

**Model-checked only.**  The liveness properties ReadyWorkEnds, JournalReplayed and
AuditConcludes (the prover does neither fairness nor ENABLED).  CompletedOnce and
SingleRunning *of torn files with commands that do not recover and an unlocked resume*,
which is what RegimeOperator checks (the theorems are about commands that recover; for
the ledger with all commands they are proved in RegimeLedgerProofs).

**What proving has changed in the models.**  `RotationPath.OracleTarget` and
`ReversionPath.Verdict` had CASE arms that overlap; the code is a chain of `if`s and takes
the first, which TLC happened to do as well: they are chains now.  In `MissingDetections` of
`ManagedPath` a union and a difference, of equal precedence, have parentheses now.
`PathInit` takes the start of the window as a parameter.

## 5. Plan

1. *Done:* RegimeQueue, RegimeLedger, RegimeController and the runs above.
2. *Done:* RegimeLock.
3. *Done:* the theorems above.
4. *Done:* ResearchProgram, its two runs and six theorems.
5. *Done:* the trading state machines of all studies, the latch, the archive's
   pools, the Route 4 ledger, in one run; the theorems on the studies' GO, the latch and
   the ledger.
6. *Done:* theorems for all safety properties of the portfolio programs, and
   AccountingKept.
7. CompletedOnce of the files with the blind commands.
8. Of the archive: the pages of a symbol's own listing, during which objects may be
   published as well.

## 6. Not modelled

JSON layout, schemas, hashes and wording; model routing; what the validators of
`g1_recovery_validation.py` look at (their verdict is an input); `systemd_smoke`,
`status` and `weekly-report`, which change none of the state above; the
`program_state` (always ACTIVE_RESEARCH in ResearchProgram), `smoke`,
`trend-direction-review` and `public_snapshot`, which change only the usage and
publication logs, and the scheduled-continuation check; the
grandchild `codex` that may survive when `timeout` is killed with SIGKILL.

Of the portfolio programs: the numeric kernels (returns, volatilities, scores, costs:
floating point and decimal arithmetic over market data, abstract here to what the
control flow tells apart), the statistics (their threshold only), the identities and
hashes of inputs, the CSV and ZIP loaders below the row level.  `archive_universe.py`,
`work_queue.py` and `fixed_pair_evaluator/` are pure functions (the first is called
by tests only, of the third the one program that runs uses only its identity checks).
The JSON pointer operations, hash graphs and the preflight of Route 4 compare documents
field by field and keep no state.  The control plane reads repositories and renders.
PROJECT.json lists every component with its status.
