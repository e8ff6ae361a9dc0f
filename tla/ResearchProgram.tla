---------------------------- MODULE ResearchProgram ----------------------------
(***************************************************************************)
(* src/strategy_control/orchestrator.py: the first research controller.    *)
(* One command of `main` at a time holds the kernel lock.  It reads        *)
(* CURRENT_STATE.json, refuses unless the saved experiment and task are    *)
(* its own and the git tree is clean, computes (a model call, a local      *)
(* evaluation), and then writes its files one after another, with nothing  *)
(* that makes the writes one transaction.  A crash leaves the files        *)
(* written so far.  Between commands the operator commits the tree and     *)
(* makes by hand the moves no command makes.                               *)
(***************************************************************************)
EXTENDS Naturals, Sequences

CONSTANTS
    Calls,       \* agent calls allotted to an experiment
    Queue,       \* experiments the operator may allocate after the fixed ones
    MaxIssued,   \* bound: model calls not charged to a budget, per command
    MaxEvals,    \* bound: evaluations of one experiment that is not one-shot
    MaxCrashes   \* bound: commands that die before their last write

\* Archive universe, trend, mean reversion and relative value follow each
\* other; the rest are allocated by hand.  A failed evaluation of a one-shot
\* experiment is its result, one of a repeatable experiment can be run again.
Repeatable == {"trend", "meanrev", "relval", "calendar"}
OneShot == {"volpar", "volman"}
Experiments == {"archive"} \cup Repeatable \cup OneShot
Audited == {"archive", "trend", "meanrev"}

ASSUME ResearchAssumption ==
    /\ Calls \in Nat \ {0}
    /\ Queue \subseteq {"calendar"} \cup OneShot
    /\ MaxIssued \in Nat /\ MaxEvals \in Nat /\ MaxCrashes \in Nat

VARIABLES
    (* the files *)
    st,        \* CURRENT_STATE.json
    frozen,    \* experiments with a PREREGISTRATION.json
    contract,  \* status in the trend DATA_CONTRACT.json, which the others reuse
    report,    \* classification in each DEVELOPMENT_RESULT.json (archive: DATA_INTEGRITY_REPORT)
    audit,     \* classification each AUDIT.json stands for
    terminal,  \* terminal rows of EXPERIMENT_LEDGER.jsonl, by experiment
    rejected,  \* rows of REJECTED_STRATEGIES.jsonl, by experiment
    inventory, \* audit_status of the archive in DATA_INVENTORY.json
    recorded,  \* MODEL_USAGE_LEDGER.jsonl: calls of this experiment, by command
    clean,     \* nothing in the tree is uncommitted
    committed, \* the part of `frozen` that is committed
    (* the command holding the lock *)
    cmd, pc,   \* its name and the next thing it does
    out,       \* what its call or computation returned
    (* history *)
    issued,    \* model calls of this experiment, by command
    evals,     \* evaluations of this experiment
    crashes

evidence == <<frozen, contract, report, audit, terminal, rejected, inventory>>
files == <<st, evidence, recorded>>
tree  == <<clean, committed>>
run   == <<cmd, pc, out>>
past  == <<issued, evals, crashes>>
vars  == <<files, tree, run, past>>

Commands == {"freeze", "cycle", "enumerate", "contract", "review", "develop", "audit"}
Calling == {"cycle", "review", "audit"}
Tasks == {"select", "commit", "review", "enumerate", "audit", "preregister", "acquire",
          "freeze", "implement", "develop", "holdout", "allocate", "exhausted"}
Computing == {"invoke", "retrieve", "verify", "evaluate"}
Writing == {"prereg", "call", "charge", "note", "report", "contract", "audit", "terminal",
            "inventory", "rejected", "advance"}
Classes == {"go", "no_go", "rejected", "inconclusive"}
Outcomes == {"none", "failed", "invalid", "ready", "done", "pass"} \cup Classes

NoCalls == [c \in Calling |-> 0]

\* The archive budget is its last call: three were allotted and two are used.
Init ==
    /\ st = [exp |-> "archive", task |-> "select", used |-> 2, left |-> 1, cycles |-> 1,
             last |-> "none", verdict |-> "none"]
    /\ frozen = {} /\ contract = "none"
    /\ report = [e \in Experiments |-> "none"] /\ audit = [e \in Experiments |-> "none"]
    /\ terminal = [e \in Experiments |-> << >>] /\ rejected = [e \in Experiments |-> << >>]
    /\ inventory = "none" /\ recorded = NoCalls
    /\ clean = TRUE /\ committed = {}
    /\ cmd = "none" /\ pc = "idle" /\ out = "none"
    /\ issued = NoCalls /\ evals = 0 /\ crashes = 0

-----------------------------------------------------------------------------
(* When a command does not refuse.                                         *)

\* freeze_preregistration and freeze_trend_preregistration.
CanFreeze ==
    /\ clean /\ st.exp \notin frozen
    /\ \/ st.exp = "archive" /\ terminal["archive"] = << >>
       \/ st.exp = "trend" /\ st.task = "freeze" /\ contract = "pass"

\* run_bounded_cycles: only the first of its cycles can do anything, for the
\* task it moves to has no registered step and a failed call changes no state.
CanCycle == clean /\ st.exp = "archive" /\ st.task = "review" /\ "archive" \in frozen

\* run_archive_data_audit.
CanEnumerate == clean /\ st.exp = "archive" /\ st.task = "enumerate" /\ "archive" \in frozen

\* run_trend_data_audit asks neither for a task nor for a clean tree.
CanVerify == st.exp = "trend"

\* run_mean_reversion_direction_review.
CanReview == clean /\ st.exp = "meanrev" /\ st.task = "review" /\ st.left >= 1

\* Mutant of CanDevelop: the tree is not looked at.
CanDevelopDirty ==
    /\ st.exp \in Repeatable \cup OneShot /\ st.task = "develop"
    /\ st.exp \in frozen /\ contract = "pass"
    /\ st.exp \in OneShot => st.cycles = 1

\* run_*_development.
CanDevelop ==
    /\ clean
    /\ st.exp \in Repeatable \cup OneShot /\ st.task = "develop"
    /\ st.exp \in frozen /\ contract = "pass"
    /\ st.exp \in OneShot => st.cycles = 1

\* Mutant of CanAudit: the budget is not looked at.
CanAuditUnbudgeted ==
    /\ clean /\ st.exp \in Audited /\ st.task = "audit"
    /\ st.exp # "archive" => report[st.exp] = "no_go"

\* run_independent_archive_audit asks for exactly one call, the other two for one.
CanAudit ==
    /\ clean /\ st.exp \in Audited /\ st.task = "audit"
    /\ IF st.exp = "archive" THEN st.left = 1
                             ELSE st.left >= 1 /\ report[st.exp] = "no_go"

Can(c) ==
    CASE c = "freeze" -> CanFreeze
      [] c = "cycle" -> CanCycle
      [] c = "enumerate" -> CanEnumerate
      [] c = "contract" -> CanVerify
      [] c = "review" -> CanReview
      [] c = "develop" -> CanDevelop
      [] c = "audit" -> CanAudit

First(c) ==
    CASE c = "freeze" -> "prereg"
      [] c \in Calling -> "invoke"
      [] c = "enumerate" -> "retrieve"
      [] c = "contract" -> "verify"
      [] c = "develop" -> "evaluate"

\* Bounds on what the budgets do not bound.
WithinBounds(c) ==
    /\ c = "cycle" \/ (c = "audit" /\ st.exp = "archive") => issued[c] < MaxIssued
    /\ c = "develop" => evals < MaxEvals

\* main: the lock is taken (a second command is refused) and the guards pass.
Begin(c) ==
    /\ pc = "idle" /\ Can(c) /\ WithinBounds(c)
    /\ cmd' = c /\ pc' = First(c) /\ out' = "none"
    /\ UNCHANGED <<files, tree, past>>

-----------------------------------------------------------------------------
(* What a command computes.                                                *)

\* What a call brings: no result (a call that is not live never has one), one
\* that fails validation, a verdict.
Answers ==
    CASE cmd = "cycle" -> {"failed", "ready"}
      [] cmd = "review" -> {"failed", "invalid", "ready"}
      [] cmd = "audit" /\ st.exp = "archive" -> {"failed", "invalid", "go", "no_go"}
      [] OTHER -> {"failed", "invalid", "no_go", "rejected"}

Invoke ==
    /\ pc = "invoke" /\ out' \in Answers /\ pc' = "call"
    /\ issued' = [issued EXCEPT ![cmd] = @ + 1]
    /\ UNCHANGED <<files, tree, cmd, evals, crashes>>

\* run_archive_observed_audit: an error is noted, an overlong run only raised.
Retrieve ==
    /\ pc = "retrieve"
    /\ \/ out' = "done" /\ pc' = "report" /\ cmd' = cmd
       \/ out' = "failed" /\ pc' = "note" /\ cmd' = cmd
       \/ out' = "none" /\ pc' = "idle" /\ cmd' = "none"
    /\ UNCHANGED <<files, tree, past>>

\* verify_trend_data.
Verify ==
    /\ pc = "verify" /\ out' \in {"pass", "failed"} /\ pc' = "contract"
    /\ UNCHANGED <<files, tree, cmd, past>>

\* evaluate_*_development; any error it raises is the outcome "failed".
Evaluate ==
    /\ pc = "evaluate" /\ out' \in {"go", "no_go", "failed"} /\ pc' = "report"
    /\ evals' = evals + 1
    /\ UNCHANGED <<files, tree, cmd, issued, crashes>>

-----------------------------------------------------------------------------
(* The order of a command's writes.                                        *)

Failed == out \in {"failed", "invalid"}

\* Mutant of Charged: a call that brought nothing is not charged.
ChargedForResult == (cmd = "review" \/ (cmd = "audit" /\ st.exp # "archive")) /\ out # "failed"

\* Only the direction review and the two later audits charge their call.
Charged == cmd = "review" \/ (cmd = "audit" /\ st.exp # "archive")

\* Mutant of Inconclusive: running out of calls is not an ending.
NeverInconclusive(left) == FALSE

\* The last call of the mean-reversion audit ends the experiment in any case.
Inconclusive(left) == cmd = "audit" /\ st.exp = "meanrev" /\ Failed /\ left = 0

Ending(left) == IF Inconclusive(left) THEN "audit" ELSE "idle"

\* After the call is recorded and charged, with so many calls left.
Answered(left) ==
    IF out = "failed" THEN Ending(left)
    ELSE IF out = "invalid" \/ cmd = "review" THEN "note"
    ELSE IF cmd = "cycle" THEN "advance" ELSE "audit"

\* Mutant of Noted: a failed one-shot evaluation leaves the state as it is.
NotedFailureOpen ==
    CASE cmd = "review" -> IF out = "ready" THEN "advance" ELSE "idle"
      [] cmd = "audit" -> Ending(st.left)
      [] cmd = "enumerate" -> IF out = "done" THEN "advance" ELSE "idle"
      [] cmd = "develop" -> IF out # "failed" THEN "advance" ELSE "idle"
      [] OTHER -> "idle"

\* After a write that no command reads: a row of MODEL_USAGE_LEDGER.jsonl,
\* the PREREGISTRATION_FROZEN row, DIRECTION_REVIEW.json.
Noted ==
    CASE cmd = "review" -> IF out = "ready" THEN "advance" ELSE "idle"
      [] cmd = "audit" -> Ending(st.left)
      [] cmd = "enumerate" -> IF out = "done" THEN "advance" ELSE "idle"
      [] cmd = "develop" -> IF out # "failed" \/ st.exp \in OneShot THEN "advance" ELSE "idle"
      [] OTHER -> "idle"

\* Mutant of AuditRow: the rejection is not recorded before the state advances.
AuditRowLast == IF st.exp = "archive" THEN "inventory" ELSE "advance"

AuditRow == IF st.exp = "archive" THEN "inventory" ELSE "rejected"

After(write) ==
    CASE write = "call" -> IF Charged THEN "charge" ELSE Answered(st.left)
      [] write = "charge" -> Answered(st.left - 1)
      [] write = "prereg" -> "advance"
      [] write = "report" -> "note"
      [] write = "contract" -> "note"
      [] write = "note" -> Noted
      [] write = "audit" -> "terminal"
      [] write = "terminal" -> AuditRow
      [] write = "inventory" -> IF out = "no_go" THEN "rejected" ELSE "advance"
      [] write = "rejected" -> "advance"
      [] write = "advance" -> IF cmd = "freeze" /\ st.exp = "trend" THEN "note" ELSE "idle"

\* One durable write, and on to the next one.  Every write leaves the tree
\* uncommitted.
Write(write) ==
    /\ pc = write /\ pc' = After(write)
    /\ IF After(write) = "idle" THEN cmd' = "none" /\ out' = "none" ELSE UNCHANGED <<cmd, out>>
    /\ clean' = FALSE
    /\ UNCHANGED <<committed, past>>

-----------------------------------------------------------------------------
(* The writes.                                                             *)

WritePreregistration ==
    /\ Write("prereg") /\ frozen' = frozen \cup {st.exp}
    /\ UNCHANGED <<st, contract, report, audit, terminal, rejected, inventory, recorded>>

RecordCall ==
    /\ Write("call") /\ recorded' = [recorded EXCEPT ![cmd] = @ + 1]
    /\ UNCHANGED <<st, evidence>>

Charge ==
    /\ Write("charge") /\ st' = [st EXCEPT !.used = @ + 1, !.left = @ - 1]
    /\ UNCHANGED <<evidence, recorded>>

Note == Write("note") /\ UNCHANGED files

WriteReport ==
    /\ Write("report") /\ report' = [report EXCEPT ![st.exp] = out]
    /\ UNCHANGED <<st, frozen, contract, audit, terminal, rejected, inventory, recorded>>

WriteContract ==
    /\ Write("contract") /\ contract' = out
    /\ UNCHANGED <<st, frozen, report, audit, terminal, rejected, inventory, recorded>>

\* The terminal classification: an audit that was not obtained is inconclusive.
Classification == IF Failed THEN "inconclusive" ELSE out

WriteAudit ==
    /\ Write("audit") /\ audit' = [audit EXCEPT ![st.exp] = Classification]
    /\ UNCHANGED <<st, frozen, contract, report, terminal, rejected, inventory, recorded>>

AppendTerminal ==
    /\ Write("terminal")
    /\ terminal' = [terminal EXCEPT ![st.exp] = Append(@, Classification)]
    /\ UNCHANGED <<st, frozen, contract, report, audit, rejected, inventory, recorded>>

WriteInventory ==
    /\ Write("inventory") /\ inventory' = out
    /\ UNCHANGED <<st, frozen, contract, report, audit, terminal, rejected, recorded>>

AppendRejected ==
    /\ Write("rejected")
    /\ rejected' = [rejected EXCEPT ![st.exp] = Append(@, Classification)]
    /\ UNCHANGED <<st, frozen, contract, report, audit, terminal, inventory, recorded>>

\* Where a terminal experiment leads, and the first task there.
Successor ==
    CASE st.exp = "archive" /\ out = "no_go" -> [exp |-> "trend", task |-> "preregister"]
      [] st.exp = "archive" /\ out = "go" -> [exp |-> "momentum", task |-> "acquire"]
      [] st.exp = "trend" -> [exp |-> "meanrev", task |-> "allocate"]
      [] OTHER -> [exp |-> "relval", task |-> "allocate"]

\* Mutant of Concluded: the verdict is saved, the experiment stays current.
ConcludedInPlace == [st EXCEPT !.last = st.exp, !.verdict = Classification]

Concluded ==
    [st EXCEPT !.exp = Successor.exp, !.task = Successor.task,
               !.last = st.exp, !.verdict = Classification,
               !.used = IF st.exp = "archive" THEN 3 ELSE @,
               !.left = IF st.exp = "archive" THEN 0 ELSE @,
               !.cycles = IF st.exp = "archive" THEN 0 ELSE @]

\* The last STATE write of a command.
Advanced ==
    CASE cmd = "freeze" ->
            [st EXCEPT !.task = IF st.exp = "archive" THEN "commit" ELSE "implement"]
      [] cmd = "cycle" -> [st EXCEPT !.task = "enumerate"]
      [] cmd = "enumerate" -> [st EXCEPT !.task = "audit"]
      [] cmd = "review" -> [st EXCEPT !.task = "freeze"]
      [] cmd = "develop" ->
            [st EXCEPT !.task = IF out = "go" THEN "holdout" ELSE "audit", !.cycles = 0]
      [] cmd = "audit" -> Concluded

WriteState ==
    /\ Write("advance") /\ st' = Advanced
    /\ UNCHANGED <<evidence, recorded>>

\* The process dies, or leaves through an exception, before its next write.
Crash ==
    /\ pc # "idle" /\ crashes < MaxCrashes /\ crashes' = crashes + 1
    /\ cmd' = "none" /\ pc' = "idle" /\ out' = "none"
    /\ UNCHANGED <<files, tree, issued, evals>>

-----------------------------------------------------------------------------
(* The operator, between commands: what the code leaves to hand.           *)

Commit ==
    /\ pc = "idle" /\ ~clean /\ clean' = TRUE /\ committed' = frozen
    /\ UNCHANGED <<files, run, past>>

ByHand == pc = "idle" /\ clean' = FALSE /\ UNCHANGED <<committed, run, crashes>>

\* An experiment receives its budget; its calls and evaluations count anew.
Allocate(task) ==
    /\ ByHand
    /\ st' = [st EXCEPT !.task = task, !.used = 0, !.left = Calls, !.cycles = 1]
    /\ issued' = NoCalls /\ recorded' = NoCalls /\ evals' = 0
    /\ UNCHANGED <<contract, report, audit, terminal, rejected, inventory>>

AllocateTrend ==
    /\ st.exp = "trend" /\ st.task = "preregister" /\ contract = "pass"
    /\ Allocate("freeze") /\ UNCHANGED frozen

AllocateMeanReversion ==
    /\ st.exp = "meanrev" /\ st.task = "allocate"
    /\ Allocate("review") /\ UNCHANGED frozen

\* The later experiments are preregistered without a command.
AllocateLater ==
    /\ st.exp \in Experiments \ Audited /\ st.task = "allocate"
    /\ Allocate("develop") /\ frozen' = frozen \cup {st.exp}

\* The saved task is moved on, with the mean-reversion preregistration frozen.
HandOver ==
    /\ ByHand
    /\ \/ /\ st.exp = "archive" /\ st.task \in {"select", "commit"} /\ "archive" \in frozen
          /\ st' = [st EXCEPT !.task = "review"] /\ UNCHANGED frozen
       \/ /\ st.exp = "trend" /\ st.task = "implement"
          /\ st' = [st EXCEPT !.task = "develop"] /\ UNCHANGED frozen
       \/ /\ st.exp = "meanrev" /\ st.task = "freeze"
          /\ st' = [st EXCEPT !.task = "develop"] /\ frozen' = frozen \cup {"meanrev"}
    /\ UNCHANGED <<contract, report, audit, terminal, rejected, inventory, recorded, issued, evals>>

\* No command audits the later experiments; another one of them is selected.
ConcludeByHand ==
    /\ ByHand
    /\ st.exp \in Experiments \ Audited /\ st.task = "audit"
    /\ audit' = [audit EXCEPT ![st.exp] = "rejected"]
    /\ terminal' = [terminal EXCEPT ![st.exp] = Append(@, "rejected")]
    /\ rejected' = [rejected EXCEPT ![st.exp] = Append(@, "rejected")]
    /\ \E next \in {e \in Queue : terminal'[e] = << >>} \cup {"none"} :
          /\ next = "none" => \A e \in Queue : terminal'[e] # << >>
          /\ st' = [st EXCEPT !.exp = next, !.task = IF next = "none" THEN "exhausted" ELSE "allocate",
                              !.last = st.exp, !.verdict = "rejected"]
    /\ UNCHANGED <<frozen, contract, report, inventory, recorded, issued, evals>>

\* An audit that was not obtained, of the archive or of trend, is ended by hand;
\* the trend is rejected for its development result (REJECTED_STRATEGIES.jsonl:2).
AbandonAudit ==
    /\ ByHand /\ st.task = "audit"
    /\ audit' = [audit EXCEPT ![st.exp] = "inconclusive"]
    /\ terminal' = [terminal EXCEPT ![st.exp] = Append(@, "inconclusive")]
    /\ \/ /\ st.exp = "archive" /\ issued["audit"] > 0
          /\ st' = [st EXCEPT !.exp = "trend", !.task = "preregister",
                              !.last = "archive", !.verdict = "inconclusive"]
          /\ UNCHANGED rejected
       \/ /\ st.exp = "trend" /\ st.left = 0
          /\ st' = [st EXCEPT !.exp = "meanrev", !.task = "allocate",
                              !.last = "trend", !.verdict = "inconclusive"]
          /\ rejected' = [rejected EXCEPT !["trend"] = Append(@, "no_go")]
    /\ UNCHANGED <<frozen, contract, report, inventory, recorded, issued, evals>>

Operate == \/ Commit \/ AllocateTrend \/ AllocateMeanReversion \/ AllocateLater
           \/ HandOver \/ ConcludeByHand \/ AbandonAudit

Work ==
    \/ Invoke \/ Retrieve \/ Verify \/ Evaluate
    \/ WritePreregistration \/ RecordCall \/ Charge \/ Note \/ WriteReport \/ WriteContract
    \/ WriteAudit \/ AppendTerminal \/ WriteInventory \/ AppendRejected \/ WriteState

Next == (\E c \in Commands : Begin(c)) \/ Work \/ Crash \/ Operate

Spec == Init /\ [][Next]_vars

\* A command goes on until it ends; the operator commits, and repeats the audit
\* that is due for as long as it is not refused.
Fairness == WF_vars(Work) /\ WF_vars(Commit) /\ WF_vars(Begin("audit"))
FairSpec == Spec /\ Fairness

-----------------------------------------------------------------------------
(* Properties.                                                             *)

StateType == [exp : Experiments \cup {"momentum", "none"}, task : Tasks, used : Nat, left : Nat,
              cycles : {0, 1}, last : Experiments \cup {"none"}, verdict : Classes \cup {"none"}]

FilesOK ==
    /\ frozen \subseteq Experiments /\ contract \in {"none", "pass", "failed"}
    /\ report \in [Experiments -> Outcomes] /\ audit \in [Experiments -> Classes \cup {"none"}]
    /\ terminal \in [Experiments -> Seq(Classes)] /\ rejected \in [Experiments -> Seq(Classes)]
    /\ inventory \in Classes \cup {"none"} /\ recorded \in [Calling -> Nat]

RunOK ==
    /\ cmd \in Commands \cup {"none"} /\ pc \in {"idle"} \cup Computing \cup Writing
    /\ out \in Outcomes

PastOK == issued \in [Calling -> Nat] /\ evals \in Nat /\ crashes \in Nat

\* Types.  `left` is a natural number: no call is charged to an empty budget
\* (orchestrator.py:922, :2234, :2517); and what is committed was frozen.
TypeOK ==
    /\ st \in StateType /\ FilesOK /\ RunOK /\ PastOK
    /\ clean \in BOOLEAN /\ committed \subseteq frozen

\* The calls a budget pays for.
Paid(count) == count["review"] + count["audit"]

\* A charge is always backed by a recorded call, a record by a call that was
\* issued, and only a crash lets a call go uncharged, one call each: a budget
\* is never overspent by more calls than there were crashes.
CallsAccounted ==
    st.exp \in {"trend", "meanrev"} /\ st.task # "preregister" /\ st.task # "allocate" =>
        /\ st.used + st.left = Calls
        /\ st.used <= Paid(recorded) /\ Paid(recorded) <= Paid(issued)
        /\ Paid(issued) <= st.used + crashes + (IF pc \in {"call", "charge"} THEN 1 ELSE 0)

Latest(rows) == IF rows = << >> THEN "none" ELSE rows[Len(rows)]

\* What the state file says of the last finished experiment is what the
\* evidence says: its audit file, its latest terminal row, its latest row of
\* rejections if it was rejected, the archive's entry in the data inventory.
\* The state file is written last, so a crash never leaves it ahead.
StateBacked ==
    st.last # "none" =>
        /\ audit[st.last] = st.verdict
        /\ Latest(terminal[st.last]) = st.verdict
        /\ st.verdict \in {"no_go", "rejected"} => Latest(rejected[st.last]) = st.verdict
        /\ st.last = "archive" /\ st.verdict # "inconclusive" => inventory = st.verdict

\* "Requires a frozen preregistration to be committed before evaluation"
\* (README.md:24): no result is computed before that, after whatever crash.
EvaluatedFrozen == \A e \in Experiments : report[e] # "none" => e \in committed

\* "Run the sole frozen ... evaluation" (orchestrator.py:1843): only a crash
\* makes a one-shot experiment be evaluated again, and once each.
SoleEvaluation == st.exp \in OneShot /\ st.task # "allocate" => evals <= 1 + crashes

\* Only a crash between the ledger row and the state file makes an experiment
\* be concluded twice.
ConcludedOnce == \A e \in Experiments : Len(terminal[e]) <= 1 + crashes

\* A mean-reversion audit that has a call left when it is due comes to an end,
\* with or without a verdict, unless the process dies on the way.  (The trend
\* audit does not: after its last call fails only AbandonAudit can follow.)
AuditConcludes ==
    (st.exp = "meanrev" /\ st.task = "audit" /\ st.left >= 1)
        ~> (st.exp # "meanrev" \/ crashes > 0)

\* DECISION_LOG.md:25: a timed-out archive audit "consumed the third and final
\* frozen agent call".  The code charges no call that fails, so another can be
\* issued: the run ResearchBudget shows it.
FinalCallSpent == st.exp = "archive" => issued["audit"] <= 1
================================================================================
