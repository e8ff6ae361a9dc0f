------------------------- MODULE ResearchProgramProofs -------------------------
(* The research controller, for every budget, queue and number of crashes.  *)
EXTENDS ResearchProgram, TLAPS

-----------------------------------------------------------------------------
(* Where each command can be, of which experiment, and what it can hold.    *)

Places(c) ==
    CASE c = "freeze" -> {"prereg", "advance", "note"}
      [] c = "cycle" -> {"invoke", "call", "advance"}
      [] c = "enumerate" -> {"retrieve", "report", "note", "advance"}
      [] c = "contract" -> {"verify", "contract", "note"}
      [] c = "review" -> {"invoke", "call", "charge", "note", "advance"}
      [] c = "develop" -> {"evaluate", "report", "note", "advance"}
      [] c = "audit" -> {"invoke", "call", "charge", "note", "audit", "terminal",
                         "inventory", "rejected", "advance"}

Held(c) ==
    CASE c = "freeze" -> {"none"}
      [] c = "cycle" -> {"failed", "ready"}
      [] c = "enumerate" -> {"done", "failed"}
      [] c = "contract" -> {"pass", "failed"}
      [] c = "review" -> {"failed", "invalid", "ready"}
      [] c = "develop" -> {"go", "no_go", "failed"}
      [] c = "audit" -> {"failed", "invalid", "go", "no_go", "rejected"}

Subjects(c) ==
    CASE c = "freeze" -> {"archive", "trend"}
      [] c \in {"cycle", "enumerate"} -> {"archive"}
      [] c = "contract" -> {"trend"}
      [] c = "review" -> {"meanrev"}
      [] c = "develop" -> Repeatable \cup OneShot
      [] c = "audit" -> Audited

\* A command that is about to charge a call has one left.
Budgeted ==
    /\ Charged /\ pc \in {"invoke", "call", "charge"} => st.left >= 1
    /\ pc = "charge" => Charged

\* What an audit can hold; only the one of mean reversion ends without a
\* verdict, only the one of the archive reaches the data inventory.
Verdicts ==
    cmd = "audit" =>
        /\ pc # "invoke" => out \in {"failed", "invalid", "no_go"}
                               \cup (IF st.exp = "archive" THEN {"go"} ELSE {"rejected"})
        /\ pc \in {"audit", "terminal", "inventory", "rejected", "advance"} /\ Failed
             => st.exp = "meanrev"
        /\ pc = "inventory" => st.exp = "archive"

Control ==
    \/ cmd = "none" /\ pc = "idle"
    \/ /\ cmd \in Commands /\ pc \in Places(cmd) /\ st.exp \in Subjects(cmd)
       /\ pc \notin Computing => out \in Held(cmd)
       /\ Budgeted /\ Verdicts

Inv == TypeOK /\ Control

USE DEF Commands, Calling, Computing, Writing, Classes, Outcomes, Experiments, Repeatable,
        OneShot, Audited

(* A write leads to a place of the same command, or ends it.               *)
LEMMA AfterPlaces ==
  ASSUME TypeOK, Control, pc \in Writing
  PROVE  After(pc) = "idle" \/ After(pc) \in Places(cmd) \ Computing
<1>0. cmd \in Commands /\ pc \in Places(cmd) /\ out \in Held(cmd)
  BY DEF Control
<1>1. CASE cmd = "freeze"
  BY <1>0, <1>1 DEF Places, Held, After, Noted
<1>2. CASE cmd = "cycle"
  BY <1>0, <1>2 DEF Places, Held, After, Charged, Answered, Ending, Inconclusive
<1>3. CASE cmd = "enumerate"
  BY <1>0, <1>3 DEF Places, Held, After, Noted
<1>4. CASE cmd = "contract"
  BY <1>0, <1>4 DEF Places, Held, After, Noted
<1>5. CASE cmd = "review"
  BY <1>0, <1>5 DEF Places, Held, After, Charged, Answered, Ending, Inconclusive, Noted
<1>6. CASE cmd = "develop"
  BY <1>0, <1>6 DEF Places, Held, After, Noted
<1>7. CASE cmd = "audit"
  BY <1>0, <1>7 DEF Places, Held, After, Charged, Answered, Ending, Inconclusive, Noted, AuditRow
<1> QED BY <1>0, <1>1, <1>2, <1>3, <1>4, <1>5, <1>6, <1>7

(* A write ends its command or hands on what the command holds.            *)
LEMMA WriteMoves ==
  ASSUME Inv, NEW w \in Writing, Write(w)
  PROVE  /\ pc = w /\ pc' = After(w) /\ cmd \in Commands /\ w \in Places(cmd)
         /\ out \in Held(cmd) /\ st.exp \in Subjects(cmd)
         /\ \/ cmd' = "none" /\ pc' = "idle" /\ out' = "none"
            \/ cmd' = cmd /\ pc' \in Places(cmd) \ Computing /\ out' = out
<1>1. pc = w /\ pc' = After(w) /\ cmd \in Commands /\ w \in Places(cmd)
      /\ out \in Held(cmd) /\ st.exp \in Subjects(cmd)
  BY DEF Inv, Control, Write
<1>2. After(w) = "idle" \/ After(w) \in Places(cmd) \ Computing
  BY <1>1, AfterPlaces DEF Inv
<1>3. "idle" \notin Places(cmd)
  BY <1>1 DEF Places
<1> QED BY <1>1, <1>2, <1>3 DEF Write

(* Such a write keeps the control invariant: it does not change the         *)
(* experiment, and the only write that lowers the budget is not followed by *)
(* another charge.                                                          *)
LEMMA WriteControl ==
  ASSUME Inv, NEW w \in Writing, Write(w), st'.exp = st.exp,
         st'.left = st.left \/ w = "charge", w = "charge" => st'.left = st.left - 1
  PROVE  Control'
<1>1. /\ pc = w /\ pc' = After(w) /\ cmd \in Commands /\ w \in Places(cmd)
      /\ out \in Held(cmd) /\ st.exp \in Subjects(cmd)
      /\ \/ cmd' = "none" /\ pc' = "idle" /\ out' = "none"
         \/ cmd' = cmd /\ pc' \in Places(cmd) \ Computing /\ out' = out
  BY WriteMoves
<1>2. CASE cmd' = "none" /\ pc' = "idle"
  BY <1>2 DEF Control
<1>3. CASE cmd' = cmd /\ pc' \in Places(cmd) \ Computing /\ out' = out
  <2>1. Budgeted'
    <3>1. CASE pc' = "charge"
      <4>1. w = "call" /\ Charged
        BY <1>1, <3>1 DEF After, Answered, Ending, Inconclusive, Noted, AuditRow
      <4>2. Charged' /\ st.left >= 1
        BY <1>1, <1>3, <4>1 DEF Budgeted, Charged, Inv, Control
      <4> QED BY <4>1, <4>2 DEF Budgeted
    <3>2. CASE pc' # "charge"
      <4>1. pc' # "call"
        BY <1>1 DEF After, Answered, Ending, Inconclusive, Noted, AuditRow
      <4> QED BY <1>3, <3>2, <4>1 DEF Budgeted
    <3> QED BY <3>1, <3>2
  <2>2. Verdicts'
    <3> SUFFICES ASSUME cmd = "audit" PROVE Verdicts'
      BY <1>3 DEF Verdicts
    <3>1. Verdicts /\ w # "invoke"
      BY <1>1 DEF Inv, Control
    <3>2. pc' \in {"audit", "terminal", "inventory", "rejected", "advance"} /\ Failed
             => st.exp = "meanrev"
      BY <1>1, <3>1 DEF Verdicts, After, Answered, Ending, Inconclusive, Failed, Noted, AuditRow,
                        Charged, Places, Held
    <3>3. pc' = "inventory" => st.exp = "archive"
      BY <1>1, <3>1 DEF Verdicts, After, Answered, Ending, Inconclusive, Failed, Noted, AuditRow,
                        Charged, Places, Held
    <3> QED BY <1>1, <1>3, <3>1, <3>2, <3>3 DEF Verdicts, Failed
  <2> QED BY <1>1, <1>3, <2>1, <2>2 DEF Control
<1> QED BY <1>1, <1>2, <1>3

-----------------------------------------------------------------------------
(* One step at a time.                                                      *)

(* Ending an experiment keeps the type of the state file.                   *)
LEMMA EndedType ==
  ASSUME NEW s \in StateType, NEW exp \in Experiments \cup {"momentum", "none"},
         NEW task \in Tasks, NEW last \in Experiments, NEW verdict \in Classes
  PROVE  [s EXCEPT !.exp = exp, !.task = task, !.last = last, !.verdict = verdict] \in StateType
<1> HIDE DEF Classes, Experiments
<1> QED BY DEF StateType

(* Also when its budget is settled.                                         *)
LEMMA SettledType ==
  ASSUME NEW s \in StateType, NEW exp \in Experiments \cup {"momentum", "none"},
         NEW task \in Tasks, NEW last \in Experiments, NEW verdict \in Classes,
         NEW used \in Nat, NEW left \in Nat, NEW cycles \in {0, 1}
  PROVE  [s EXCEPT !.exp = exp, !.task = task, !.last = last, !.verdict = verdict,
                   !.used = used, !.left = left, !.cycles = cycles] \in StateType
<1> HIDE DEF Classes, Experiments
<1> QED BY DEF StateType

(* So does a row more in a ledger.                                          *)
LEMMA RowType ==
  ASSUME NEW ledger \in [Experiments -> Seq(Classes)], NEW e \in Experiments,
         NEW class \in Classes
  PROVE  [ledger EXCEPT ![e] = Append(@, class)] \in [Experiments -> Seq(Classes)]
<1> HIDE DEF Classes, Experiments
<1>1. ledger[e] \in Seq(Classes)
  OBVIOUS
<1>2. Append(ledger[e], class) \in Seq(Classes)
  BY <1>1
<1> QED BY <1>2

\* The writes that leave the state file alone.
Elsewhere ==
    \/ WritePreregistration \/ RecordCall \/ Note \/ WriteReport \/ WriteContract
    \/ WriteAudit \/ AppendTerminal \/ WriteInventory \/ AppendRejected

(* A command begins where its guard puts it.                               *)
LEMMA BeginInv == ASSUME Inv, NEW c \in Commands, Begin(c) PROVE Inv'
<1>1. pc' = First(c) /\ First(c) \in Places(c) /\ (First(c) \in Computing \/ c = "freeze")
  BY DEF Begin, First, Places
<1>2. st.exp \in Subjects(c)
  BY DEF Begin, Can, CanFreeze, CanCycle, CanEnumerate, CanVerify, CanReview, CanDevelop,
         CanAudit, Subjects
<1>3. c = "review" \/ c = "audit" => st.left >= 1
  <2>1. CASE c = "review"
    <3>1. CanReview
      BY <2>1 DEF Begin, Can
    <3> QED BY <3>1 DEF CanReview
  <2>2. CASE c = "audit"
    <3>1. CanAudit
      BY <2>2 DEF Begin, Can
    <3> QED BY <3>1 DEF CanAudit
  <2> QED BY <2>1, <2>2
<1>4. First(c) \in {"idle"} \cup Computing \cup Writing
  BY DEF First
<1>5. TypeOK'
  <2>1. RunOK'
    BY <1>1, <1>4 DEF Begin, RunOK
  <2>2. UNCHANGED <<files, tree, past>>
    BY DEF Begin
  <2> QED BY <2>1, <2>2 DEF Inv, TypeOK, FilesOK, PastOK, files, evidence, tree, past
<1>6. Control'
  <2>1. cmd' = c /\ out' = "none" /\ st' = st
    BY DEF Begin, files
  <2>2. Budgeted'
    BY <1>1, <1>3, <2>1 DEF Budgeted, Charged, First
  <2>3. Verdicts'
    BY <1>1, <2>1 DEF Verdicts, First
  <2>4. pc' \notin Computing => out' \in Held(c)
    BY <1>1, <2>1 DEF Held
  <2> QED BY <1>1, <1>2, <2>1, <2>2, <2>3, <2>4 DEF Control
<1> QED BY <1>5, <1>6 DEF Inv

(* The computations.                                                       *)
LEMMA ComputeInv == ASSUME Inv, Invoke \/ Retrieve \/ Verify \/ Evaluate PROVE Inv'
<1>1. CASE Invoke
  <2>1. cmd \in Calling /\ st.exp \in Subjects(cmd) /\ pc = "invoke" /\ pc' = "call"
        /\ cmd' = cmd /\ st' = st /\ Budgeted
    BY <1>1 DEF Invoke, Inv, Control, Places, files
  <2>2. out' \in Held(cmd) /\ out' \in Outcomes
    BY <1>1, <2>1 DEF Invoke, Answers, Held
  <2>3. TypeOK'
    <3>1. RunOK' /\ PastOK'
      BY <1>1, <2>1, <2>2 DEF Invoke, Inv, TypeOK, RunOK, PastOK
    <3> QED BY <1>1, <3>1 DEF Invoke, Inv, TypeOK, FilesOK, files, evidence, tree
  <2>4. Verdicts'
    BY <1>1, <2>1 DEF Verdicts, Invoke, Answers, Subjects
  <2>5. Budgeted'
    BY <2>1 DEF Budgeted, Charged
  <2> QED BY <2>1, <2>2, <2>3, <2>4, <2>5 DEF Inv, Control, Places
<1>2. CASE Retrieve
  <2>1. cmd = "enumerate" /\ st.exp \in Subjects(cmd) /\ st' = st
    BY <1>2 DEF Retrieve, Inv, Control, Places, files
  <2>2. TypeOK'
    <3>1. RunOK'
      BY <1>2, <2>1 DEF Retrieve, Inv, TypeOK, RunOK
    <3> QED BY <1>2, <3>1 DEF Retrieve, Inv, TypeOK, FilesOK, PastOK, files, evidence, tree, past
  <2>3. Control'
    BY <1>2, <2>1 DEF Retrieve, Control, Places, Held, Budgeted, Charged, Verdicts
  <2> QED BY <2>2, <2>3 DEF Inv
<1>3. CASE Verify
  <2>1. cmd = "contract" /\ st.exp \in Subjects(cmd) /\ st' = st
    BY <1>3 DEF Verify, Inv, Control, Places, files
  <2>2. TypeOK'
    <3>1. RunOK'
      BY <1>3, <2>1 DEF Verify, Inv, TypeOK, RunOK
    <3> QED BY <1>3, <3>1 DEF Verify, Inv, TypeOK, FilesOK, PastOK, files, evidence, tree, past
  <2>3. Control'
    BY <1>3, <2>1 DEF Verify, Control, Places, Held, Budgeted, Charged, Verdicts
  <2> QED BY <2>2, <2>3 DEF Inv
<1>4. CASE Evaluate
  <2>1. cmd = "develop" /\ st.exp \in Subjects(cmd) /\ st' = st
    BY <1>4 DEF Evaluate, Inv, Control, Places, files
  <2>2. TypeOK'
    <3>1. RunOK' /\ PastOK'
      <4>1. st.exp \in Experiments
        BY <2>1 DEF Subjects
      <4> QED BY <1>4, <2>1, <4>1 DEF Evaluate, Inv, TypeOK, RunOK, PastOK
    <3> QED BY <1>4, <3>1 DEF Evaluate, Inv, TypeOK, FilesOK, files, evidence, tree
  <2>3. Control'
    BY <1>4, <2>1 DEF Evaluate, Control, Places, Held, Budgeted, Charged, Verdicts
  <2> QED BY <2>2, <2>3 DEF Inv
<1> QED BY <1>1, <1>2, <1>3, <1>4

(* What the writes of evidence leave of the types.                         *)
LEMMA ElsewhereInv == ASSUME Inv, Elsewhere PROVE Inv'
<1>1. st' = st /\ UNCHANGED <<committed, past>> /\ clean' = FALSE
  BY DEF Elsewhere, WritePreregistration, RecordCall, Note, WriteReport, WriteContract, WriteAudit,
         AppendTerminal, WriteInventory, AppendRejected, Write, files
<1>2. PICK w \in Writing \ {"charge", "advance"} : Write(w) /\
        \/ w = "prereg" /\ WritePreregistration
        \/ w = "call" /\ RecordCall
        \/ w = "note" /\ Note
        \/ w = "report" /\ WriteReport
        \/ w = "contract" /\ WriteContract
        \/ w = "audit" /\ WriteAudit
        \/ w = "terminal" /\ AppendTerminal
        \/ w = "inventory" /\ WriteInventory
        \/ w = "rejected" /\ AppendRejected
  BY DEF Elsewhere, WritePreregistration, RecordCall, Note, WriteReport, WriteContract, WriteAudit,
         AppendTerminal, WriteInventory, AppendRejected
<1>3. Control'
  BY <1>1, <1>2, WriteControl DEF Inv, TypeOK
<1>4. /\ pc = w /\ cmd \in Commands /\ w \in Places(cmd)
      /\ out \in Held(cmd) /\ st.exp \in Subjects(cmd) /\ st.exp \in Experiments
      /\ \/ cmd' = "none" /\ pc' = "idle" /\ out' = "none"
         \/ cmd' = cmd /\ pc' \in Places(cmd) \ Computing /\ out' = out
  <2>1. cmd \in Commands /\ st.exp \in Subjects(cmd) => st.exp \in Experiments
    BY DEF Subjects
  <2> QED BY <1>2, <2>1, WriteMoves
<1>5. pc' \in {"idle"} \cup Writing /\ cmd' \in Commands \cup {"none"} /\ out' \in Outcomes
  BY <1>4 DEF Places, Inv, TypeOK, RunOK
<1>6. w \in {"audit", "terminal", "rejected"} => cmd = "audit" /\ Classification \in Classes
  <2>1. w \in {"audit", "terminal", "rejected"} => cmd = "audit"
    BY <1>4 DEF Places
  <2> QED BY <1>4, <2>1 DEF Classification, Failed, Held
<1>7. /\ w = "contract" => out \in {"pass", "failed"}
      /\ w = "inventory" => out \in Classes
      /\ w = "call" => cmd \in Calling
  <2>1. w = "contract" => cmd = "contract"
    BY <1>4 DEF Places
  <2>2. w = "inventory" => cmd = "audit"
    BY <1>4 DEF Places
  <2>3. w = "call" => cmd \in Calling
    BY <1>4 DEF Places
  <2>4. w = "inventory" => ~Failed
    BY <1>4, <2>2 DEF Inv, Control, Verdicts
  <2> QED BY <1>4, <2>1, <2>2, <2>3, <2>4 DEF Held, Failed
<1>8. FilesOK' /\ frozen \subseteq frozen'
  <2>0. FilesOK /\ out \in Outcomes
    BY DEF Inv, TypeOK, RunOK
  <2>1. CASE w = "prereg" /\ WritePreregistration
    BY <1>4, <2>0, <2>1 DEF WritePreregistration, FilesOK
  <2>2. CASE w = "call" /\ RecordCall
    <3>1. recorded' \in [Calling -> Nat]
      <4>1. cmd \in Calling
        BY <1>7, <2>2
      <4> HIDE DEF Classes, Experiments, Outcomes, Calling
      <4> QED BY <2>0, <2>2, <4>1 DEF RecordCall, FilesOK
    <3> HIDE DEF Classes, Experiments, Outcomes, Calling
    <3> QED BY <2>0, <2>2, <3>1 DEF RecordCall, FilesOK, evidence
  <2>3. CASE w = "note" /\ Note
    <3> HIDE DEF Classes, Experiments, Outcomes, Calling
    <3> QED BY <2>0, <2>3 DEF Note, FilesOK, files, evidence
  <2>4. CASE w = "report" /\ WriteReport
    <3> HIDE DEF Classes, Experiments, Outcomes, Calling
    <3> QED BY <1>4, <2>0, <2>4 DEF WriteReport, FilesOK
  <2>5. CASE w = "contract" /\ WriteContract
    <3> HIDE DEF Classes, Experiments, Outcomes, Calling
    <3> QED BY <1>7, <2>0, <2>5 DEF WriteContract, FilesOK
  <2>6. CASE w = "audit" /\ WriteAudit
    <3>1. Classification \in Classes
      BY <1>6, <2>6
    <3> HIDE DEF Classes, Experiments, Outcomes, Calling
    <3> QED BY <1>4, <2>0, <2>6, <3>1 DEF WriteAudit, FilesOK
  <2>7. CASE w = "terminal" /\ AppendTerminal
    <3>1. terminal' \in [Experiments -> Seq(Classes)]
      <4>1. Classification \in Classes
        BY <1>6, <2>7
      <4> HIDE DEF Classes, Experiments, Outcomes, Calling
      <4> QED BY <1>4, <2>0, <2>7, <4>1, RowType DEF AppendTerminal, FilesOK
    <3> HIDE DEF Classes, Experiments, Outcomes, Calling
    <3> QED BY <1>4, <2>0, <2>7, <3>1 DEF AppendTerminal, FilesOK
  <2>8. CASE w = "inventory" /\ WriteInventory
    <3>1. out \in Classes
      BY <1>7, <2>8
    <3> HIDE DEF Classes, Experiments, Outcomes, Calling
    <3> QED BY <2>0, <2>8, <3>1 DEF WriteInventory, FilesOK
  <2>9. CASE w = "rejected" /\ AppendRejected
    <3>1. rejected' \in [Experiments -> Seq(Classes)]
      <4>1. Classification \in Classes
        BY <1>6, <2>9
      <4> HIDE DEF Classes, Experiments, Outcomes, Calling
      <4> QED BY <1>4, <2>0, <2>9, <4>1, RowType DEF AppendRejected, FilesOK
    <3> HIDE DEF Classes, Experiments, Outcomes, Calling
    <3> QED BY <1>4, <2>0, <2>9, <3>1 DEF AppendRejected, FilesOK
  <2> QED BY <1>2, <2>1, <2>2, <2>3, <2>4, <2>5, <2>6, <2>7, <2>8, <2>9
<1>9. TypeOK'
  BY <1>1, <1>5, <1>8 DEF Inv, TypeOK, RunOK, PastOK, past
<1> QED BY <1>3, <1>9 DEF Inv

(* The two writes of the state file: the charge and the last one.          *)
LEMMA ChargeInv == ASSUME Inv, Charge PROVE Inv'
<1>1. Write("charge") /\ st' = [st EXCEPT !.used = @ + 1, !.left = @ - 1]
      /\ UNCHANGED <<evidence, recorded, committed, past>> /\ clean' = FALSE
  BY DEF Charge, Write
<1>2. /\ pc = "charge" /\ cmd \in Commands /\ "charge" \in Places(cmd)
      /\ \/ cmd' = "none" /\ pc' = "idle" /\ out' = "none"
         \/ cmd' = cmd /\ pc' \in Places(cmd) \ Computing /\ out' = out
  BY <1>1, WriteMoves
<1>3. st.left >= 1 /\ st \in StateType
  BY <1>2 DEF Inv, Control, Budgeted, TypeOK
<1>4. st' \in StateType /\ st'.exp = st.exp /\ st'.left = st.left - 1
  <2>1. st.used + 1 \in Nat /\ st.left - 1 \in Nat
    BY <1>3 DEF StateType
  <2> HIDE DEF Classes, Experiments
  <2> QED BY <1>1, <1>3, <2>1 DEF StateType
<1>5. Control'
  BY <1>1, <1>4, WriteControl
<1>6. RunOK'
  BY <1>2 DEF Inv, TypeOK, RunOK, Places
<1> QED BY <1>1, <1>4, <1>5, <1>6 DEF Inv, TypeOK, FilesOK, PastOK, evidence, past

(* The last one may change the experiment, but no command goes on after it  *)
(* except the freezing of the trend preregistration, which does not.        *)
LEMMA WriteStateInv == ASSUME Inv, WriteState PROVE Inv'
<1>1. Write("advance") /\ st' = Advanced
      /\ UNCHANGED <<evidence, recorded, committed, past>> /\ clean' = FALSE
  BY DEF WriteState, Write
<1>2. /\ pc = "advance" /\ pc' = After("advance")
      /\ cmd \in Commands /\ "advance" \in Places(cmd)
      /\ out \in Held(cmd) /\ st.exp \in Subjects(cmd)
      /\ \/ cmd' = "none" /\ pc' = "idle" /\ out' = "none"
         \/ cmd' = cmd /\ pc' \in Places(cmd) \ Computing /\ out' = out
  BY <1>1, WriteMoves
<1>3. st \in StateType
  BY DEF Inv, TypeOK
<1>4. st' \in StateType /\ (cmd = "freeze" => st'.exp = st.exp /\ st'.left = st.left)
  <2>1. CASE cmd # "audit"
    <3>1. cmd # "contract"
      BY <1>2 DEF Places
    <3>2. \E task \in Tasks, cycles \in {0, 1} : st' = [st EXCEPT !.task = task, !.cycles = cycles]
      <4>1. st.cycles \in {0, 1} /\ \A task \in Tasks :
               [st EXCEPT !.task = task] = [st EXCEPT !.task = task, !.cycles = st.cycles]
        BY <1>3 DEF StateType
      <4>2. CASE cmd = "develop"
        BY <1>1, <4>2 DEF Advanced, Tasks
      <4>3. CASE cmd # "develop"
        <5>1. \E task \in Tasks : st' = [st EXCEPT !.task = task]
          BY <1>1, <1>2, <2>1, <3>1, <4>3 DEF Advanced, Tasks
        <5> QED BY <4>1, <5>1
      <4> QED BY <4>2, <4>3
    <3> HIDE DEF Classes, Experiments
    <3> QED BY <1>3, <3>2 DEF StateType
  <2>2. CASE cmd = "audit"
    <3>1. st' = Concluded
      BY <1>1, <2>2 DEF Advanced
    <3>2. st.exp \in Audited
      BY <1>2, <2>2 DEF Subjects
    <3>3. Classification \in Classes
      BY <1>2, <2>2 DEF Classification, Failed, Held
    <3>4. Successor \in [exp : Experiments \cup {"momentum", "none"}, task : Tasks]
      BY <3>2 DEF Successor, Tasks
    <3>5. Successor.exp \in Experiments \cup {"momentum", "none"} /\ Successor.task \in Tasks
      BY <3>4
    <3>6. st.exp \in Experiments /\ st.used \in Nat /\ st.left \in Nat /\ st.cycles \in {0, 1}
      BY <1>3, <3>2 DEF StateType
    <3>7. PICK exp \in Experiments \cup {"momentum", "none"}, task \in Tasks,
               used \in Nat, left \in Nat, cycles \in {0, 1} :
            st' = [st EXCEPT !.exp = exp, !.task = task, !.last = st.exp, !.verdict = Classification,
                             !.used = used, !.left = left, !.cycles = cycles]
      <4> DEFINE Of(at, old) == IF st.exp = "archive" THEN at ELSE old
      <4>1. Of(3, st.used) \in Nat /\ Of(0, st.left) \in Nat /\ Of(0, st.cycles) \in {0, 1}
        BY <3>6
      <4>2. st' = [st EXCEPT !.exp = Successor.exp, !.task = Successor.task,
                             !.last = st.exp, !.verdict = Classification, !.used = Of(3, st.used),
                             !.left = Of(0, st.left), !.cycles = Of(0, st.cycles)]
        BY <3>1 DEF Concluded
      <4> HIDE DEF Of, Classes, Experiments
      <4> QED BY <3>5, <4>1, <4>2
    <3> HIDE DEF Classes, Experiments
    <3>8. [st EXCEPT !.exp = exp, !.task = task, !.last = st.exp, !.verdict = Classification,
                     !.used = used, !.left = left, !.cycles = cycles] \in StateType
      BY <1>3, <3>3, <3>6, SettledType, ZenonT(30)
    <3> QED BY <2>2, <3>7, <3>8
  <2> QED BY <2>1, <2>2
<1>5. Control'
  <2>1. CASE cmd = "freeze"
    BY <1>1, <1>4, <2>1, WriteControl
  <2>2. CASE cmd # "freeze"
    <3>1. pc' = "idle" /\ cmd' = "none"
      BY <1>1, <1>2, <2>2 DEF After, Write
    <3> QED BY <3>1 DEF Control
  <2> QED BY <2>1, <2>2
<1>6. RunOK'
  BY <1>2 DEF Inv, TypeOK, RunOK, Places
<1> QED BY <1>1, <1>4, <1>5, <1>6 DEF Inv, TypeOK, FilesOK, PastOK, evidence, past

(* What the operator does while no command runs.                           *)
LEMMA OperateInv == ASSUME Inv, Operate PROVE Inv'
<1>1. cmd' = cmd /\ pc' = pc /\ out' = out /\ pc = "idle" /\ cmd = "none"
  <2>1. UNCHANGED run /\ pc = "idle"
    BY DEF Operate, Commit, AllocateTrend, AllocateMeanReversion, AllocateLater, Allocate, HandOver,
           ConcludeByHand, AbandonAudit, ByHand
  <2>2. "idle" \notin UNION {Places(c) : c \in Commands}
    BY DEF Places
  <2> QED BY <2>1, <2>2 DEF run, Inv, Control
<1>2. Control' /\ RunOK'
  BY <1>1 DEF Control, Inv, TypeOK, RunOK
<1>3. CASE Commit
  BY <1>2, <1>3 DEF Commit, Inv, TypeOK, FilesOK, PastOK, files, evidence, past
<1>4. ASSUME NEW task \in Tasks, Allocate(task), frozen' \in {frozen, frozen \cup {st.exp}},
             st.exp \in Experiments
      PROVE  TypeOK'
  <2>1. st' \in StateType
    BY <1>4, ResearchAssumption DEF Allocate, Inv, TypeOK, StateType
  <2>2. FilesOK'
    BY <1>4 DEF Allocate, Inv, TypeOK, FilesOK, NoCalls
  <2> QED BY <1>2, <1>4, <2>1, <2>2 DEF Allocate, ByHand, Inv, TypeOK, PastOK, NoCalls
<1>5. CASE AllocateTrend
  BY <1>2, <1>4, <1>5 DEF AllocateTrend, Tasks, Inv
<1>6. CASE AllocateMeanReversion
  BY <1>2, <1>4, <1>6 DEF AllocateMeanReversion, Tasks, Inv
<1>7. CASE AllocateLater
  BY <1>2, <1>4, <1>7 DEF AllocateLater, Tasks, Inv
<1>8. CASE HandOver
  <2>1. st' \in StateType
    BY <1>8 DEF HandOver, Inv, TypeOK, StateType, Tasks
  <2>2. FilesOK' /\ frozen \subseteq frozen'
    <3>1. frozen' \in {frozen, frozen \cup {"meanrev"}} /\ UNCHANGED <<contract, report, audit,
             terminal, rejected, inventory, recorded>>
      BY <1>8 DEF HandOver
    <3> QED BY <3>1 DEF Inv, TypeOK, FilesOK
  <2> QED BY <1>2, <1>8, <2>1, <2>2 DEF HandOver, ByHand, Inv, TypeOK, PastOK
<1>9. CASE ConcludeByHand
  <2>1. FilesOK'
    <3>1. FilesOK /\ st.exp \in Experiments /\ "rejected" \in Classes
      BY <1>9 DEF ConcludeByHand, Inv, TypeOK
    <3> HIDE DEF Classes, Experiments
    <3>2. terminal' \in [Experiments -> Seq(Classes)] /\ rejected' \in [Experiments -> Seq(Classes)]
      BY <1>9, <3>1, RowType DEF ConcludeByHand, FilesOK
    <3>3. audit' \in [Experiments -> Classes \cup {"none"}]
      BY <1>9, <3>1 DEF ConcludeByHand, FilesOK
    <3> QED BY <1>9, <3>1, <3>2, <3>3 DEF ConcludeByHand, FilesOK
  <2>2. st' \in StateType
    <3>1. PICK next \in Queue \cup {"none"}, task \in {"exhausted", "allocate"} :
             st' = [st EXCEPT !.exp = next, !.task = task, !.last = st.exp, !.verdict = "rejected"]
      BY <1>9 DEF ConcludeByHand
    <3>2. next \in Experiments \cup {"momentum", "none"} /\ "rejected" \in Classes
          /\ task \in Tasks
      BY ResearchAssumption DEF Tasks
    <3>3. st.exp \in Experiments /\ st \in StateType
      BY <1>9 DEF ConcludeByHand, Inv, TypeOK
    <3> HIDE DEF Classes, Experiments
    <3>4. [st EXCEPT !.exp = next, !.task = task, !.last = st.exp, !.verdict = "rejected"]
             \in StateType
      BY <3>2, <3>3, EndedType
    <3> QED BY <3>1, <3>4
  <2> QED BY <1>2, <1>9, <2>1, <2>2 DEF ConcludeByHand, ByHand, Inv, TypeOK, PastOK
<1>10. CASE AbandonAudit
  <2>1. st.exp \in Experiments
    BY <1>10 DEF AbandonAudit
  <2>2. FilesOK'
    <3>1. /\ terminal \in [Experiments -> Seq(Classes)] /\ rejected \in [Experiments -> Seq(Classes)]
          /\ "inconclusive" \in Classes /\ "no_go" \in Classes /\ "trend" \in Experiments
          /\ audit \in [Experiments -> Classes \cup {"none"}]
      BY DEF Inv, TypeOK, FilesOK
    <3>2. /\ audit' = [audit EXCEPT ![st.exp] = "inconclusive"]
          /\ terminal' = [terminal EXCEPT ![st.exp] = Append(@, "inconclusive")]
          /\ \/ rejected' = rejected
             \/ rejected' = [rejected EXCEPT !["trend"] = Append(@, "no_go")]
      BY <1>10 DEF AbandonAudit
    <3>3. /\ audit' \in [Experiments -> Classes \cup {"none"}]
          /\ terminal' \in [Experiments -> Seq(Classes)] /\ rejected' \in [Experiments -> Seq(Classes)]
      <4> HIDE DEF Classes, Experiments
      <4>1. audit' \in [Experiments -> Classes \cup {"none"}]
        BY <2>1, <3>1, <3>2
      <4>2. terminal' \in [Experiments -> Seq(Classes)]
        BY <2>1, <3>1, <3>2, RowType
      <4>3. [rejected EXCEPT !["trend"] = Append(@, "no_go")] \in [Experiments -> Seq(Classes)]
        BY <3>1, RowType
      <4> QED BY <3>1, <3>2, <4>1, <4>2, <4>3
    <3> QED BY <1>10, <3>3 DEF AbandonAudit, Inv, TypeOK, FilesOK
  <2>3. st' \in StateType
    <3>1. PICK exp \in {"trend", "meanrev"}, task \in {"preregister", "allocate"} :
            st' = [st EXCEPT !.exp = exp, !.task = task, !.last = st.exp, !.verdict = "inconclusive"]
      BY <1>10 DEF AbandonAudit
    <3>2. st \in StateType /\ "inconclusive" \in Classes
          /\ exp \in Experiments \cup {"momentum", "none"} /\ task \in Tasks
      BY DEF Inv, TypeOK, Tasks
    <3> HIDE DEF Classes, Experiments
    <3>3. [st EXCEPT !.exp = exp, !.task = task, !.last = st.exp, !.verdict = "inconclusive"]
             \in StateType
      BY <2>1, <3>2, EndedType
    <3> QED BY <3>1, <3>3
  <2> QED BY <1>2, <1>10, <2>2, <2>3 DEF AbandonAudit, ByHand, Inv, TypeOK, PastOK
<1> QED BY <1>3, <1>2, <1>5, <1>6, <1>7, <1>8, <1>9, <1>10 DEF Operate, Inv

(* The invariant is inductive.                                             *)
LEMMA InitInv == Init => Inv
<1> SUFFICES ASSUME Init PROVE Inv
  OBVIOUS
<1>1. TypeOK
  BY DEF Init, TypeOK, StateType, FilesOK, RunOK, PastOK, NoCalls, Tasks
<1> QED BY <1>1 DEF Init, Inv, Control

(* Types and control are kept by every step.                               *)
LEMMA NextInv == Inv /\ [Next]_vars => Inv'
<1> SUFFICES ASSUME Inv, [Next]_vars PROVE Inv'
  OBVIOUS
<1>1. CASE \E c \in Commands : Begin(c)
  BY <1>1, BeginInv
<1>2. CASE Work
  BY <1>2, ComputeInv, ElsewhereInv, ChargeInv, WriteStateInv DEF Work, Elsewhere
<1>3. CASE Crash
  <2>1. UNCHANGED <<files, tree, issued, evals>> /\ crashes' = crashes + 1 /\ cmd' = "none"
        /\ pc' = "idle" /\ out' = "none"
    BY <1>3 DEF Crash
  <2>2. Control' /\ RunOK'
    BY <2>1 DEF Control, RunOK
  <2> HIDE DEF Classes, Experiments, Outcomes, Calling
  <2> QED BY <2>1, <2>2 DEF Inv, TypeOK, FilesOK, PastOK, files, evidence, tree
<1>4. CASE Operate
  BY <1>4, OperateInv
<1>5. CASE UNCHANGED vars
  <2>1. TypeOK'
    <3> HIDE DEF Classes, Experiments, Outcomes, Calling, Commands, Computing, Writing
    <3> QED BY <1>5 DEF vars, files, evidence, tree, run, past, Inv, TypeOK, FilesOK, RunOK, PastOK
  <2>2. Control'
    BY <1>5 DEF vars, files, run, Inv, Control, Budgeted, Verdicts, Charged, Failed
  <2> QED BY <2>1, <2>2 DEF Inv
<1> QED BY <1>1, <1>2, <1>3, <1>4, <1>5 DEF Next

(* Types are kept, and no call is charged to an empty budget.              *)
THEOREM TypeCorrect == Spec => []TypeOK
<1>1. Inv => TypeOK
  BY DEF Inv
<1> QED BY InitInv, NextInv, <1>1, PTL DEF Spec

-----------------------------------------------------------------------------
(* No result before its preregistration is committed.                       *)

\* What EvaluatedFrozen rests on: a clean tree has everything frozen committed,
\* and a command that is to report a result began with a clean tree.
FrozenInv ==
    /\ clean => committed = frozen
    /\ pc \in {"retrieve", "evaluate", "report"} => st.exp \in committed
    /\ EvaluatedFrozen

(* FrozenInv is inductive relative to Inv.                                  *)
LEMMA FrozenNext == Inv /\ FrozenInv /\ [Next]_vars => FrozenInv'
<1> SUFFICES ASSUME Inv, FrozenInv, [Next]_vars PROVE FrozenInv'
  OBVIOUS
<1> HIDE DEF Experiments, Classes, Outcomes, Commands, Calling, Computing, Writing
<1>1. ASSUME NEW c \in Commands, Begin(c) PROVE FrozenInv'
  <2>1. First(c) \in {"retrieve", "evaluate", "report"} => c \in {"enumerate", "develop"}
    BY <1>1 DEF First, Commands, Calling
  <2>2. c = "enumerate" => st.exp \in committed
    BY <1>1 DEF Begin, Can, CanEnumerate, FrozenInv
  <2>3. c = "develop" => st.exp \in committed
    BY <1>1 DEF Begin, Can, CanDevelop, FrozenInv
  <2> QED BY <1>1, <2>1, <2>2, <2>3 DEF Begin, FrozenInv, EvaluatedFrozen, files, evidence, tree
<1>2. CASE Invoke \/ Retrieve \/ Verify \/ Evaluate
  BY <1>2 DEF Invoke, Retrieve, Verify, Evaluate, FrozenInv, EvaluatedFrozen, files, evidence, tree
<1>3. ASSUME NEW w \in Writing, Write(w), w # "report", report' = report
      PROVE  FrozenInv'
  <2>1. pc' \notin {"retrieve", "evaluate", "report"}
    BY <1>3 DEF Write, After, Answered, Ending, Inconclusive, Noted, AuditRow, Writing
  <2> QED BY <1>3, <2>1 DEF Write, FrozenInv, EvaluatedFrozen
<1>4. CASE WriteReport
  <2>1. pc = "report" /\ pc' = "note" /\ clean' = FALSE /\ committed' = committed
    BY <1>4 DEF WriteReport, Write, After
  <2>2. report' = [report EXCEPT ![st.exp] = out] /\ st.exp \in committed
    BY <1>4, <2>1 DEF WriteReport, FrozenInv
  <2>3. report \in [Experiments -> Outcomes]
    BY DEF Inv, TypeOK, FilesOK
  <2> QED BY <2>1, <2>2, <2>3 DEF FrozenInv, EvaluatedFrozen
<1>5. CASE Crash \/ UNCHANGED vars
  BY <1>5 DEF Crash, FrozenInv, EvaluatedFrozen, vars, files, evidence, tree, run
<1>6. CASE Operate
  <2>1. pc' = "idle" /\ report' = report /\ committed' \in {committed, frozen}
        /\ (clean' => committed' = frozen')
    BY <1>6 DEF Operate, Commit, AllocateTrend, AllocateMeanReversion, AllocateLater, Allocate,
               HandOver, ConcludeByHand, AbandonAudit, ByHand, run, files, evidence
  <2>2. committed \subseteq frozen
    BY DEF Inv, TypeOK
  <2> QED BY <2>1, <2>2 DEF FrozenInv, EvaluatedFrozen
<1>7. CASE Elsewhere \/ Charge \/ WriteState
  <2>1. CASE WriteReport
    BY <2>1, <1>4
  <2>2. CASE ~WriteReport
    <3>1. PICK w \in Writing \ {"report"} : Write(w) /\ report' = report
      BY <1>7, <2>2 DEF Elsewhere, WritePreregistration, RecordCall, Note, WriteContract, WriteAudit,
         AppendTerminal, WriteInventory, AppendRejected, Charge, WriteState, Writing, evidence, files
    <3> QED BY <3>1, <1>3
  <2> QED BY <2>1, <2>2
<1> QED BY <1>1, <1>2, <1>5, <1>6, <1>7 DEF Next, Work, Elsewhere

(* No result is computed before its preregistration is committed.           *)
THEOREM CommittedFirst == Spec => []EvaluatedFrozen
<1>1. Init => FrozenInv
  BY DEF Init, FrozenInv, EvaluatedFrozen
<1>2. FrozenInv => EvaluatedFrozen
  BY DEF FrozenInv
<1> QED BY InitInv, NextInv, <1>1, FrozenNext, <1>2, PTL DEF Spec
-----------------------------------------------------------------------------
(* What is charged is recorded, what is recorded was issued.                *)

\* An experiment that holds a budget; the commands that can end or charge it
\* run only then.
Funded == st.exp \in {"trend", "meanrev"} /\ st.task \notin {"preregister", "allocate"}

\* What CallsAccounted rests on: the counts, with the call that is under way.
AccountInv ==
    /\ st.exp \in {"trend", "meanrev"} /\ cmd \in {"freeze", "review", "develop", "audit"} => Funded
    /\ Funded =>
        /\ st.used + st.left = Calls
        /\ st.used + (IF pc = "charge" THEN 1 ELSE 0) <= Paid(recorded)
        /\ Paid(recorded) + (IF pc = "call" THEN 1 ELSE 0) <= Paid(issued)
        /\ Paid(issued) <= st.used + crashes + (IF pc \in {"call", "charge"} THEN 1 ELSE 0)

(* The command that is at a model call of a funded experiment charges it.    *)
LEMMA FundedCalls ==
  ASSUME Inv, Funded, pc \in {"invoke", "call", "charge"}
  PROVE  cmd \in {"review", "audit"} /\ Charged
<1>1. cmd \in Commands /\ pc \in Places(cmd) /\ st.exp \in Subjects(cmd)
  BY DEF Inv, Control
<1>2. cmd # "cycle"
  BY <1>1 DEF Subjects, Funded
<1>3. cmd \in {"review", "audit"}
  BY <1>1, <1>2 DEF Places
<1> QED BY <1>3 DEF Funded, Charged

(* A write that changes neither budget nor count, with none of them left to  *)
(* happen before or after it, keeps AccountInv.                             *)
LEMMA AccountWrite ==
  ASSUME Inv, AccountInv, NEW w \in Writing \ {"call", "charge"}, Write(w),
         st' = st, recorded' = recorded
  PROVE  AccountInv'
<1>1. pc = w /\ pc' \notin {"call", "charge"} /\ (cmd' = cmd \/ cmd' = "none")
      /\ UNCHANGED past
  BY DEF Write, After, Answered, Ending, Inconclusive, Noted, AuditRow
<1> HIDE DEF Commands, Calling, Computing, Writing, Classes, Outcomes, Experiments
<1> QED BY <1>1 DEF AccountInv, Funded, Paid, past

(* AccountInv is inductive relative to Inv.                                 *)
LEMMA AccountNext == Inv /\ AccountInv /\ [Next]_vars => AccountInv'
<1> SUFFICES ASSUME Inv, AccountInv, [Next]_vars PROVE AccountInv'
  OBVIOUS
<1>0. /\ st.used \in Nat /\ st.left \in Nat /\ crashes \in Nat /\ Calls \in Nat
      /\ recorded \in [Calling -> Nat] /\ issued \in [Calling -> Nat]
      /\ st \in StateType
  BY ResearchAssumption DEF Inv, TypeOK, StateType, FilesOK, PastOK
<1>1. ASSUME NEW c \in Commands, Begin(c) PROVE AccountInv'
  <2>1. st.exp \in {"trend", "meanrev"} /\ c \in {"freeze", "review", "develop", "audit"} => Funded
    BY <1>1 DEF Begin, Can, CanFreeze, CanReview, CanDevelop, CanAudit, Funded
  <2>2. pc' = First(c) /\ cmd' = c /\ pc = "idle" /\ UNCHANGED <<st, recorded, issued, crashes>>
    BY <1>1 DEF Begin, files, past
  <2>3. First(c) \notin {"call", "charge"}
    BY DEF First
  <2> QED BY <2>1, <2>2, <2>3 DEF AccountInv, Funded, Paid
<1>2. CASE Invoke
  <2>1. pc = "invoke" /\ pc' = "call" /\ issued' = [issued EXCEPT ![cmd] = @ + 1]
        /\ UNCHANGED <<st, recorded, cmd, crashes>>
    BY <1>2 DEF Invoke, files
  <2>2. Funded => Paid(issued)' = Paid(issued) + 1
    BY <1>0, <2>1, FundedCalls DEF Paid
  <2>3. Paid(recorded) \in Nat /\ Paid(issued) \in Nat
    BY <1>0 DEF Paid
  <2>4. Paid(recorded)' = Paid(recorded)
    BY <2>1 DEF Paid
  <2> QED BY <1>0, <2>1, <2>2, <2>3, <2>4 DEF AccountInv, Funded
<1>3. CASE Retrieve \/ Verify \/ Evaluate
  BY <1>3 DEF Retrieve, Verify, Evaluate, AccountInv, Funded, Paid, files, past
<1>4. CASE RecordCall
  <2>1. pc = "call" /\ pc' = After("call") /\ recorded' = [recorded EXCEPT ![cmd] = @ + 1]
        /\ UNCHANGED <<st, issued, crashes>> /\ cmd' \in {cmd, "none"}
    BY <1>4 DEF RecordCall, Write, past
  <2>2. Funded => pc' = "charge" /\ Paid(recorded)' = Paid(recorded) + 1
    BY <1>0, <2>1, FundedCalls DEF Paid, After
  <2>3. Paid(recorded) \in Nat /\ Paid(issued) \in Nat
    BY <1>0 DEF Paid
  <2>4. Paid(issued)' = Paid(issued)
    BY <2>1 DEF Paid
  <2> QED BY <1>0, <2>1, <2>2, <2>3, <2>4 DEF AccountInv, Funded
<1>5. CASE Charge
  <2>1. pc = "charge" /\ pc' = After("charge") /\ st' = [st EXCEPT !.used = @ + 1, !.left = @ - 1]
        /\ UNCHANGED <<recorded, issued, crashes>> /\ cmd' \in {cmd, "none"}
    BY <1>5 DEF Charge, Write, past
  <2>2. pc' \notin {"call", "charge"}
    BY <2>1 DEF After, Answered, Ending, Inconclusive
  <2>3. st'.used = st.used + 1 /\ st'.left = st.left - 1 /\ st'.exp = st.exp /\ st'.task = st.task
    BY <1>0, <2>1 DEF StateType
  <2>4. Paid(recorded) \in Nat /\ Paid(issued) \in Nat
        /\ Paid(issued)' = Paid(issued) /\ Paid(recorded)' = Paid(recorded)
    BY <1>0, <2>1 DEF Paid
  <2> QED BY <1>0, <2>1, <2>2, <2>3, <2>4 DEF AccountInv, Funded
<1>6. CASE WriteState
  <2>1. pc = "advance" /\ pc' = After("advance") /\ st' = Advanced
        /\ UNCHANGED <<recorded, issued, crashes>> /\ cmd' \in {cmd, "none"}
    BY <1>6 DEF WriteState, Write, past
  <2>2. pc' \notin {"call", "charge"} /\ (pc' = "idle" => cmd' = "none")
    BY <1>6, <2>1 DEF After, WriteState, Write
  <2>3. cmd \in Commands /\ "advance" \in Places(cmd) /\ st.exp \in Subjects(cmd)
    BY <2>1 DEF Inv, Control
  <2>4. CASE cmd = "audit"
    <3>1. st' = Concluded /\ pc' = "idle"
      BY <2>1, <2>4 DEF Advanced, After
    <3>2. st'.exp = Successor.exp /\ st'.task = Successor.task
      BY <1>0, <3>1 DEF Concluded, StateType
    <3>3. ~Funded'
      BY <2>3, <2>4, <3>2 DEF Subjects, Successor, Funded
    <3> QED BY <2>2, <3>1, <3>3 DEF AccountInv
  <2>5. CASE cmd # "audit"
    <3>1. cmd # "contract"
      BY <2>3 DEF Places
    <3>2. st'.exp = st.exp /\ st'.used = st.used /\ st'.left = st.left
      BY <1>0, <2>1, <2>3, <2>5, <3>1 DEF Advanced, StateType
    <3>3. Funded' => Funded
      <4>1. cmd \in {"freeze", "review", "develop"} \/ st.exp = "archive"
        BY <2>3, <2>5, <3>1 DEF Subjects
      <4> QED BY <3>2, <4>1 DEF AccountInv, Funded
    <3>4. st'.exp \in {"trend", "meanrev"} => st'.task \notin {"preregister", "allocate"}
      <4>1. cmd \in {"freeze", "review", "develop"} \/ st.exp = "archive"
        BY <2>3, <2>5, <3>1 DEF Subjects
      <4> QED BY <1>0, <2>1, <3>2, <4>1 DEF Advanced, StateType
    <3>5. Paid(issued)' = Paid(issued) /\ Paid(recorded)' = Paid(recorded)
      BY <2>1 DEF Paid
    <3> QED BY <2>1, <2>2, <3>2, <3>3, <3>4, <3>5 DEF AccountInv, Funded
  <2> QED BY <2>4, <2>5
<1>7. CASE Elsewhere
  <2>1. CASE RecordCall
    BY <2>1, <1>4
  <2>2. CASE ~RecordCall
    <3>1. PICK w \in Writing \ {"call", "charge"} : Write(w) /\ st' = st /\ recorded' = recorded
      BY <1>7, <2>2 DEF Elsewhere, WritePreregistration, Note, WriteReport, WriteContract, WriteAudit,
         AppendTerminal, WriteInventory, AppendRejected, files
    <3> QED BY <3>1, AccountWrite
  <2> QED BY <2>1, <2>2
<1>8. CASE Crash
  <2>1. UNCHANGED <<st, recorded, issued>> /\ crashes' = crashes + 1 /\ cmd' = "none" /\ pc' = "idle"
    BY <1>8 DEF Crash, files
  <2>2. Paid(recorded) \in Nat /\ Paid(issued) \in Nat
        /\ Paid(issued)' = Paid(issued) /\ Paid(recorded)' = Paid(recorded)
    BY <1>0, <2>1 DEF Paid
  <2> QED BY <1>0, <2>1, <2>2 DEF AccountInv, Funded
<1>9. CASE UNCHANGED vars
  BY <1>9 DEF AccountInv, Funded, Paid, vars, files, run, past
<1>10. CASE Operate
  <2>1. cmd' = "none" /\ pc' = "idle" /\ pc = "idle" /\ crashes' = crashes
    <3>1. UNCHANGED run /\ pc = "idle" /\ crashes' = crashes
      BY <1>10 DEF Operate, Commit, AllocateTrend, AllocateMeanReversion, AllocateLater, Allocate,
         HandOver, ConcludeByHand, AbandonAudit, ByHand, past
    <3>2. "idle" \notin UNION {Places(c) : c \in Commands}
      BY DEF Places
    <3> QED BY <3>1, <3>2 DEF run, Inv, Control
  <2>2. CASE Commit
    BY <2>1, <2>2 DEF Commit, AccountInv, Funded, Paid, files, past
  <2>3. ASSUME NEW task \in Tasks, Allocate(task) PROVE AccountInv'
    <3>1. st'.used = 0 /\ st'.left = Calls
      BY <1>0, <2>3 DEF Allocate, StateType
    <3>2. Paid(issued)' = 0 /\ Paid(recorded)' = 0
      BY <2>3 DEF Allocate, NoCalls, Paid
    <3> QED BY <1>0, <2>1, <3>1, <3>2 DEF AccountInv
  <2>4. CASE AllocateTrend \/ AllocateMeanReversion \/ AllocateLater
    BY <2>3, <2>4 DEF AllocateTrend, AllocateMeanReversion, AllocateLater, Tasks
  <2>5. CASE HandOver
    <3>1. st'.exp = st.exp /\ st'.used = st.used /\ st'.left = st.left
          /\ UNCHANGED <<recorded, issued>> /\ (Funded' => Funded)
      BY <1>0, <2>5 DEF HandOver, StateType, Funded
    <3> QED BY <2>1, <3>1 DEF AccountInv, Paid
  <2>6. CASE ConcludeByHand
    <3>1. st'.exp \in Queue \cup {"none"}
      BY <1>0, <2>6 DEF ConcludeByHand, StateType
    <3>2. st'.exp \notin {"trend", "meanrev"}
      BY <3>1, ResearchAssumption
    <3> QED BY <2>1, <3>2 DEF AccountInv, Funded
  <2>7. CASE AbandonAudit
    <3>1. ~Funded'
      BY <1>0, <2>7 DEF AbandonAudit, StateType, Funded
    <3> QED BY <2>1, <3>1 DEF AccountInv
  <2> QED BY <1>10, <2>2, <2>4, <2>5, <2>6, <2>7 DEF Operate
<1> QED BY <1>1, <1>2, <1>3, <1>5, <1>6, <1>7, <1>8, <1>9, <1>10 DEF Next, Work, Elsewhere

(* A budget is charged for recorded calls only, and only a crash leaves a    *)
(* call uncharged.                                                          *)
THEOREM CallsAccountedFor == Spec => []CallsAccounted
<1>1. Init => AccountInv
  BY DEF Init, AccountInv, Funded
<1>2. Inv /\ AccountInv => CallsAccounted
  <2> SUFFICES ASSUME Inv, AccountInv, Funded
               PROVE  /\ st.used + st.left = Calls
                      /\ st.used <= Paid(recorded) /\ Paid(recorded) <= Paid(issued)
                      /\ Paid(issued) <= st.used + crashes + (IF pc \in {"call", "charge"} THEN 1 ELSE 0)
    BY DEF CallsAccounted, Funded
  <2>1. Paid(recorded) \in Nat /\ Paid(issued) \in Nat /\ st.used \in Nat
    <3>1. recorded \in [Calling -> Nat] /\ issued \in [Calling -> Nat] /\ st \in StateType
      BY DEF Inv, TypeOK, FilesOK, PastOK
    <3> QED BY <3>1 DEF Paid, StateType
  <2> QED BY <2>1 DEF AccountInv
<1> QED BY InitInv, NextInv, <1>1, AccountNext, <1>2, PTL DEF Spec
(* Only an audit that ends moves on to another experiment.                  *)
LEMMA AdvanceMoves ==
  ASSUME Inv, WriteState
  PROVE  /\ cmd = "audit" => st' = Concluded /\ st'.exp = Successor.exp
                            /\ st'.last = st.exp /\ st'.verdict = Classification
         /\ cmd # "audit" => st'.exp = st.exp /\ st'.last = st.last /\ st'.verdict = st.verdict
<1>1. pc = "advance" /\ cmd \in Commands /\ cmd # "contract" /\ st' = Advanced /\ st \in StateType
  BY DEF WriteState, Write, Inv, Control, Places, TypeOK
<1>2. CASE cmd = "audit"
  BY <1>1, <1>2 DEF Advanced, Concluded, StateType
<1>3. CASE cmd # "audit"
  BY <1>1, <1>3 DEF Advanced, StateType
<1> QED BY <1>2, <1>3

-----------------------------------------------------------------------------
(* A one-shot experiment is evaluated again only after a crash.             *)

\* What SoleEvaluation rests on: as long as the saved task is to evaluate, every
\* evaluation but the one under way died before the state moved on.
SoleInv ==
    st.exp \in OneShot =>
        /\ pc # "idle" => st.task = "develop"
        /\ st.task # "allocate" => evals <= crashes + 1
        /\ st.task = "develop" /\ pc \notin {"report", "note", "advance"} => evals <= crashes

(* Of a one-shot experiment there is only its evaluation.                   *)
LEMMA OneShotDevelops ==
  ASSUME Inv, st.exp \in OneShot, pc # "idle"
  PROVE  cmd = "develop"
<1>1. cmd \in Commands /\ st.exp \in Subjects(cmd)
  BY DEF Inv, Control
<1> QED BY <1>1 DEF Subjects

(* SoleInv is kept by every step.                                          *)
LEMMA SoleNext == Inv /\ SoleInv /\ [Next]_vars => SoleInv'
<1> SUFFICES ASSUME Inv, SoleInv, [Next]_vars PROVE SoleInv'
  OBVIOUS
<1>0. st \in StateType /\ evals \in Nat /\ crashes \in Nat
  BY DEF Inv, TypeOK, PastOK
<1>1. ASSUME NEW c \in Commands, Begin(c) PROVE SoleInv'
  <2>1. pc = "idle" /\ UNCHANGED <<st, evals, crashes>>
    BY <1>1 DEF Begin, files, past
  <2>2. First(c) \notin {"report", "note", "advance"}
    BY DEF First
  <2>3. pc' = First(c) /\ (st.exp \in OneShot => st.task = "develop")
    <3>1. st.exp \in OneShot => c = "develop"
      BY <1>1 DEF Begin, Can, CanFreeze, CanCycle, CanEnumerate, CanVerify, CanReview, CanAudit
    <3> QED BY <1>1, <3>1 DEF Begin, Can, CanDevelop
  <2> QED BY <1>0, <2>1, <2>2, <2>3 DEF SoleInv
<1>2. CASE Invoke \/ Retrieve \/ Verify
  <2>1. pc \in {"invoke", "retrieve", "verify"} /\ st' = st
    BY <1>2 DEF Invoke, Retrieve, Verify, files
  <2>2. st.exp \notin OneShot
    <3>1. pc \notin Places("develop")
      BY <2>1 DEF Places
    <3>2. pc # "idle" /\ pc \in Places(cmd)
      BY <2>1 DEF Inv, Control
    <3> QED BY <3>1, <3>2, OneShotDevelops
  <2> QED BY <2>1, <2>2 DEF SoleInv
<1>3. CASE Evaluate
  BY <1>0, <1>3 DEF Evaluate, SoleInv, files
<1>4. ASSUME NEW w \in Writing \ {"advance"}, Write(w), st' = st PROVE SoleInv'
  <2>1. pc = w /\ pc' = After(w) /\ UNCHANGED <<evals, crashes>>
    BY <1>4 DEF Write, past
  <2>2. CASE st.exp \in OneShot
    <3>1. cmd = "develop" /\ w \in {"report", "note"}
      BY <2>1, <2>2, OneShotDevelops DEF Inv, Control, Places
    <3>2. pc' \in {"note", "advance"}
      BY <2>1, <2>2, <3>1 DEF After, Noted
    <3> QED BY <1>0, <1>4, <2>1, <3>1, <3>2 DEF SoleInv
  <2> QED BY <1>4, <2>2 DEF SoleInv
<1>5. CASE Charge
  <2>1. st'.exp = st.exp /\ pc = "charge"
    BY <1>0, <1>5 DEF Charge, Write, StateType
  <2>2. st.exp \notin OneShot
    BY <2>1, OneShotDevelops DEF Inv, Control, Places
  <2> QED BY <2>1, <2>2 DEF SoleInv
<1>6. CASE WriteState
  <2>1. pc = "advance" /\ cmd \in Commands /\ st' = Advanced /\ UNCHANGED <<evals, crashes>>
    BY <1>6 DEF WriteState, Write, Inv, Control, past
  <2>2. CASE st.exp \in OneShot
    <3>1. cmd = "develop"
      BY <2>1, <2>2, OneShotDevelops
    <3>2. st'.exp = st.exp /\ st'.task \in {"holdout", "audit"} /\ st.task = "develop"
      BY <1>0, <2>1, <2>2, <3>1 DEF Advanced, StateType, SoleInv
    <3>3. pc' = "idle"
      BY <1>6, <3>1 DEF WriteState, Write, After
    <3> QED BY <1>0, <2>1, <2>2, <3>2, <3>3 DEF SoleInv
  <2>3. CASE st.exp \notin OneShot
    <3>1. Successor.exp \notin OneShot
      BY DEF Successor
    <3> QED BY <1>6, <2>3, <3>1, AdvanceMoves DEF SoleInv
  <2> QED BY <2>2, <2>3
<1>7. CASE Crash
  BY <1>0, <1>7 DEF Crash, SoleInv, files
<1>8. CASE Operate
  <2>1. CASE Commit
    BY <2>1 DEF Commit, SoleInv, files, run, past
  <2>2. CASE AllocateTrend \/ AllocateMeanReversion \/ AllocateLater
    <3>1. evals' = 0 /\ pc' = "idle" /\ crashes' = crashes
      BY <2>2 DEF AllocateTrend, AllocateMeanReversion, AllocateLater, Allocate, ByHand, run
    <3> QED BY <1>0, <3>1 DEF SoleInv
  <2>3. CASE HandOver \/ AbandonAudit
    <3>1. st'.exp \notin OneShot
      BY <1>0, <2>3 DEF HandOver, AbandonAudit, StateType
    <3> QED BY <3>1 DEF SoleInv
  <2>4. CASE ConcludeByHand
    <3>1. pc' = "idle" /\ (st'.task = "allocate" \/ st'.exp = "none")
      BY <1>0, <2>4 DEF ConcludeByHand, ByHand, run, StateType
    <3> QED BY <3>1 DEF SoleInv
  <2> QED BY <1>8, <2>1, <2>2, <2>3, <2>4 DEF Operate
<1>9. CASE UNCHANGED vars
  BY <1>9 DEF vars, SoleInv, files, run, past
<1>10. CASE Elsewhere
  <2>1. PICK w \in Writing \ {"advance"} : Write(w) /\ st' = st
    BY <1>10 DEF Elsewhere, WritePreregistration, RecordCall, Note, WriteReport, WriteContract,
       WriteAudit, AppendTerminal, WriteInventory, AppendRejected, evidence, files
  <2> QED BY <2>1, <1>4
<1> QED BY <1>1, <1>2, <1>3, <1>5, <1>6, <1>7, <1>8, <1>9, <1>10 DEF Next, Work, Elsewhere

(* A one-shot experiment is evaluated once, and once more for each crash at  *)
(* most.                                                                    *)
THEOREM EvaluatedOnce == Spec => []SoleEvaluation
<1>1. Init => SoleInv
  BY DEF Init, SoleInv
<1>2. Inv /\ SoleInv => SoleEvaluation
  BY DEF Inv, TypeOK, PastOK, SoleInv, SoleEvaluation
<1> QED BY InitInv, NextInv, <1>1, SoleNext, <1>2, PTL DEF Spec
-----------------------------------------------------------------------------
(* An experiment is concluded again only after a crash.                     *)

RowWritten == cmd = "audit" /\ pc \in {"inventory", "rejected", "advance"}

\* The experiments the fixed order has not reached.
Ahead == CASE st.exp = "archive" -> {"trend", "meanrev", "relval"}
           [] st.exp = "trend" -> {"meanrev", "relval"}
           [] st.exp = "meanrev" -> {"relval"}
           [] OTHER -> {}

\* What ConcludedOnce rests on: the rows of the current experiment, but for the
\* one under way, come from commands that died; what comes later has none.
OnceInv ==
    /\ ConcludedOnce
    /\ st.exp \in Experiments /\ ~RowWritten => Len(terminal[st.exp]) <= crashes
    /\ \A e \in Ahead : terminal[e] = << >>

(* OnceInv is kept by every step.                                          *)
LEMMA OnceNext == Inv /\ OnceInv /\ [Next]_vars => OnceInv'
<1> SUFFICES ASSUME Inv, OnceInv, [Next]_vars PROVE OnceInv'
  OBVIOUS
<1>0. /\ st \in StateType /\ crashes \in Nat /\ terminal \in [Experiments -> Seq(Classes)]
      /\ \A e \in Experiments : Len(terminal[e]) \in Nat
      /\ Ahead \subseteq Experiments
  <2>1. st \in StateType /\ crashes \in Nat /\ terminal \in [Experiments -> Seq(Classes)]
    BY DEF Inv, TypeOK, PastOK, FilesOK
  <2>2. Ahead \subseteq Experiments
    BY DEF Ahead
  <2> HIDE DEF Experiments, Classes
  <2> QED BY <2>1, <2>2
<1>1. ASSUME UNCHANGED <<st, terminal>>, crashes' \in {crashes, crashes + 1},
             ~RowWritten \/ RowWritten' \/ crashes' = crashes + 1
      PROVE  OnceInv'
  <2>1. Ahead' = Ahead
    BY <1>1 DEF Ahead
  <2> QED BY <1>0, <1>1, <2>1 DEF OnceInv, ConcludedOnce
<1>2. ASSUME NEW c \in Commands, Begin(c) PROVE OnceInv'
  BY <1>1, <1>2 DEF Begin, RowWritten, files, evidence, past
<1>3. CASE Invoke \/ Retrieve \/ Verify \/ Evaluate
  BY <1>1, <1>3 DEF Invoke, Retrieve, Verify, Evaluate, RowWritten, files, evidence, past
<1>4. ASSUME NEW w \in Writing \ {"advance"}, Write(w), UNCHANGED <<st, terminal>>
      PROVE  OnceInv'
  <2>1. RowWritten => RowWritten'
    BY <1>4 DEF RowWritten, Write, After
  <2> QED BY <1>1, <1>4, <2>1 DEF Write, past
<1>5. CASE AppendTerminal
  <2>1. /\ cmd = "audit" /\ pc = "terminal" /\ st.exp \in Experiments /\ Classification \in Classes
        /\ pc' \in {"inventory", "rejected"} /\ cmd' = cmd /\ UNCHANGED <<st, crashes>>
    <3>1. pc = "terminal" /\ cmd = "audit" /\ st.exp \in Experiments /\ out \in Held(cmd)
      BY <1>5 DEF AppendTerminal, Write, Inv, Control, Places, Subjects
    <3>2. After("terminal") \in {"inventory", "rejected"}
      BY DEF After, AuditRow
    <3> QED BY <1>5, <3>1, <3>2 DEF AppendTerminal, Write, past, Held, Classification, Failed
  <2>2. terminal' = [terminal EXCEPT ![st.exp] = Append(@, Classification)]
    BY <1>5 DEF AppendTerminal
  <2>3. Len(terminal'[st.exp]) = Len(terminal[st.exp]) + 1 /\ Len(terminal[st.exp]) <= crashes
    BY <1>0, <2>1, <2>2 DEF OnceInv, RowWritten
  <2>4. \A e \in Experiments \ {st.exp} : terminal'[e] = terminal[e]
    BY <1>0, <2>2
  <2>5. Ahead' = Ahead /\ st.exp \notin Ahead
    BY <2>1 DEF Ahead
  <2> HIDE DEF Experiments, Classes
  <2>6. ConcludedOnce'
    BY <1>0, <2>1, <2>3, <2>4 DEF OnceInv, ConcludedOnce
  <2> QED BY <1>0, <2>1, <2>4, <2>5, <2>6 DEF OnceInv, RowWritten
<1>6. CASE Charge
  <2>1. st'.exp = st.exp /\ pc = "charge" /\ UNCHANGED <<terminal, crashes>>
    BY <1>0, <1>6 DEF Charge, Write, StateType, evidence, past
  <2>2. Ahead' = Ahead
    BY <2>1 DEF Ahead
  <2> QED BY <2>1, <2>2 DEF OnceInv, ConcludedOnce, RowWritten
<1>7. CASE WriteState
  <2>1. pc = "advance" /\ UNCHANGED <<terminal, crashes>>
    BY <1>7 DEF WriteState, Write, evidence, past
  <2>2. CASE cmd # "audit"
    <3>1. st'.exp = st.exp
      BY <1>7, <2>2, AdvanceMoves
    <3>2. Ahead' = Ahead
      BY <3>1 DEF Ahead
    <3> QED BY <2>1, <2>2, <3>1, <3>2 DEF OnceInv, ConcludedOnce, RowWritten
  <2>3. CASE cmd = "audit"
    <3>1. st.exp \in Audited /\ st'.exp = Successor.exp
      BY <1>7, <2>3, AdvanceMoves DEF Inv, Control, Subjects
    <3>2. st'.exp \in Ahead \cup {"momentum"} /\ Ahead' \subseteq Ahead
      BY <3>1 DEF Successor, Ahead
    <3>3. st'.exp \in Experiments => terminal[st'.exp] = << >>
      BY <3>2 DEF OnceInv
    <3> QED BY <1>0, <2>1, <3>2, <3>3 DEF OnceInv, ConcludedOnce
  <2> QED BY <2>2, <2>3
<1>8. CASE Crash
  BY <1>1, <1>8 DEF Crash, files, evidence
<1>9. CASE Operate
  <2>1. pc = "idle" /\ pc' = "idle" /\ crashes' = crashes
    BY <1>9 DEF Operate, Commit, AllocateTrend, AllocateMeanReversion, AllocateLater, Allocate,
             HandOver, ConcludeByHand, AbandonAudit, ByHand, run, past
  <2>2. CASE Commit
    BY <1>1, <2>1, <2>2 DEF Commit, RowWritten, files, evidence
  <2>3. CASE AllocateTrend \/ AllocateMeanReversion \/ AllocateLater \/ HandOver
    <3>1. st'.exp = st.exp /\ terminal' = terminal
      BY <1>0, <2>3 DEF AllocateTrend, AllocateMeanReversion, AllocateLater, Allocate, HandOver,
               StateType
    <3>2. Ahead' = Ahead
      BY <3>1 DEF Ahead
    <3> QED BY <2>1, <3>1, <3>2 DEF OnceInv, ConcludedOnce, RowWritten
  <2>4. ASSUME NEW class \in Classes, st.exp \in Experiments,
               terminal' = [terminal EXCEPT ![st.exp] = Append(@, class)],
               st'.exp \in Experiments => terminal'[st'.exp] = << >>,
               Ahead' \subseteq Ahead
        PROVE  OnceInv'
    <3>1. Len(terminal'[st.exp]) = Len(terminal[st.exp]) + 1 /\ Len(terminal[st.exp]) <= crashes
      BY <1>0, <2>1, <2>4 DEF OnceInv, RowWritten
    <3>2. \A e \in Experiments \ {st.exp} : terminal'[e] = terminal[e]
      BY <1>0, <2>4
    <3>3. st.exp \notin Ahead
      BY <2>4 DEF Ahead
    <3> HIDE DEF Experiments, Classes
    <3>4. ConcludedOnce'
      BY <1>0, <2>1, <3>1, <3>2 DEF OnceInv, ConcludedOnce
    <3>5. \A e \in Ahead' : terminal'[e] = << >>
      BY <1>0, <2>4, <3>2, <3>3 DEF OnceInv
    <3>6. st'.exp \in Experiments => Len(terminal'[st'.exp]) = 0
      BY <2>4
    <3> QED BY <1>0, <2>1, <3>4, <3>5, <3>6 DEF OnceInv
  <2>5. CASE ConcludeByHand
    <3>1. /\ st.exp \in Experiments
          /\ terminal' = [terminal EXCEPT ![st.exp] = Append(@, "rejected")]
      BY <2>5 DEF ConcludeByHand
    <3>2. PICK next \in {e \in Queue : terminal'[e] = << >>} \cup {"none"} :
             st' = [st EXCEPT !.exp = next, !.task = IF next = "none" THEN "exhausted" ELSE "allocate",
                              !.last = st.exp, !.verdict = "rejected"]
      BY <2>5 DEF ConcludeByHand
    <3>3. st'.exp = next
      BY <1>0, <3>2 DEF StateType
    <3>4. next \in {"calendar", "none"} \cup OneShot /\ (next # "none" => terminal'[next] = << >>)
      BY <3>2, ResearchAssumption
    <3>5. Ahead' = {} /\ (st'.exp \in Experiments => terminal'[st'.exp] = << >>)
      BY <3>3, <3>4 DEF Ahead
    <3> QED BY <3>1, <3>5, <2>4
  <2>6. CASE AbandonAudit
    <3>1. /\ terminal' = [terminal EXCEPT ![st.exp] = Append(@, "inconclusive")]
          /\ \/ st.exp = "archive" /\ st'.exp = "trend"
             \/ st.exp = "trend" /\ st'.exp = "meanrev"
      BY <1>0, <2>6 DEF AbandonAudit, StateType
    <3>2. st'.exp \in Ahead /\ Ahead' \subseteq Ahead
      BY <3>1 DEF Ahead
    <3>3. terminal'[st'.exp] = << >>
      BY <1>0, <3>1, <3>2 DEF OnceInv
    <3> QED BY <3>1, <3>2, <3>3, <2>4
  <2> QED BY <1>9, <2>2, <2>3, <2>5, <2>6 DEF Operate
<1>10. CASE UNCHANGED vars
  BY <1>1, <1>10 DEF vars, files, evidence, run, past, RowWritten
<1>11. CASE Elsewhere
  <2>1. CASE AppendTerminal
    BY <2>1, <1>5
  <2>2. CASE ~AppendTerminal
    <3>1. PICK w \in Writing \ {"advance"} : Write(w) /\ UNCHANGED <<st, terminal>>
      BY <1>11, <2>2 DEF Elsewhere, WritePreregistration, RecordCall, Note, WriteReport,
         WriteContract, WriteAudit, WriteInventory, AppendRejected, evidence, files
    <3> QED BY <3>1, <1>4
  <2> QED BY <2>1, <2>2
<1> QED BY <1>2, <1>3, <1>6, <1>7, <1>8, <1>9, <1>10, <1>11 DEF Next, Work, Elsewhere

(* Every conclusion of an experiment but one was cut short by a crash.      *)
THEOREM ConcludedOnceEach == Spec => []ConcludedOnce
<1>1. Init => OnceInv
  BY DEF Init, OnceInv, ConcludedOnce, Ahead
<1>2. OnceInv => ConcludedOnce
  BY DEF OnceInv
<1> QED BY InitInv, NextInv, <1>1, OnceNext, <1>2, PTL DEF Spec
-----------------------------------------------------------------------------
(* The state file never runs ahead of the evidence.                         *)

\* What StateBacked rests on: the experiment an audit works on is not the one
\* the state file calls finished, and what the audit has written so far says
\* what it is about to put there.
BackedInv ==
    /\ StateBacked
    /\ st.last = "none" \/ st.last # st.exp
    /\ cmd = "audit" =>
        /\ pc \in {"terminal", "inventory", "rejected", "advance"} => audit[st.exp] = Classification
        /\ pc \in {"inventory", "rejected", "advance"} => Latest(terminal[st.exp]) = Classification
        /\ pc \in {"rejected", "advance"} /\ st.exp = "archive" => inventory = Classification
        /\ pc = "advance" /\ Classification \in {"no_go", "rejected"}
             => Latest(rejected[st.exp]) = Classification

(* A row just appended is the latest.                                      *)
LEMMA LatestRow ==
  ASSUME NEW rows \in Seq(Classes), NEW class \in Classes
  PROVE  Latest(Append(rows, class)) = class
<1> HIDE DEF Classes
<1>1. Len(Append(rows, class)) = Len(rows) + 1 /\ Append(rows, class)[Len(rows) + 1] = class
      /\ Len(rows) \in Nat
  OBVIOUS
<1>2. Append(rows, class) # << >>
  BY <1>1
<1> QED BY <1>1, <1>2 DEF Latest

(* What is written about the current experiment does not touch the finished *)
(* one.                                                                     *)
LEMMA FinishedStays ==
  ASSUME Inv, BackedInv, st'.last = st.last, st'.verdict = st.verdict,
         \A e \in Experiments \ {st.exp} :
            audit'[e] = audit[e] /\ terminal'[e] = terminal[e] /\ rejected'[e] = rejected[e],
         inventory' = inventory \/ st.exp = "archive"
  PROVE  StateBacked'
<1>1. st.last \in Experiments \cup {"none"}
  BY DEF Inv, TypeOK, StateType
<1> HIDE DEF Experiments
<1> QED BY <1>1 DEF BackedInv, StateBacked

(* The places of an audit that has started to write, and what leads there.  *)
LEMMA AuditWrites ==
  ASSUME Inv, NEW w \in Writing, Write(w)
  PROVE  /\ w \in {"audit", "terminal", "inventory", "rejected"} =>
              /\ cmd = "audit" /\ cmd' = cmd /\ out' = out /\ st.exp \in Audited
              /\ Classification \in Classes
              /\ pc' = IF w = "audit" THEN "terminal"
                       ELSE IF w = "terminal" THEN IF st.exp = "archive" THEN "inventory" ELSE "rejected"
                       ELSE IF w = "inventory" /\ out = "no_go" THEN "rejected" ELSE "advance"
              /\ st.exp = "archive" => Classification = out /\ out \in {"go", "no_go"}
         /\ w = "inventory" => st.exp = "archive"
         /\ cmd = "audit" /\ w \notin {"audit", "terminal", "inventory", "rejected"} =>
              pc' \notin {"terminal", "inventory", "rejected", "advance"}
<1>1. pc = w /\ cmd \in Commands /\ w \in Places(cmd) /\ out \in Held(cmd) /\ st.exp \in Subjects(cmd)
  BY WriteMoves
<1>2. pc' = After(w)
  BY DEF Write
<1>3. CASE w \in {"audit", "terminal", "inventory", "rejected"}
  <2>1. cmd = "audit"
    BY <1>1, <1>3 DEF Places
  <2>2. out \in {"failed", "invalid", "go", "no_go", "rejected"} /\ st.exp \in Audited
    BY <1>1, <2>1 DEF Held, Subjects
  <2>3. st.exp = "archive" => out \in {"go", "no_go"}
    BY <1>1, <1>3, <2>1, <2>2 DEF Inv, Control, Verdicts, Failed
  <2>4. Classification \in Classes /\ (st.exp = "archive" => Classification = out)
    BY <2>2, <2>3 DEF Classification, Failed
  <2>5. After(w) = IF w = "audit" THEN "terminal"
                   ELSE IF w = "terminal" THEN IF st.exp = "archive" THEN "inventory" ELSE "rejected"
                   ELSE IF w = "inventory" /\ out = "no_go" THEN "rejected" ELSE "advance"
    BY <1>3 DEF After, AuditRow
  <2>6. cmd' = cmd /\ out' = out /\ (w = "inventory" => st.exp = "archive")
    BY <1>1, <1>3, <2>1, <2>5 DEF Write, Inv, Control, Verdicts
  <2> QED BY <1>2, <1>3, <2>1, <2>2, <2>3, <2>4, <2>5, <2>6
<1>4. CASE w \notin {"audit", "terminal", "inventory", "rejected"}
  <2> SUFFICES ASSUME cmd = "audit"
               PROVE  After(w) \notin {"terminal", "inventory", "rejected", "advance"}
    BY <1>2, <1>4
  <2>1. w \in {"call", "charge", "note", "advance"}
    BY <1>1, <1>4 DEF Places
  <2> QED BY <2>1 DEF After, Answered, Ending, Inconclusive, Noted
<1> QED BY <1>3, <1>4

(* BackedInv is kept by every step.                                        *)
LEMMA BackedNext == Inv /\ BackedInv /\ [Next]_vars => BackedInv'
<1> SUFFICES ASSUME Inv, BackedInv, [Next]_vars PROVE BackedInv'
  OBVIOUS
<1>0. /\ st \in StateType /\ audit \in [Experiments -> Classes \cup {"none"}]
      /\ terminal \in [Experiments -> Seq(Classes)] /\ rejected \in [Experiments -> Seq(Classes)]
  BY DEF Inv, TypeOK, FilesOK
<1>1. ASSUME st'.exp = st.exp, st'.last = st.last, st'.verdict = st.verdict,
             UNCHANGED <<audit, terminal, rejected, inventory>>,
             cmd' # "audit" \/ pc' \notin {"terminal", "inventory", "rejected", "advance"}
      PROVE  BackedInv'
  BY <1>1, FinishedStays DEF BackedInv
<1>2. ASSUME NEW c \in Commands, Begin(c) PROVE BackedInv'
  BY <1>1, <1>2 DEF Begin, First, files, evidence
<1>3. CASE Invoke \/ Retrieve \/ Verify \/ Evaluate
  BY <1>1, <1>3 DEF Invoke, Retrieve, Verify, Evaluate, files, evidence
<1>4. ASSUME NEW w \in Writing \ {"audit", "terminal", "inventory", "rejected"}, Write(w),
             st'.exp = st.exp, st'.last = st.last, st'.verdict = st.verdict,
             UNCHANGED <<audit, terminal, rejected, inventory>>
      PROVE  BackedInv'
  <2>1. cmd' = "audit" => cmd = "audit"
    BY <1>4 DEF Write
  <2> QED BY <1>1, <1>4, <2>1, AuditWrites
<1>5. CASE WriteAudit
  <2>1. Write("audit") /\ audit' = [audit EXCEPT ![st.exp] = Classification]
        /\ UNCHANGED <<st, terminal, rejected, inventory>>
    BY <1>5 DEF WriteAudit
  <2>2. pc' = "terminal" /\ st.exp \in Experiments /\ Classification' = Classification
    BY <2>1, AuditWrites DEF Classification, Failed
  <2>3. audit'[st.exp] = Classification /\ \A e \in Experiments \ {st.exp} : audit'[e] = audit[e]
    BY <1>0, <2>1, <2>2
  <2> QED BY <2>1, <2>2, <2>3, FinishedStays DEF BackedInv
<1>6. CASE AppendTerminal
  <2>1. Write("terminal") /\ terminal' = [terminal EXCEPT ![st.exp] = Append(@, Classification)]
        /\ UNCHANGED <<st, audit, rejected, inventory>> /\ pc = "terminal"
    BY <1>6 DEF AppendTerminal, Write
  <2>2. /\ pc' \in {"inventory", "rejected"} /\ (st.exp = "archive" => pc' = "inventory")
        /\ st.exp \in Experiments /\ Classification \in Classes /\ cmd = "audit"
        /\ Classification' = Classification
    BY <2>1, AuditWrites DEF Classification, Failed
  <2>3. Latest(terminal'[st.exp]) = Classification
        /\ \A e \in Experiments \ {st.exp} : terminal'[e] = terminal[e]
    <3> HIDE DEF Experiments, Classes
    <3>1. terminal'[st.exp] = Append(terminal[st.exp], Classification) /\ terminal[st.exp] \in Seq(Classes)
          /\ \A e \in Experiments \ {st.exp} : terminal'[e] = terminal[e]
      BY <1>0, <2>1, <2>2
    <3> QED BY <2>2, <3>1, LatestRow
  <2> QED BY <2>1, <2>2, <2>3, FinishedStays DEF BackedInv
<1>7. CASE WriteInventory
  <2>1. Write("inventory") /\ inventory' = out /\ pc = "inventory"
        /\ UNCHANGED <<st, audit, terminal, rejected>>
    BY <1>7 DEF WriteInventory, Write
  <2>2. /\ pc' = IF out = "no_go" THEN "rejected" ELSE "advance"
        /\ st.exp = "archive" /\ cmd = "audit" /\ Classification = out /\ out \in {"go", "no_go"}
        /\ Classification' = Classification
    BY <2>1, AuditWrites DEF Classification, Failed
  <2> QED BY <2>1, <2>2, FinishedStays DEF BackedInv
<1>8. CASE AppendRejected
  <2>1. Write("rejected") /\ rejected' = [rejected EXCEPT ![st.exp] = Append(@, Classification)]
        /\ UNCHANGED <<st, audit, terminal, inventory>> /\ pc = "rejected"
    BY <1>8 DEF AppendRejected, Write
  <2>2. /\ pc' = "advance" /\ st.exp \in Experiments /\ Classification \in Classes /\ cmd = "audit"
        /\ Classification' = Classification
    BY <2>1, AuditWrites DEF Classification, Failed
  <2>3. Latest(rejected'[st.exp]) = Classification
        /\ \A e \in Experiments \ {st.exp} : rejected'[e] = rejected[e]
    <3> HIDE DEF Experiments, Classes
    <3>1. rejected'[st.exp] = Append(rejected[st.exp], Classification) /\ rejected[st.exp] \in Seq(Classes)
          /\ \A e \in Experiments \ {st.exp} : rejected'[e] = rejected[e]
      BY <1>0, <2>1, <2>2
    <3> QED BY <2>2, <3>1, LatestRow
  <2> QED BY <2>1, <2>2, <2>3, FinishedStays DEF BackedInv
<1>9. CASE WriteState
  <2>1. pc = "advance" /\ Write("advance") /\ UNCHANGED <<audit, terminal, rejected, inventory>>
    BY <1>9 DEF WriteState, Write, evidence
  <2>2. CASE cmd # "audit"
    <3>1. st'.exp = st.exp /\ st'.last = st.last /\ st'.verdict = st.verdict
      BY <1>9, <2>2, AdvanceMoves
    <3> QED BY <1>4, <2>1, <3>1
  <2>3. CASE cmd = "audit"
    <3>1. /\ st'.last = st.exp /\ st'.verdict = Classification /\ st'.exp = Successor.exp
          /\ st.exp \in Audited
      BY <1>9, <2>3, AdvanceMoves DEF Inv, Control, Subjects
    <3>2. pc' \notin {"terminal", "inventory", "rejected", "advance"}
      BY <2>1, <2>3, AuditWrites
    <3>3. st'.exp # st.exp
      BY <3>1 DEF Successor
    <3>4. StateBacked'
      BY <2>1, <2>3, <3>1 DEF BackedInv, StateBacked
    <3> QED BY <3>1, <3>2, <3>3, <3>4 DEF BackedInv
  <2> QED BY <2>2, <2>3
<1>10. CASE Crash
  BY <1>1, <1>10 DEF Crash, files, evidence
<1>11. CASE Operate
  <2>1. pc' = "idle"
    BY <1>11 DEF Operate, Commit, AllocateTrend, AllocateMeanReversion, AllocateLater, Allocate,
             HandOver, ConcludeByHand, AbandonAudit, ByHand, run
  <2>2. CASE Commit \/ AllocateTrend \/ AllocateMeanReversion \/ AllocateLater \/ HandOver
    <3>1. st'.exp = st.exp /\ st'.last = st.last /\ st'.verdict = st.verdict
          /\ UNCHANGED <<audit, terminal, rejected, inventory>>
      BY <1>0, <2>2 DEF Commit, AllocateTrend, AllocateMeanReversion, AllocateLater, Allocate,
               HandOver, StateType, files, evidence
    <3> QED BY <1>1, <2>1, <3>1
  <2>3. CASE ConcludeByHand
    <3>1. /\ st.exp \in Experiments \ Audited
          /\ audit' = [audit EXCEPT ![st.exp] = "rejected"]
          /\ terminal' = [terminal EXCEPT ![st.exp] = Append(@, "rejected")]
          /\ rejected' = [rejected EXCEPT ![st.exp] = Append(@, "rejected")]
      BY <2>3 DEF ConcludeByHand
    <3>2. PICK next \in {e \in Queue : terminal'[e] = << >>} \cup {"none"} :
             st' = [st EXCEPT !.exp = next, !.task = IF next = "none" THEN "exhausted" ELSE "allocate",
                              !.last = st.exp, !.verdict = "rejected"]
      BY <2>3 DEF ConcludeByHand
    <3>3. st'.exp = next /\ st'.last = st.exp /\ st'.verdict = "rejected"
      BY <1>0, <3>2 DEF StateType
    <3>4. audit'[st.exp] = "rejected" /\ Latest(terminal'[st.exp]) = "rejected"
          /\ Latest(rejected'[st.exp]) = "rejected"
      BY <1>0, <3>1, LatestRow
    <3>5. next # st.exp
      BY <3>1, <3>2, <3>4 DEF Latest
    <3> QED BY <2>1, <3>1, <3>3, <3>4, <3>5 DEF BackedInv, StateBacked
  <2>4. CASE AbandonAudit
    <3>1. /\ audit' = [audit EXCEPT ![st.exp] = "inconclusive"]
          /\ terminal' = [terminal EXCEPT ![st.exp] = Append(@, "inconclusive")]
          /\ st.exp \in {"archive", "trend"} /\ st'.exp \in {"trend", "meanrev"} /\ st'.exp # st.exp
          /\ st'.last = st.exp /\ st'.verdict = "inconclusive"
      BY <1>0, <2>4 DEF AbandonAudit, StateType
    <3>2. audit'[st.exp] = "inconclusive" /\ Latest(terminal'[st.exp]) = "inconclusive"
      BY <1>0, <3>1, LatestRow
    <3> QED BY <2>1, <3>1, <3>2 DEF BackedInv, StateBacked
  <2> QED BY <1>11, <2>2, <2>3, <2>4 DEF Operate
<1>12. CASE UNCHANGED vars
  BY <1>12 DEF vars, files, evidence, run, BackedInv, StateBacked, Classification, Failed
<1>13. CASE WritePreregistration \/ RecordCall \/ Note \/ WriteReport \/ WriteContract \/ Charge
  <2>1. PICK w \in Writing \ {"audit", "terminal", "inventory", "rejected"} : Write(w)
    BY <1>13 DEF WritePreregistration, RecordCall, Note, WriteReport, WriteContract, Charge
  <2>2. st'.exp = st.exp /\ st'.last = st.last /\ st'.verdict = st.verdict
        /\ UNCHANGED <<audit, terminal, rejected, inventory>>
    BY <1>0, <1>13 DEF WritePreregistration, RecordCall, Note, WriteReport, WriteContract, Charge,
             StateType, files, evidence
  <2> QED BY <1>4, <2>1, <2>2
<1> QED BY <1>2, <1>3, <1>5, <1>6, <1>7, <1>8, <1>9, <1>10, <1>11, <1>12, <1>13 DEF Next, Work

(* What the state file says of the last finished experiment is in its audit *)
(* file, its ledger rows and the data inventory, after whatever crash.      *)
THEOREM StateFileBacked == Spec => []StateBacked
<1>1. Init => BackedInv
  BY DEF Init, BackedInv, StateBacked
<1>2. BackedInv => StateBacked
  BY DEF BackedInv
<1> QED BY InitInv, NextInv, <1>1, BackedNext, <1>2, PTL DEF Spec
================================================================================
