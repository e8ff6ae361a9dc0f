----------------------------- MODULE StudyGates -----------------------------
(***************************************************************************)
(* How a development study comes to its classification: the nine           *)
(* evaluations run their paths in a fixed order, align a panel,            *)
(* read the results of earlier studies, compute the multiplicity           *)
(* statistics and compare the gates they implement with the frozen ones.   *)
(* Any exception ends the study without a report.  Of every number only    *)
(* "passes its threshold" is kept; "won" collects what passed.  Gates that *)
(* look at the same evidence have one name.                                *)
(***************************************************************************)
EXTENDS Integers, Sequences, FiniteSets

CONSTANT OfferedContracts   \* sets of gate names a preregistration may hold

VARIABLES study,      \* the experiment
          stage,      \* next step of its evaluate_development
          won,        \* evidence that passes
          sharpe,     \* primary Sharpe: "high", "low" or "undefined"
          defined,    \* every current trial has a finite Sharpe
          panel,      \* common panel: "full", "short" or "empty"
          prior,      \* registry of earlier results: "exact" or "changed"
          contract,   \* names of the frozen gates
          report      \* "none", "raised", "GO" or "NO_GO"

studyVars == <<study, stage, won, sharpe, defined, panel, prior, contract, report>>

(* The order of each evaluate_development. *)
TrendSteps == <<"trials", "doubled", "delayed", "folds", "standalone", "benchmarks",
                "panel", "sharpes", "multiplicity", "gates">>
ReversionSteps == <<"trials", "doubled", "delayed", "folds", "standalone", "benchmarks",
                    "panel", "sharpes", "multiplicity", "gates">>
RotationSteps == <<"trials", "doubled", "delayed", "folds", "benchmarks",
                   "panel", "sharpes", "multiplicity", "gates">>
SecondReversionSteps == <<"priors", "trials", "folds", "doubled", "delayed",
                          "standalone", "cash_comparator">>
ParitySteps == <<"trials", "doubled", "delayed", "folds", "benchmarks",
                 "panel", "sharpes", "priors", "multiplicity", "gates">>
ManagedSteps == <<"trials", "doubled", "delayed", "folds", "benchmarks",
                  "panel", "sharpes", "priors", "multiplicity", "gates">>
CalendarSteps == <<"gate_count", "trials", "doubled", "delayed", "folds", "standalone",
                   "leave_one_out", "panel", "sharpes", "priors", "multiplicity",
                   "gates", "benchmarks">>
CleanReversionSteps == <<"trials", "folds", "doubled", "delayed", "standalone", "benchmarks",
                         "panel", "sharpes", "multiplicity", "gates">>
CleanRotationSteps == <<"trials", "folds", "doubled", "delayed", "panel", "sharpes", "priors",
                        "multiplicity", "benchmarks", "gates">>

Steps == [trend |-> TrendSteps, reversion |-> ReversionSteps, rotation |-> RotationSteps,
          reversion2 |-> SecondReversionSteps, parity |-> ParitySteps,
          managed |-> ManagedSteps, calendar |-> CalendarSteps,
          reversion5 |-> CleanReversionSteps, rotation5 |-> CleanRotationSteps]
Studies == DOMAIN Steps
FirstStudies == {"trend", "reversion", "rotation"}
CleanStudies == {"reversion5", "rotation5"}
PathSteps == {"trials", "doubled", "delayed", "folds", "standalone", "leave_one_out",
              "benchmarks"}

(* What the paths of a step can show. *)
Shows(step) ==
    IF step = "trials" THEN {"primary", "neighbours"} ELSE {step} \ {"benchmarks"}

(* The panels a study accepts; the others raise. *)
TrendPanels == {"full", "short"}
FirstPanels == {"full", "short", "empty"}
ParityPanels == {"full"}
ManagedPanels == {"full"}
CalendarPanels == {"full"}
CleanPanels == {"full", "short"}
Panels == [trend |-> TrendPanels, reversion |-> FirstPanels, rotation |-> FirstPanels,
           reversion2 |-> {}, parity |-> ParityPanels, managed |-> ManagedPanels,
           calendar |-> CalendarPanels, reversion5 |-> CleanPanels, rotation5 |-> CleanPanels]

(* A multiplicity that does not look at undefined Sharpes. *)
MultiplicityAnyway(p, all) == p # "empty"

(* Whether the deflated Sharpe and the PBO of a study may pass at all, given *)
(* the panel and whether every trial has a Sharpe: each of the six pairs of *)
(* functions answers 0 and 1 to degenerate inputs.                          *)
TrendMultiplicity(p, all) == p # "empty" /\ all
ReversionMultiplicity(p, all) == p # "empty" /\ all
RotationMultiplicity(p, all) == p # "empty" /\ all
ParityMultiplicity(p, all, registry) == p = "full" /\ all /\ registry = "exact"
ManagedMultiplicity(p, all, registry) == p = "full" /\ all /\ registry = "exact"
CalendarMultiplicity(p, all, registry) == p = "full" /\ all /\ registry = "exact"
CleanReversionMultiplicity == FALSE  \* dsr_probability = 0.0
CleanRotationMultiplicity(p, registry) == p # "empty" /\ registry = "exact"

MayPassMultiplicity ==
    \/ study = "trend" /\ TrendMultiplicity(panel, defined)
    \/ study = "reversion" /\ ReversionMultiplicity(panel, defined)
    \/ study = "rotation" /\ RotationMultiplicity(panel, defined)
    \/ study = "parity" /\ ParityMultiplicity(panel, defined, prior)
    \/ study = "managed" /\ ManagedMultiplicity(panel, defined, prior)
    \/ study = "calendar" /\ CalendarMultiplicity(panel, defined, prior)
    \/ study = "reversion5" /\ CleanReversionMultiplicity
    \/ study = "rotation5" /\ CleanRotationMultiplicity(panel, prior)

(* The gates a study implements, as names of the evidence they look at; any *)
(* other name in a contract is one the study does not know.                 *)
Implemented ==
    (UNION {Shows(Steps[study][n]) : n \in {m \in 1 .. Len(Steps[study]) :
                                              Steps[study][m] \in PathSteps}})
      \union {"sharpe", "multiplicity", "quality"}
Unread == {"unread"}
NotMapping == {"not a mapping"}
Passed == won \union (IF sharpe = "high" THEN {"sharpe"} ELSE {})

(* The three gate functions of the first studies go through the gates the   *)
(* contract happens to name and answer no to a name they do not know.  Only *)
(* the trend study asks that it names any.                                  *)
TrendGo(c) == c # {} /\ c \subseteq Passed
ReversionGo(c) == c \subseteq Passed
RotationGo(c) == c \subseteq Passed

(* The later ones have compared the two sets of names before. *)
ParityGo == Implemented \subseteq Passed
ManagedGo == Implemented \subseteq Passed
CalendarGo == Implemented \subseteq Passed

(* The clean room has its gates in the code and reads no contract.          *)
CleanGo == Implemented \subseteq Passed

AllGatesPass(c) ==
    \/ study = "trend" /\ TrendGo(c)
    \/ study = "reversion" /\ ReversionGo(c)
    \/ study = "rotation" /\ RotationGo(c)
    \/ study = "parity" /\ ParityGo
    \/ study = "managed" /\ ManagedGo
    \/ study = "calendar" /\ CalendarGo
    \/ study \in CleanStudies /\ CleanGo

AtStep(step) ==
    report \in {"none", "found_go", "found_no"} /\ stage <= Len(Steps[study])
    /\ Steps[study][stage] = step
NextStage == stage' = stage + 1 /\ UNCHANGED <<study, report>>
RaiseStudy == report' = "raised" /\ UNCHANGED <<study, stage>>

(* The paths of a step: one of them raises, or all of them have a result.   *)
RunPaths ==
    \E step \in PathSteps :
        /\ AtStep(step)
        /\ \/ RaiseStudy /\ UNCHANGED won
           \/ NextStage /\ \E s \in SUBSET Shows(step) : won' = won \union s
        /\ UNCHANGED <<sharpe, defined, panel, prior, contract>>

(* _buy_hold of nothing: a path of cash has no Sharpe and raises, always.   *)
CashComparator ==
    /\ AtStep("cash_comparator") /\ RaiseStudy
    /\ UNCHANGED <<won, sharpe, defined, panel, prior, contract>>

AlignPanel ==
    /\ AtStep("panel")
    /\ panel' \in {"full", "short", "empty"}
    /\ \/ panel' \in Panels[study] /\ NextStage
       \/ panel' \notin Panels[study] /\ RaiseStudy
       \/ study = "reversion5" /\ panel' = "short" /\ RaiseStudy  \* _pbo: IndexError
    /\ UNCHANGED <<won, sharpe, defined, prior, contract>>

(* The first studies report an undefined Sharpe as none; the later raise,   *)
(* and the clean room takes it for 0.                                       *)
ScorePanel ==
    /\ AtStep("sharpes")
    /\ \E s \in {"high", "low"} \union (IF study \in CleanStudies THEN {} ELSE {"undefined"}) :
         sharpe' = s /\ defined' \in IF s = "undefined" THEN {FALSE} ELSE BOOLEAN
    /\ IF defined' \/ study \in FirstStudies \union CleanStudies THEN NextStage ELSE RaiseStudy
    /\ UNCHANGED <<won, panel, prior, contract>>

(* The hash-bound results of earlier studies. *)
ReadPriors ==
    /\ AtStep("priors")
    /\ prior' \in {"exact", "changed"}
    /\ IF prior' = "exact" THEN NextStage ELSE RaiseStudy
    /\ UNCHANGED <<won, sharpe, defined, panel, contract>>

(* DSR and PBO, and with them everything judged of the primary alone        *)
(* (drawdown, regimes, concentration, comparison with the baselines).       *)
JudgeMultiplicity ==
    /\ AtStep("multiplicity")
    /\ \E s \in SUBSET ((IF MayPassMultiplicity THEN {"multiplicity"} ELSE {})
                          \union (IF sharpe # "undefined" THEN {"quality"} ELSE {})) :
         won' = won \union s
    /\ NextStage
    /\ UNCHANGED <<sharpe, defined, panel, prior, contract>>

(* The calendar study counts the frozen gates before it computes anything.  *)
CountGates ==
    /\ AtStep("gate_count")
    /\ contract' \in OfferedContracts \union {NotMapping}
    /\ IF contract' # NotMapping /\ Cardinality(contract') = Cardinality(Implemented)
       THEN NextStage ELSE RaiseStudy
    /\ UNCHANGED <<won, sharpe, defined, panel, prior>>

(* The contract's gates are compared, except by the first studies, and      *)
(* every one of them must pass ("any_failure", which the managed study does *)
(* not compare, is no gate).                                                *)
Classify ==
    /\ AtStep("gates")
    /\ contract' \in IF contract = Unread /\ study \notin CleanStudies
                    THEN OfferedContracts \union {NotMapping} ELSE {contract}
    /\ IF \/ contract' = NotMapping
          \/ study \notin FirstStudies \union CleanStudies /\ contract' # Implemented
       THEN RaiseStudy
       ELSE /\ report' = IF AllGatesPass(contract') THEN "found_go" ELSE "found_no"
            /\ stage' = stage + 1 /\ UNCHANGED study
    /\ UNCHANGED <<won, sharpe, defined, panel, prior>>

(* Only after its last step a study returns its report. *)
ReturnReport ==
    /\ report \in {"found_go", "found_no"} /\ stage = Len(Steps[study]) + 1
    /\ report' = IF report = "found_go" THEN "GO" ELSE "NO_GO"
    /\ UNCHANGED <<study, stage, won, sharpe, defined, panel, prior, contract>>

StudyInit ==
    /\ study \in Studies
    /\ stage = 1 /\ won = {} /\ sharpe = "none" /\ defined = FALSE /\ panel = "none"
    /\ prior = "unread" /\ contract = Unread /\ report = "none"

StudyNext ==
    RunPaths \/ CashComparator \/ AlignPanel \/ ScorePanel \/ ReadPriors
      \/ JudgeMultiplicity \/ CountGates \/ Classify \/ ReturnReport

StudySpec == StudyInit /\ [][StudyNext]_studyVars

-----------------------------------------------------------------------------
(* What must pass for a GO: what the contract of a first study names, or    *)
(* everything a later one implements.                                       *)
Asked == IF study \in FirstStudies THEN contract ELSE Implemented

(* DEVELOPMENT_GO fails closed over all steps of all nine studies.  What is *)
(* asked has passed and is known to the study; later studies ask for all    *)
(* they implement and find exactly that in their contract.  Nothing judged  *)
(* of an empty panel or of Sharpes that do not exist was asked: one that is *)
(* undefined is survived only by a contract that names no gate resting on   *)
(* it (the clean-room rotation excepted, which takes it for 0).  No GO      *)
(* rests on a registry that was changed, or comes from the second reversion *)
(* or the clean-room reversion.  What the code does not give is a GO for    *)
(* the whole evidence: the first studies ask only what the contract names,  *)
(* and reversion and rotation give a GO to one that names nothing.          *)
GoIsEarned ==
    report = "GO" =>
        /\ Asked \subseteq Passed /\ Asked \subseteq Implemented
        /\ Asked = {} => study \in {"reversion", "rotation"}
        /\ study \in FirstStudies \union CleanStudies \/ contract = Implemented
        /\ "multiplicity" \in Asked => panel # "empty" /\ (defined \/ study = "rotation5")
        /\ sharpe = "undefined" => Asked \intersect {"sharpe", "quality", "multiplicity"} = {}
        /\ panel = "empty" => study \in {"reversion", "rotation"}
        /\ prior # "changed" /\ study \notin {"reversion2", "reversion5"}
=============================================================================
