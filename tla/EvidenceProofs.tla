--------------------------- MODULE EvidenceProofs ---------------------------
(*****************************************************************************)
(* What a study may claim: DEVELOPMENT_GO is earned, the holdout latch stays *)
(* armed, a valid ledger of requests tells every outcome, the manifest of the *)
(* archive is sound.  One section for each module.                           *)
(*****************************************************************************)
EXTENDS StudyGates, HoldoutLatch, Route4Ledger, ArchiveAudit, TLAPS,
        FiniteSetTheorems, SequenceTheorems, WellFoundedInduction

(* A set of naturals has a least element, and a bounded one a largest.      *)
LEMMA LeastNatural ==
    ASSUME NEW T \in SUBSET Nat, T # {} PROVE \E x \in T : \A y \in T : x <= y
<1> DEFINE R == {pair \in Nat \X Nat : pair[1] < pair[2]}
<1>1. IsWellFoundedOn(R, Nat)
    BY NatLessThanWellFounded, Zenon DEF OpToRel
<1>2. \E x \in T : \A y \in T : ~ (<<y, x>> \in R)
    BY <1>1, WFMin, Zenon
<1>3. \A x, y \in T : ~ (<<y, x>> \in R) => x <= y
    OBVIOUS
<1> QED BY <1>2, <1>3

(* A set of integers with a bound has a largest element.                    *)
LEMMA LargestInteger ==
    ASSUME NEW T \in SUBSET Int, T # {}, NEW n \in Int, \A y \in T : y <= n
    PROVE  \E x \in T : \A y \in T : y <= x
<1> DEFINE U == {n - y : y \in T}
<1>0. \A y \in T : n - y \in Nat
    OBVIOUS
<1>1. U \in SUBSET Nat /\ U # {}
    BY <1>0
<1>2. PICK u \in U : \A v \in U : u <= v
    BY <1>1, LeastNatural
<1>3. PICK x \in T : u = n - x
    OBVIOUS
<1>4. \A y \in T : u <= n - y
    BY <1>2
<1>5. \A y \in T : y <= x
    BY <1>3, <1>4
<1> QED BY <1>5

(* Distinct numbers: the count of those below is a bijection onto the       *)
(* places 0 .. n - 1, and grows with the number.                            *)
LEMMA RanksArePlaces ==
    ASSUME NEW n \in Nat, NEW num \in [1 .. n -> Int],
           \A i, j \in 1 .. n : num[i] = num[j] => i = j
    PROVE  LET rank == [j \in 1 .. n |-> Cardinality({k \in 1 .. n : num[k] < num[j]})]
           IN  /\ rank \in [1 .. n -> 0 .. n - 1]
               /\ \A i, j \in 1 .. n : num[i] < num[j] <=> rank[i] < rank[j]
               /\ \A i, j \in 1 .. n : rank[i] = rank[j] => i = j
               /\ \A place \in 0 .. n - 1 : \E j \in 1 .. n : rank[j] = place
<1> DEFINE below(j) == {k \in 1 .. n : num[k] < num[j]}
           rank == [j \in 1 .. n |-> Cardinality(below(j))]
<1>1. IsFiniteSet(1 .. n) /\ Cardinality(1 .. n) = n
    BY FS_Interval
<1>2. ASSUME NEW j \in 1 .. n
      PROVE  IsFiniteSet(below(j)) /\ Cardinality(below(j)) \in 0 .. n - 1
  <2>1. below(j) \in SUBSET (1 .. n) /\ j \notin below(j)
      OBVIOUS
  <2>2. IsFiniteSet(below(j)) /\ Cardinality(below(j)) <= n /\ Cardinality(below(j)) \in Nat
        /\ (Cardinality(below(j)) = n => below(j) = 1 .. n)
    <3> HIDE DEF below
    <3> QED BY <1>1, <2>1, FS_Subset, FS_CardinalityType
  <2> HIDE DEF below
  <2> QED BY <2>1, <2>2
<1>3. ASSUME NEW i \in 1 .. n, NEW j \in 1 .. n, num[i] < num[j]
      PROVE  Cardinality(below(i)) < Cardinality(below(j))
  <2>1. below(i) \in SUBSET below(j) /\ i \in below(j) /\ i \notin below(i)
      BY <1>3
  <2>2. Cardinality(below(i)) <= Cardinality(below(j))
        /\ (Cardinality(below(i)) = Cardinality(below(j)) => below(i) = below(j))
      BY <1>2, <2>1, FS_Subset
  <2>3. Cardinality(below(i)) \in Int /\ Cardinality(below(j)) \in Int
    <3>1. 0 .. n - 1 \in SUBSET Int
        OBVIOUS
    <3> HIDE DEF below
    <3> QED BY <1>2, <3>1
  <2> HIDE DEF below
  <2> QED BY <2>1, <2>2, <2>3
<1>4. /\ rank \in [1 .. n -> 0 .. n - 1]
      /\ \A i, j \in 1 .. n : num[i] < num[j] => rank[i] < rank[j]
    BY <1>2, <1>3
<1> HIDE DEF rank
<1>5. /\ \A i, j \in 1 .. n : num[i] < num[j] <=> rank[i] < rank[j]
      /\ \A i, j \in 1 .. n : rank[i] = rank[j] => i = j
  <2> SUFFICES ASSUME NEW i \in 1 .. n, NEW j \in 1 .. n
               PROVE  (num[i] < num[j] <=> rank[i] < rank[j]) /\ (rank[i] = rank[j] => i = j)
      OBVIOUS
  <2>1. /\ num[i] \in Int /\ num[j] \in Int /\ rank[i] \in Int /\ rank[j] \in Int
        /\ num[i] < num[j] => rank[i] < rank[j]
        /\ num[j] < num[i] => rank[j] < rank[i]
        /\ num[i] = num[j] => i = j
      BY <1>4
  <2> QED BY <2>1
<1>6. \A place \in 0 .. n - 1 : \E j \in 1 .. n : rank[j] = place
  <2>1. IsFiniteSet(0 .. n - 1) /\ Cardinality(0 .. n - 1) = n
    <3>1. 0 \in Int /\ n - 1 \in Int
        OBVIOUS
    <3>2. /\ IsFiniteSet(0 .. n - 1)
          /\ Cardinality(0 .. n - 1) = IF 0 > n - 1 THEN 0 ELSE (n - 1) - 0 + 1
        BY <3>1, FS_Interval
    <3> QED BY <3>2
  <2>2. rank \in Injection(1 .. n, 0 .. n - 1)
      BY <1>4, <1>5 DEF Injection, IsInjective
  <2>3. rank \in Surjection(1 .. n, 0 .. n - 1)
      BY <1>1, <2>1, <2>2, FS_Injection
  <2> QED BY <2>3 DEF Surjection
<1> QED BY <1>4, <1>5, <1>6 DEF rank

-----------------------------------------------------------------------------
(***************************************************************************)
(* DEVELOPMENT_GO is earned, in every order of results and exceptions.     *)
(* What a classification rests on was recorded several steps before it, so *)
(* the invariant says that it is still true: the multiplicity statistics   *)
(* come after everything they look at, and after the gates no step can     *)
(* change what they were compared with.  Both are facts about the nine     *)
(* lists of steps (Orderly).                                               *)
(***************************************************************************)

Names == {"trend", "reversion", "rotation", "reversion2", "parity", "managed",
          "calendar", "reversion5", "rotation5"}
Inputs == {"panel", "sharpes", "priors"}
Judging == Inputs \union {"multiplicity", "gate_count", "gates"}
Stresses == {"trials", "doubled", "delayed", "folds"}
Shown == {"primary", "neighbours", "doubled", "delayed", "folds"}
Late == {"multiplicity", "quality"}
Found == {"found_go", "found_no", "GO", "NO_GO"}

(* The multiplicity statistics come after their inputs, the gates after all *)
(* that is judged; a study with gates has all four kinds of path.           *)
Orderly(steps) ==
    /\ \A n, m \in 1 .. Len(steps) :
          /\ steps[n] = "multiplicity" /\ steps[m] \in Inputs => m < n
          /\ steps[n] = "gates" /\ steps[m] \in Judging => m <= n
    /\ \A n \in 1 .. Len(steps) : steps[n] = "gates" =>
          \A x \in Stresses : \E m \in 1 .. Len(steps) : steps[m] = x

Done(what) == \E n \in 1 .. Len(Steps[study]) : n < stage /\ Steps[study][n] = what

(* What was judged had something to be judged on.                          *)
Judged ==
    /\ "multiplicity" \in won =>
         /\ panel # "empty" /\ (defined \/ study = "rotation5") /\ study # "reversion5"
         /\ Done("multiplicity")
    /\ "quality" \in won => sharpe # "undefined" /\ Done("multiplicity")

(* What a study raises for has not got past its step.                      *)
Admitted ==
    /\ prior # "changed"
    /\ panel = "empty" => study \in {"reversion", "rotation"}

Earned ==
    /\ Asked \subseteq Passed /\ Asked \subseteq Implemented
    /\ Asked = {} => study \in {"reversion", "rotation"}
    /\ study \in FirstStudies \union CleanStudies \/ contract = Implemented
    /\ "multiplicity" \in Asked => panel # "empty" /\ (defined \/ study = "rotation5")
    /\ sharpe = "undefined" => Asked \intersect {"sharpe", "quality", "multiplicity"} = {}
    /\ panel = "empty" => study \in {"reversion", "rotation"}
    /\ prior # "changed" /\ study \notin {"reversion2", "reversion5"}

StudyInv ==
    /\ study \in Names /\ stage \in Nat \ {0} /\ won \subseteq Implemented \ {"sharpe"}
    /\ report \in {"none", "raised"} \union Found
    /\ sharpe = "undefined" => ~defined /\ study \notin CleanStudies
    /\ Judged
    /\ report # "raised" => Admitted
    /\ report \in Found => Done("gates")
    /\ report \in {"found_go", "GO"} => Earned

(* The nine studies, by name.                                              *)
LEMMA StudyNames == Studies = Names
BY DEF Studies, Steps, Names

(* Every study judges after what it judges and counts gates last.          *)
LEMMA StepsOrderly == \A s \in Names : Len(Steps[s]) \in Nat /\ Orderly(Steps[s])
<1>1. Len(Steps["trend"]) \in Nat /\ Orderly(Steps["trend"])
    BY DEF Steps, TrendSteps, Orderly, Inputs, Judging, Stresses
<1>2. Len(Steps["reversion"]) \in Nat /\ Orderly(Steps["reversion"])
    BY DEF Steps, ReversionSteps, Orderly, Inputs, Judging, Stresses
<1>3. Len(Steps["rotation"]) \in Nat /\ Orderly(Steps["rotation"])
    BY DEF Steps, RotationSteps, Orderly, Inputs, Judging, Stresses
<1>4. Len(Steps["reversion2"]) \in Nat /\ Orderly(Steps["reversion2"])
    BY DEF Steps, SecondReversionSteps, Orderly, Inputs, Judging, Stresses
<1>5. Len(Steps["parity"]) \in Nat /\ Orderly(Steps["parity"])
    BY DEF Steps, ParitySteps, Orderly, Inputs, Judging, Stresses
<1>6. Len(Steps["managed"]) \in Nat /\ Orderly(Steps["managed"])
    BY DEF Steps, ManagedSteps, Orderly, Inputs, Judging, Stresses
<1>7. Len(Steps["calendar"]) \in Nat /\ Orderly(Steps["calendar"])
    BY DEF Steps, CalendarSteps, Orderly, Inputs, Judging, Stresses
<1>8. Len(Steps["reversion5"]) \in Nat /\ Orderly(Steps["reversion5"])
    BY DEF Steps, CleanReversionSteps, Orderly, Inputs, Judging, Stresses
<1>9. Len(Steps["rotation5"]) \in Nat /\ Orderly(Steps["rotation5"])
    BY DEF Steps, CleanRotationSteps, Orderly, Inputs, Judging, Stresses
<1> QED BY <1>1, <1>2, <1>3, <1>4, <1>5, <1>6, <1>7, <1>8, <1>9 DEF Names

(* The second reversion study has no gates to count.                       *)
LEMMA NoGates == \A n \in 1 .. Len(Steps["reversion2"]) : Steps["reversion2"][n] # "gates"
BY DEF Steps, SecondReversionSteps

(* A step that is due has not been passed, nor has what can only follow it. *)
LEMMA StepDue ==
    ASSUME StudyInv, NEW what, AtStep(what)
    PROVE  /\ stage \in 1 .. Len(Steps[study]) /\ Steps[study][stage] = what
           /\ report \in {"none", "found_go", "found_no"}
           /\ what \in Inputs => ~Done("multiplicity")
           /\ what \in Judging => ~Done("gates")
           /\ study' = study /\ stage' = stage + 1 => Done(what)'
<1>1. Len(Steps[study]) \in Nat /\ Orderly(Steps[study])
    BY StepsOrderly DEF StudyInv
<1>2. stage \in 1 .. Len(Steps[study]) /\ Steps[study][stage] = what
    BY <1>1 DEF AtStep, StudyInv
<1>3. what \in Inputs => ~Done("multiplicity")
    BY <1>1, <1>2 DEF Done, Orderly, StudyInv
<1>4. what \in Judging => ~Done("gates")
    BY <1>1, <1>2 DEF Done, Orderly, StudyInv
<1>5. study' = study /\ stage' = stage + 1 => Done(what)'
    BY <1>1, <1>2 DEF Done, StudyInv
<1> QED BY <1>2, <1>3, <1>4, <1>5 DEF AtStep

(* What a study has behind it stays behind it.                             *)
LEMMA DoneStays ==
    ASSUME StudyInv, study' = study, stage' \in {stage, stage + 1}, NEW x, Done(x)
    PROVE  Done(x)'
BY StepsOrderly DEF Done, StudyInv

(* Winning paths shows nothing about Sharpe, multiplicity and quality, and  *)
(* only what the study implements.                                          *)
LEMMA PathStepShows ==
    ASSUME NEW what \in PathSteps
    PROVE  /\ Shows(what) \intersect (Late \union {"sharpe"}) = {}
           /\ (\E m \in 1 .. Len(Steps[study]) : Steps[study][m] = what)
                => Shows(what) \subseteq Implemented
<1>1. Shows(what) \intersect (Late \union {"sharpe"}) = {}
    BY DEF PathSteps, Shows, Late
<1>2. ASSUME NEW m \in 1 .. Len(Steps[study]), Steps[study][m] = what
      PROVE  Shows(what) \subseteq Implemented
    BY <1>2 DEF Implemented
<1> QED BY <1>1, <1>2

(* Whatever is classified had all stress paths among its gates.             *)
LEMMA StressesImplemented ==
    ASSUME StudyInv, AtStep("gates")
    PROVE  /\ study # "reversion2"
           /\ Shown \union {"sharpe", "multiplicity", "quality"} \subseteq Implemented
<1>1. stage \in 1 .. Len(Steps[study]) /\ Steps[study][stage] = "gates"
    BY StepDue
<1>2. \A x \in Stresses : \E m \in 1 .. Len(Steps[study]) : Steps[study][m] = x
    BY <1>1, StepsOrderly DEF Orderly, StudyInv
<1>3. \A x \in Stresses : Shows(x) \subseteq Implemented
    <2> SUFFICES ASSUME NEW x \in Stresses PROVE Shows(x) \subseteq Implemented
        OBVIOUS
    <2>1. PICK m \in 1 .. Len(Steps[study]) : Steps[study][m] = x
        BY <1>2
    <2>2. x \in PathSteps
        BY DEF Stresses, PathSteps
    <2> QED BY <2>1, <2>2 DEF Implemented
<1>4. Shown \subseteq Implemented
    <2>1. Shows("trials") = {"primary", "neighbours"} /\ Shows("doubled") = {"doubled"}
          /\ Shows("delayed") = {"delayed"} /\ Shows("folds") = {"folds"}
        BY DEF Shows
    <2> QED BY <1>3, <2>1 DEF Shown, Stresses
<1> QED BY <1>1, <1>4, NoGates DEF Implemented

(* A contract that passes was asked for what has passed.                   *)
LEMMA GoNeedsEvidence ==
    ASSUME StudyInv, AtStep("gates"), contract' # NotMapping, study' = study,
           won' = won, sharpe' = sharpe, AllGatesPass(contract')
    PROVE  /\ Asked' \subseteq Passed /\ Passed \subseteq Implemented
           /\ Asked' = {} => study \in {"reversion", "rotation"}
<1>1. /\ study \in FirstStudies => contract' \subseteq Passed
      /\ study \notin FirstStudies => Implemented \subseteq Passed
      /\ study = "trend" => contract' # {}
    BY DEF AllGatesPass, TrendGo, ReversionGo, RotationGo, ParityGo, ManagedGo, CalendarGo,
           CleanGo, FirstStudies, CleanStudies
<1>2. Asked' = IF study \in FirstStudies THEN contract' ELSE Implemented
    BY DEF Asked, Implemented
<1>3. Passed \subseteq Implemented
    BY StressesImplemented DEF Passed, StudyInv
<1>4. Implemented # {}
    BY StressesImplemented
<1> QED BY <1>1, <1>2, <1>3, <1>4 DEF FirstStudies

(* A step that wins paths keeps the invariant.                             *)
LEMMA RunPathsKeeps == ASSUME StudyInv, RunPaths PROVE StudyInv'
<1>1. PICK what \in PathSteps :
        /\ AtStep(what)
        /\ \/ RaiseStudy /\ UNCHANGED won
           \/ NextStage /\ \E s \in SUBSET Shows(what) : won' = won \union s
        /\ UNCHANGED <<sharpe, defined, panel, prior, contract>>
    BY DEF RunPaths
<1>2. /\ Shows(what) \subseteq Implemented
      /\ Shows(what) \intersect {"sharpe", "multiplicity", "quality"} = {}
    BY <1>1, PathStepShows, StepDue DEF Late
<1>3. /\ stage' \in {stage, stage + 1} /\ stage' \in Nat \ {0} /\ study' = study
      /\ report' \in {report, "raised"}
    BY <1>1 DEF RaiseStudy, NextStage, StudyInv
<1>4. /\ won \subseteq won' /\ won' \subseteq Implemented \ {"sharpe"}
      /\ "multiplicity" \in won' => "multiplicity" \in won
      /\ "quality" \in won' => "quality" \in won
    BY <1>1, <1>2 DEF StudyInv
<1>5. Implemented' = Implemented /\ Asked' = Asked
    BY <1>1, <1>3 DEF Implemented, Asked
<1>6. Judged'
    BY <1>1, <1>3, <1>4, DoneStays DEF Judged, StudyInv
<1>7. report' \in Found => Done("gates")'
    BY <1>3, DoneStays DEF StudyInv, Found
<1>8. Passed \subseteq Passed'
    BY <1>1, <1>4 DEF Passed
<1>9. Earned => Earned'
    BY <1>1, <1>3, <1>5, <1>8 DEF Earned
<1>10. Admitted => Admitted'
    BY <1>1, <1>3 DEF Admitted
<1> QED BY <1>1, <1>3, <1>4, <1>5, <1>6, <1>7, <1>9, <1>10 DEF StudyInv, Found

(* Before the multiplicity statistics their inputs may change.              *)
LEMMA InputKeeps ==
    ASSUME StudyInv, NEW what \in Inputs, AtStep(what),
           study' = study, won' = won, contract' = contract,
           \/ stage' = stage + 1 /\ report' = report
           \/ stage' = stage /\ report' = "raised",
           sharpe' = "undefined" => ~defined' /\ study \notin CleanStudies,
           report' # "raised" => Admitted'
    PROVE  StudyInv'
<1>1. report = "none" /\ "multiplicity" \notin won /\ "quality" \notin won
    BY StepDue DEF StudyInv, Judged, Found, Judging
<1>2. Implemented' = Implemented
    BY DEF Implemented
<1> QED BY <1>1, <1>2 DEF StudyInv, Judged, Found

(* The panels a study goes on with are empty only in two of the first.      *)
LEMMA EmptyPanels ==
    ASSUME StudyInv, "empty" \in Panels[study]
    PROVE  study \in {"reversion", "rotation"}
BY DEF StudyInv, Names, Panels, TrendPanels, FirstPanels, ParityPanels, ManagedPanels,
       CalendarPanels, CleanPanels

(* So does judging multiplicity,                                           *)
LEMMA JudgeMultiplicityKeeps == ASSUME StudyInv, JudgeMultiplicity PROVE StudyInv'
<1>1. report = "none" /\ Done("multiplicity")'
    BY StepDue DEF JudgeMultiplicity, NextStage, StudyInv, Judging, Found
<1>2. /\ won' \subseteq won \union {"multiplicity", "quality"}
      /\ "multiplicity" \in won' => "multiplicity" \in won \/ MayPassMultiplicity
      /\ "quality" \in won' => "quality" \in won \/ sharpe # "undefined"
  <2>1. PICK s \in SUBSET ((IF MayPassMultiplicity THEN {"multiplicity"} ELSE {})
                             \union (IF sharpe # "undefined" THEN {"quality"} ELSE {})) :
          won' = won \union s
      BY DEF JudgeMultiplicity
  <2>2. \A x \in s : (x = "multiplicity" /\ MayPassMultiplicity)
                       \/ (x = "quality" /\ sharpe # "undefined")
      OBVIOUS
  <2> QED BY <2>1, <2>2
<1>3. MayPassMultiplicity =>
        panel # "empty" /\ (defined \/ study = "rotation5") /\ study # "reversion5"
    BY DEF MayPassMultiplicity, TrendMultiplicity, ReversionMultiplicity, RotationMultiplicity,
           ParityMultiplicity, ManagedMultiplicity, CalendarMultiplicity,
           CleanReversionMultiplicity, CleanRotationMultiplicity
<1>4. Judged'
    BY <1>1, <1>2, <1>3 DEF Judged, StudyInv, JudgeMultiplicity, NextStage
<1>5. Implemented' = Implemented /\ {"multiplicity", "quality"} \subseteq Implemented
    BY DEF JudgeMultiplicity, NextStage, Implemented
<1>6. Admitted => Admitted'
    BY DEF JudgeMultiplicity, NextStage, Admitted
<1> QED BY <1>1, <1>2, <1>4, <1>5, <1>6 DEF StudyInv, JudgeMultiplicity, NextStage, Found

(* counting the gates                                                      *)
LEMMA CountGatesKeeps == ASSUME StudyInv, CountGates PROVE StudyInv'
<1>1. report = "none"
    BY StepDue DEF CountGates, StudyInv, Judging, Found
<1>2. /\ stage' \in {stage, stage + 1} /\ stage' \in Nat \ {0} /\ study' = study
      /\ report' \in {"none", "raised"}
      /\ UNCHANGED <<won, sharpe, defined, panel, prior>>
    BY <1>1 DEF CountGates, NextStage, RaiseStudy, StudyInv
<1>3. Judged' /\ (Admitted => Admitted') /\ Implemented' = Implemented
    BY <1>2, DoneStays DEF Judged, StudyInv, Admitted, Implemented
<1> QED BY <1>1, <1>2, <1>3 DEF StudyInv, Found

(* and classifying.                                                        *)
LEMMA ClassifyKeeps == ASSUME StudyInv, Classify PROVE StudyInv'
<1>1. report = "none" /\ AtStep("gates")
    BY StepDue DEF Classify, StudyInv, Judging, Found
<1>2. /\ UNCHANGED <<won, sharpe, defined, panel, prior>> /\ study' = study
      /\ stage' \in {stage, stage + 1} /\ stage' \in Nat \ {0}
    BY DEF Classify, RaiseStudy, StudyInv
<1>3. Judged' /\ (Admitted => Admitted') /\ Implemented' = Implemented /\ Passed' = Passed
    BY <1>2, DoneStays DEF Judged, StudyInv, Admitted, Implemented, Passed
<1>4. CASE report' = "raised"
    BY <1>1, <1>2, <1>3, <1>4 DEF StudyInv, Found
<1>5. CASE report' # "raised"
    <2>1. /\ stage' = stage + 1 /\ contract' # NotMapping
          /\ report' = IF AllGatesPass(contract') THEN "found_go" ELSE "found_no"
          /\ study \in FirstStudies \union CleanStudies \/ contract' = Implemented
        BY <1>5 DEF Classify, RaiseStudy
    <2>2. Done("gates")'
        BY <1>1, <1>2, <2>1, StepDue DEF Judging
    <2>3. ASSUME AllGatesPass(contract') PROVE Earned'
        <3>1. /\ Asked' \subseteq Passed /\ Asked' \subseteq Implemented
              /\ Asked' = {} => study \in {"reversion", "rotation"}
            BY <1>1, <1>2, <2>1, <2>3, GoNeedsEvidence
        <3>2. \A x \in Asked' : x \in won \/ (x = "sharpe" /\ sharpe = "high")
            BY <3>1 DEF Passed
        <3>3. "multiplicity" \in Asked' =>
                panel # "empty" /\ (defined \/ study = "rotation5") /\ study # "reversion5"
            BY <3>2 DEF StudyInv, Judged
        <3>4. sharpe = "undefined" => Asked' \intersect {"sharpe", "quality", "multiplicity"} = {}
            BY <3>2, <3>3 DEF StudyInv, Judged, CleanStudies
        <3>5. study \notin {"reversion2", "reversion5"}
            <4>1. study \notin FirstStudies => "multiplicity" \in Asked'
                BY <1>1, <1>2, <1>3, StressesImplemented DEF Asked
            <4> QED BY <1>1, <3>3, <4>1, StressesImplemented DEF FirstStudies
        <3>6. Admitted'
            BY <1>1, <1>3 DEF StudyInv
        <3> QED BY <1>2, <1>3, <2>1, <3>1, <3>3, <3>4, <3>5, <3>6 DEF Earned, Admitted
    <2> QED BY <1>1, <1>2, <1>3, <2>1, <2>2, <2>3 DEF StudyInv, Found
<1> QED BY <1>4, <1>5

(* Returning a report changes nothing else.                                *)
LEMMA StudyRests ==
    ASSUME StudyInv, UNCHANGED <<study, stage, won, sharpe, defined, panel, prior, contract>>
    PROVE  /\ Implemented' = Implemented /\ Judged' /\ (Admitted => Admitted')
           /\ (Earned => Earned') /\ (Done("gates") => Done("gates")')
<1>1. Implemented' = Implemented /\ Asked' = Asked /\ Passed' = Passed
    BY DEF Implemented, Asked, Passed
<1>2. \A x : Done(x) => Done(x)'
    BY DoneStays
<1> QED BY <1>1, <1>2 DEF Judged, Admitted, Earned, StudyInv

(* So does every step of a study.                                          *)
LEMMA StudyInvStep == StudyInv /\ [StudyNext]_studyVars => StudyInv'
<1> SUFFICES ASSUME StudyInv, [StudyNext]_studyVars PROVE StudyInv'
    OBVIOUS
<1>1. CASE RunPaths
    BY <1>1, RunPathsKeeps
<1>2. CASE CashComparator
    <2>1. Implemented' = Implemented /\ study' = study /\ stage' = stage
        BY <1>2 DEF CashComparator, RaiseStudy, Implemented
    <2> QED BY <1>2, <2>1, DoneStays DEF CashComparator, RaiseStudy, StudyInv, Judged, Found
<1>3. CASE AlignPanel
    <2>1. report' # "raised" => Admitted'
        BY <1>3, EmptyPanels DEF AlignPanel, NextStage, RaiseStudy, StudyInv, Admitted, AtStep
    <2> QED BY <1>3, <2>1, InputKeeps DEF AlignPanel, NextStage, RaiseStudy, Inputs, StudyInv
<1>4. CASE ScorePanel
    <2>1. report' # "raised" => Admitted'
        BY <1>4 DEF ScorePanel, NextStage, RaiseStudy, StudyInv, Admitted, AtStep
    <2>2. sharpe' = "undefined" => ~defined' /\ study \notin CleanStudies
        BY <1>4 DEF ScorePanel
    <2>3. /\ study' = study /\ won' = won /\ contract' = contract /\ AtStep("sharpes")
          /\ \/ stage' = stage + 1 /\ report' = report
             \/ stage' = stage /\ report' = "raised"
        BY <1>4 DEF ScorePanel, NextStage, RaiseStudy
    <2> QED BY <2>1, <2>2, <2>3, InputKeeps DEF Inputs
<1>5. CASE ReadPriors
    <2>1. report' # "raised" => Admitted'
        BY <1>5 DEF ReadPriors, NextStage, RaiseStudy, StudyInv, Admitted, AtStep
    <2> QED BY <1>5, <2>1, InputKeeps DEF ReadPriors, NextStage, RaiseStudy, Inputs, StudyInv
<1>6. CASE JudgeMultiplicity
    BY <1>6, JudgeMultiplicityKeeps
<1>7. CASE CountGates
    BY <1>7, CountGatesKeeps
<1>8. CASE Classify
    BY <1>8, ClassifyKeeps
<1>9. CASE ReturnReport
    <2>1. /\ report \in {"found_go", "found_no"} /\ report' \in {"GO", "NO_GO"}
          /\ report' = "GO" => report = "found_go"
          /\ UNCHANGED <<study, stage, won, sharpe, defined, panel, prior, contract>>
        BY <1>9 DEF ReturnReport
    <2> QED BY <2>1, StudyRests DEF StudyInv, Found
<1>10. CASE UNCHANGED studyVars
    BY <1>10, StudyRests DEF studyVars, StudyInv, Found
<1> QED BY <1>1, <1>2, <1>3, <1>4, <1>5, <1>6, <1>7, <1>8, <1>9, <1>10 DEF StudyNext

(* For every study, in every order of results and exceptions: a GO that is  *)
(* reported was earned.                                                     *)
THEOREM GoEarned == StudySpec => []GoIsEarned
<1>1. StudyInit => StudyInv
    BY StudyNames DEF StudyInit, StudyInv, Judged, Admitted, Found
<1>2. StudyInv => GoIsEarned
    BY DEF StudyInv, GoIsEarned, Earned
<1> QED BY <1>1, <1>2, StudyInvStep, PTL DEF StudySpec

-----------------------------------------------------------------------------
(***************************************************************************)
(* The latch is irreversible for any number of callers and power losses.   *)
(* The invariant says who may still write: the creator owns an empty latch,*)
(* one caller at most owns the .arming file, and whoever has replaced the  *)
(* latch finds it armed until its directory is synchronised.               *)
(***************************************************************************)

Places == {"idle", "write_latch", "sync_latch", "open_arming", "write_arming",
           "replace_latch", "sync_directory"}
ArmingPlaces == {"write_arming", "replace_latch"}

OneWriter ==
    /\ \A p, q \in Callers : at[p] = "write_latch" /\ at[q] = "write_latch" => p = q
    /\ \A p, q \in Callers : at[p] \in ArmingPlaces /\ at[q] \in ArmingPlaces => p = q

FilesFit ==
    \A p \in Callers :
        /\ at[p] = "write_latch" => latch = "empty"
        /\ at[p] = "write_arming" => arming = "empty"
        /\ at[p] = "replace_latch" => arming = "armed"
        /\ at[p] \in {"open_arming"} \union ArmingPlaces => latch \in {"unarmed", "armed"}
        /\ at[p] = "sync_directory" => latch = "armed"

LatchInv == at \in [Callers -> Places] /\ OneWriter /\ FilesFit /\ LatchIrreversible

(* The invariant holds before the first call.                               *)
LEMMA LatchInvInit == LatchInit => LatchInv
BY DEF LatchInit, LatchInv, Places, ArmingPlaces, OneWriter, FilesFit, LatchIrreversible

(* Every step of a caller and every power loss keeps the invariant.         *)
LEMMA LatchInvStep == LatchInv /\ [LatchNext]_latchVars => LatchInv'
<1> SUFFICES ASSUME LatchInv, [LatchNext]_latchVars PROVE LatchInv'
    OBVIOUS
<1> USE DEF LatchInv, Places, ArmingPlaces, OneWriter, FilesFit, LatchIrreversible
<1>1. ASSUME NEW p \in Callers, OpenNewLatch(p) PROVE LatchInv'
    BY <1>1 DEF OpenNewLatch, Go
<1>2. ASSUME NEW p \in Callers, WriteLatch(p) PROVE LatchInv'
    BY <1>2 DEF WriteLatch, Go
<1>3. ASSUME NEW p \in Callers, SyncLatch(p) PROVE LatchInv'
    BY <1>3 DEF SyncLatch, Rest
<1>4. ASSUME NEW p \in Callers, ReadLatch(p) PROVE LatchInv'
    BY <1>4 DEF ReadLatch, Go
<1>5. ASSUME NEW p \in Callers, OpenArming(p) PROVE LatchInv'
    BY <1>5 DEF OpenArming, Go, Rest
<1>6. ASSUME NEW p \in Callers, WriteArming(p) PROVE LatchInv'
    BY <1>6 DEF WriteArming, Go
<1>7. ASSUME NEW p \in Callers, ReplaceLatch(p) PROVE LatchInv'
    BY <1>7 DEF ReplaceLatch, Go
<1>8. ASSUME NEW p \in Callers, SyncDirectory(p) PROVE LatchInv'
    BY <1>8 DEF SyncDirectory, Rest
<1>9. CASE PowerLoss
    BY <1>9 DEF PowerLoss
<1>10. CASE UNCHANGED latchVars
    BY <1>10 DEF latchVars
<1> QED BY <1>1, <1>2, <1>3, <1>4, <1>5, <1>6, <1>7, <1>8, <1>9, <1>10 DEF LatchNext

(* Once a caller was let through to the holdout the latch reads as armed,   *)
(* durably, whatever is interrupted and however many callers arm at once.   *)
THEOREM LatchStaysArmed == LatchSpec => []LatchIrreversible
<1>1. LatchInv => LatchIrreversible
    BY DEF LatchInv
<1> QED BY LatchInvInit, LatchInvStep, <1>1, PTL DEF LatchSpec

-----------------------------------------------------------------------------
(***************************************************************************)
(* A ledger that validate_ledger reads without refusal tells the outcome   *)
(* of every request, for any set of requests and any records.  The policy  *)
(* is enforced record by record; the invariant keeps what one record leaves*)
(* for the next to rely on: the ordinals count the attempts, every attempt *)
(* but the last asks for a retry, and a terminal record answers the last   *)
(* action.  An attempt after it would need a last action "retry", to which *)
(* no terminal state belongs.                                              *)
(***************************************************************************)

LedgerTypeOK ==
    /\ attempts \in [LogicalRequests -> Seq(AttemptRecords)]
    /\ terminals \in [LogicalRequests -> TerminalRecords \union {NoTerminal}]

Lineage(q) ==
    \A i \in 1 .. Len(attempts[q]) :
        /\ attempts[q][i].ordinal = i /\ i <= MaxAttempts
        /\ attempts[q][i].action = ExpectedAction(attempts[q][i].outcome, i)
        /\ i < Len(attempts[q]) => attempts[q][i].action = "retry"

Answered(q) ==
    terminals[q] # NoTerminal =>
        /\ attempts[q] # <<>> /\ Len(terminals[q].ids) = Len(attempts[q])
        /\ terminals[q].state = StateAfter(LastOf(attempts[q]).action)
        /\ terminals[q].response <=>
              \E i \in 1 .. Len(attempts[q]) : attempts[q][i].outcome \in Responses

Closed(q) ==
    ledgerVerdict = "accepted" /\ attempts[q] # <<>> => terminals[q] # NoTerminal

LedgerInv ==
    LedgerTypeOK /\ \A q \in LogicalRequests : Lineage(q) /\ Answered(q) /\ Closed(q)

(* The empty ledger.                                                        *)
LEMMA LedgerInvInit == Route4Init => LedgerInv
BY DEF Route4Init, LedgerInv, LedgerTypeOK, Lineage, Answered, Closed

(* A record read as an attempt continues the lineage of its request.        *)
LEMMA AttemptKeeps ==
    ASSUME LedgerInv, NEW r \in OfferedAttempts, ReadAttempt(r) PROVE LedgerInv'
<1> DEFINE q == r.request
<1>1. r \in AttemptRecords /\ q \in LogicalRequests
    BY OfferedAssumption DEF AttemptRecords
<1>2. ValidAttempt(r) /\ AttemptFollows(r)
    BY DEF ReadAttempt
<1>3. LedgerInv'
  <2>1. /\ attempts' = [attempts EXCEPT ![q] = Append(@, r)]
        /\ UNCHANGED <<terminals, ledgerVerdict>> /\ ledgerVerdict = "reading"
      BY DEF ReadAttempt
  <2>2. attempts[q] \in Seq(AttemptRecords)
      BY <1>1 DEF LedgerInv, LedgerTypeOK
  <2>3. /\ attempts'[q] = Append(attempts[q], r)
        /\ \A p \in LogicalRequests : p # q => attempts'[p] = attempts[p]
      BY <1>1, <2>1 DEF LedgerInv, LedgerTypeOK
  <2>4. LedgerTypeOK'
      BY <1>1, <2>1, <2>2 DEF LedgerInv, LedgerTypeOK
  <2>5. Lineage(q)'
    <3>1. r.ordinal = Len(attempts[q]) + 1 /\ r.ordinal <= MaxAttempts
          /\ r.action = ExpectedAction(r.outcome, r.ordinal)
        BY <1>2 DEF ValidAttempt, AttemptFollows, MaxAttempts
    <3>2. attempts[q] # <<>> => attempts[q][Len(attempts[q])].action = "retry"
        BY <1>2 DEF AttemptFollows, LastOf
    <3>3. Lineage(q)
        BY <1>1 DEF LedgerInv
    <3>4. /\ Len(Append(attempts[q], r)) = Len(attempts[q]) + 1 /\ Len(attempts[q]) \in Nat
          /\ \A i \in 1 .. Len(attempts[q]) : Append(attempts[q], r)[i] = attempts[q][i]
          /\ Append(attempts[q], r)[Len(attempts[q]) + 1] = r
        BY <1>1, <2>2
    <3>5. attempts[q] = <<>> => Len(attempts[q]) = 0
        OBVIOUS
    <3> SUFFICES ASSUME NEW i \in 1 .. Len(attempts[q]) + 1
                 PROVE /\ attempts'[q][i].ordinal = i /\ i <= MaxAttempts
                       /\ attempts'[q][i].action = ExpectedAction(attempts'[q][i].outcome, i)
                       /\ i < Len(attempts[q]) + 1 => attempts'[q][i].action = "retry"
        BY <2>3, <3>4 DEF Lineage, ExpectedAction
    <3>6. CASE i <= Len(attempts[q])
        BY <2>3, <3>2, <3>3, <3>4, <3>5, <3>6 DEF Lineage
    <3>7. CASE i = Len(attempts[q]) + 1
        BY <2>3, <3>1, <3>4, <3>7
    <3> QED
        BY <3>4, <3>6, <3>7
  <2>6. terminals[q] = NoTerminal
    <3>1. SUFFICES ASSUME terminals[q] # NoTerminal PROVE FALSE
        OBVIOUS
    <3>2. terminals[q].state \in TerminalStates
        BY <1>1, <3>1 DEF LedgerInv, LedgerTypeOK, TerminalRecords
    <3>3. attempts[q] # <<>> /\ terminals[q].state = StateAfter(LastOf(attempts[q]).action)
        BY <1>1, <3>1 DEF LedgerInv, Answered
    <3>4. LastOf(attempts[q]).action = "retry"
        BY <1>2, <3>3 DEF AttemptFollows
    <3> QED
        BY <3>2, <3>3, <3>4 DEF StateAfter, TerminalStates
  <2> QED
      BY <2>1, <2>3, <2>4, <2>5, <2>6
      DEF LedgerInv, Lineage, Answered, Closed, NoTerminal
<1> QED
    BY <1>3

(* A terminal record answers the attempts read so far.                      *)
LEMMA TerminalKeeps ==
    ASSUME LedgerInv, NEW t \in OfferedTerminals, ReadTerminal(t) PROVE LedgerInv'
<1> DEFINE q == t.request
<1>1. t \in TerminalRecords /\ q \in LogicalRequests
    BY OfferedAssumption DEF TerminalRecords
<1>2. ValidTerminal(t) /\ TerminalFollows(t)
    BY DEF ReadTerminal
<1>3. LedgerInv'
  <2>1. /\ terminals' = [terminals EXCEPT ![q] = t]
        /\ UNCHANGED <<attempts, ledgerVerdict>> /\ ledgerVerdict = "reading"
      BY DEF ReadTerminal
  <2>2. /\ terminals'[q] = t
        /\ \A p \in LogicalRequests : p # q => terminals'[p] = terminals[p]
      BY <1>1, <2>1 DEF LedgerInv, LedgerTypeOK
  <2>3. LedgerTypeOK'
      BY <1>1, <2>1 DEF LedgerInv, LedgerTypeOK
  <2>4. /\ attempts[q] # <<>> /\ t.state = StateAfter(LastOf(attempts[q]).action)
        /\ t.ids = [i \in 1 .. Len(attempts[q]) |-> attempts[q][i].ordinal]
        /\ t.response <=> \E i \in 1 .. Len(attempts[q]) : attempts[q][i].outcome \in Responses
      BY <1>2 DEF TerminalFollows
  <2>5. Len(t.ids) = Len(attempts[q])
    <3>1. Len(attempts[q]) \in Nat /\ t.ids \in Seq(Nat)
        BY <1>1 DEF LedgerInv, LedgerTypeOK, TerminalRecords
    <3>2. DOMAIN t.ids = 1 .. Len(attempts[q])
        BY <2>4
    <3> QED
        BY <3>1, <3>2
  <2>6. Answered(q)'
      BY <2>1, <2>2, <2>4, <2>5 DEF Answered, LastOf
  <2> QED
      BY <2>1, <2>2, <2>3, <2>6 DEF LedgerInv, Lineage, Answered, Closed, LastOf
<1> QED
    BY <1>3

(* Every record that is accepted keeps the invariant.                       *)
LEMMA LedgerInvStep == LedgerInv /\ [Route4Next]_route4Vars => LedgerInv'
<1> SUFFICES ASSUME LedgerInv, [Route4Next]_route4Vars PROVE LedgerInv'
    OBVIOUS
<1>1. CASE RefuseRecord \/ EndLedger
  <2>1. UNCHANGED <<attempts, terminals>>
      BY <1>1 DEF EndLedger, RefuseRecord
  <2>2. \A q \in LogicalRequests : Closed(q)'
      BY <1>1 DEF EndLedger, RefuseRecord, Closed
  <2> QED
      BY <2>1, <2>2 DEF LedgerInv, LedgerTypeOK, Lineage, Answered
<1>2. CASE UNCHANGED route4Vars
    BY <1>2 DEF route4Vars, LedgerInv, LedgerTypeOK, Lineage, Answered, Closed
<1> QED
    BY <1>1, <1>2, AttemptKeeps, TerminalKeeps DEF Route4Next

(* A terminal state that answers the frozen policy tells the outcome.       *)
LEMMA PolicyTells ==
    ASSUME NEW o, NEW n \in Nat, n <= MaxAttempts, NEW s \in TerminalStates,
           s = StateAfter(ExpectedAction(o, n))
    PROVE  /\ s = IF o = "success" THEN "SUCCEEDED"
                  ELSE IF Retryable(o) THEN "RETRIES_EXHAUSTED" ELSE "NONRETRYABLE_FAILED"
           /\ s = "RETRIES_EXHAUSTED" => n = MaxAttempts
BY DEF StateAfter, ExpectedAction, Retryable, TerminalStates, MaxAttempts

(* The policy as it is recorded is the policy as the outcomes tell it.      *)
LEMMA InvTells == LedgerInv => LedgerTellsOutcome
<1> SUFFICES ASSUME LedgerInv, NEW q \in LogicalRequests PROVE RequestSound(q)
    BY DEF LedgerTellsOutcome
<1> DEFINE got == attempts[q]
           t == terminals[q]
<1>1. got \in Seq(AttemptRecords) /\ Len(got) \in Nat
    BY DEF LedgerInv, LedgerTypeOK
<1>2. Lineage(q) /\ Answered(q) /\ Closed(q)
    BY DEF LedgerInv
<1>3. Len(got) <= MaxAttempts
    BY <1>1, <1>2 DEF Lineage, MaxAttempts
<1>4. \A i \in 1 .. Len(got) - 1 : Retryable(got[i].outcome)
    BY <1>1, <1>2 DEF Lineage, ExpectedAction
<1>5. ASSUME t # NoTerminal
      PROVE t.state = Concluded(got) /\ (t.state = "RETRIES_EXHAUSTED" => Len(got) = MaxAttempts)
  <2>1. got # <<>> /\ t.state = StateAfter(LastOf(got).action) /\ t.state \in TerminalStates
      BY <1>2, <1>5 DEF Answered, LedgerInv, LedgerTypeOK, TerminalRecords
  <2>2. Len(got) \in 1 .. Len(got) /\ LastOf(got).action = ExpectedAction(LastOf(got).outcome, Len(got))
      BY <1>1, <1>2, <2>1 DEF Lineage, LastOf
  <2>3. t.state = StateAfter(ExpectedAction(LastOf(got).outcome, Len(got)))
      BY <2>1, <2>2
  <2> QED
      BY <1>1, <1>3, <2>1, <2>3, PolicyTells DEF Concluded
<1> QED
    BY <1>2, <1>3, <1>4, <1>5 DEF RequestSound, Answered, Closed

(* Whatever records are offered in whatever order, and wherever the ledger  *)
(* ends: what validate_ledger has read tells the outcome of each request.   *)
THEOREM LedgerOutcomes == Route4Spec => []LedgerTellsOutcome
BY LedgerInvInit, LedgerInvStep, InvTells, PTL DEF Route4Spec

-----------------------------------------------------------------------------
(*****************************************************************************)
(* The audit of the archive.  Until the second pool has ended, the invariant *)
(* says where each record comes from (RecordsKept: one record of each        *)
(* collected future, still equal to what that future and its listing say) and *)
(* what a future has read (ReadSound: pairs of one publication, of months its *)
(* listing shows complete).  The sort only permutes: the symbols are distinct, *)
(* so the number of smaller ones is a bijection onto the places.             *)
(*****************************************************************************)

Versions == [Symbols -> [Months -> [Kinds -> Nat]]]
Job == [at : {"queued", "running", "ended", "collected"}, got : Seq(Nat), failed : BOOLEAN]

(* What was read of a boundary: pairs of one publication, as many as the    *)
(* boundary has once the job has ended without failure.                     *)
ReadSound(s) ==
    LET got == jobs[s].got
    IN  /\ Len(got) <= Len(Boundary(s))
        /\ \A n \in 1 .. Len(got) : got[n] > 0 /\ (n % 2 = 0 => got[n - 1] = got[n])
        /\ jobs[s].at \in {"ended", "collected"} /\ ~jobs[s].failed =>
              Len(got) = Len(Boundary(s))

Record == [symbol : Symbols, read : Seq(Nat),
           status : {"boundary_failure", "no_complete_archive", "catalog_gaps", "boundaries_valid"}]
RecordsKept ==
    /\ records \in Seq(Record)
    /\ \A i \in 1 .. Len(records) : \E s \in found :
          jobs[s].at = "collected" /\ records[i] = RecordOf(s)
    /\ \A i, j \in 1 .. Len(records) : records[i].symbol = records[j].symbol => i = j
    /\ \A s \in found : jobs[s].at = "collected" =>
          \E i \in 1 .. Len(records) : records[i].symbol = s

ArchiveTypes ==
    /\ bucket \in Versions /\ listings \in Versions /\ found \in SUBSET Symbols
    /\ step \in {"root", "listing", "boundary", "manifest", "raised"}
    /\ step \in {"listing", "boundary"} => jobs \in [found -> Job]

ArchiveInv ==
    /\ ArchiveTypes
    /\ \A s \in Symbols, m \in Months, k \in Kinds : listings[s][m][k] <= bucket[s][m][k]
    /\ step \in {"root", "listing"} => records = <<>>
    /\ step = "boundary" => RecordsKept /\ \A s \in found : ReadSound(s)
    /\ ArchiveManifestSound

Object == [month : Months, kind : Kinds]

(* The objects of a boundary are of months the listing shows complete: two  *)
(* of a single month, else four.                                            *)
LEMMA BoundaryObjects ==
    ASSUME NEW s \in Symbols
    PROVE  /\ Boundary(s) \in Seq(Object)
           /\ \A i \in 1 .. Len(Boundary(s)) : Boundary(s)[i].month \in CompleteMonths(s)
           /\ CompleteMonths(s) # {} =>
                 Len(Boundary(s)) = IF Cardinality(CompleteMonths(s)) = 1 THEN 2 ELSE 4
<1> DEFINE C == CompleteMonths(s)
           first == MinOf(C)
           last == MaxOf(C)
           pair(m) == <<[month |-> m, kind |-> "zip"], [month |-> m, kind |-> "checksum"]>>
           b == Boundary(s)
<1>1. C \in SUBSET Months /\ Months \in SUBSET Nat /\ IsFiniteSet(Months)
  <2>1. LastMonth \in Nat
      BY ArchiveAssumption
  <2> QED BY <2>1, FS_Interval DEF CompleteMonths, Months
<1>2. IsFiniteSet(C)
    BY <1>1, FS_Subset
<1>3. b = IF C = {} THEN <<>> ELSE IF first = last THEN pair(first) ELSE pair(first) \o pair(last)
    BY DEF Boundary
<1>4. CASE C = {}
  <2>1. b = <<>>
      BY <1>3, <1>4
  <2> QED BY <1>4, <2>1
<1>5. CASE C # {}
  <2>1. first \in C /\ \A x \in C : first <= x
    <3>1. C \in SUBSET Nat
        BY <1>1
    <3> HIDE DEF C
    <3>2. \E x \in C : \A y \in C : x <= y
        BY <1>5, <3>1, LeastNatural
    <3> QED BY <3>2, Zenon DEF MinOf
  <2>2. last \in C /\ \A x \in C : x <= last
    <3>1. C \in SUBSET Int /\ LastMonth \in Int /\ \A x \in C : x <= LastMonth
        BY <1>1, ArchiveAssumption DEF Months
    <3> HIDE DEF C
    <3>2. \E x \in C : \A y \in C : y <= x
        BY <1>5, <3>1, LargestInteger
    <3> QED BY <3>2, Zenon DEF MaxOf
  <2> HIDE DEF C, first, last
  <2>3. \A m \in C : /\ pair(m) \in Seq(Object) /\ Len(pair(m)) = 2
                      /\ \A i \in 1 .. 2 : pair(m)[i].month = m
      BY <1>1 DEF Object, Kinds
  <2>4. CASE first = last
    <3>1. \A x \in C : x = first
        BY <1>1, <2>1, <2>2, <2>4
    <3>2. C = {first}
        BY <2>1, <3>1
    <3>3. Cardinality(C) = 1
        BY <3>2, FS_Singleton
    <3>4. b = pair(first)
        BY <1>3, <1>5, <2>4
    <3> HIDE DEF pair, b
    <3> QED BY <2>1, <2>3, <3>3, <3>4 DEF C, b
  <2>5. CASE first # last
    <3>1. Cardinality(C) # 1
        BY <1>2, <2>1, <2>2, <2>5, FS_Singleton
    <3>2. b = pair(first) \o pair(last)
        BY <1>3, <1>5, <2>5
    <3> DEFINE p == pair(first)
               q == pair(last)
    <3>3. /\ p \in Seq(Object) /\ Len(p) = 2 /\ (\A i \in 1 .. 2 : p[i].month = first)
          /\ q \in Seq(Object) /\ Len(q) = 2 /\ (\A i \in 1 .. 2 : q[i].month = last)
          /\ b = p \o q
        BY <2>1, <2>2, <2>3, <3>2
    <3> HIDE DEF p, q, b
    <3>6. /\ p \o q \in Seq(Object) /\ Len(p \o q) = Len(p) + Len(q)
          /\ \A i \in 1 .. Len(p) + Len(q) :
                (p \o q)[i] = IF i <= Len(p) THEN p[i] ELSE q[i - Len(p)]
        BY <3>3, ConcatProperties
    <3>4. b \in Seq(Object) /\ Len(b) = 4 /\ \A i \in 1 .. 4 : b[i] = IF i <= 2 THEN p[i] ELSE q[i - 2]
      <4> HIDE DEF Object
      <4> QED BY <3>3, <3>6
    <3>5. \A i \in 1 .. 4 : b[i].month \in C
      <4> SUFFICES ASSUME NEW i \in 1 .. 4 PROVE b[i].month \in C
          OBVIOUS
      <4>1. CASE i <= 2
          BY <2>1, <3>3, <3>4, <4>1
      <4>2. CASE ~(i <= 2)
        <5>1. i - 2 \in 1 .. 2 /\ b[i] = q[i - 2]
            BY <3>4, <4>2
        <5> QED BY <2>2, <3>3, <5>1
      <4> QED BY <4>1, <4>2
    <3> QED BY <3>1, <3>4, <3>5 DEF b, C
  <2> QED BY <2>4, <2>5
<1> QED BY <1>4, <1>5

(* The end of a job.                                                        *)
LEMMA EndedJob ==
    ASSUME jobs \in [found -> Job], NEW s \in found, NEW bad \in BOOLEAN, EndJob(s, bad)
    PROVE  /\ jobs' \in [found -> Job] /\ \A t \in found : t # s => jobs'[t] = jobs[t]
           /\ jobs'[s].at = "ended" /\ jobs'[s].got = jobs[s].got /\ jobs'[s].failed = bad
<1> DEFINE j == [jobs[s] EXCEPT !.at = "ended", !.failed = bad]
<1>1. jobs' = [jobs EXCEPT ![s] = j]
    BY DEF EndJob
<1>2. jobs[s] \in Job
    OBVIOUS
<1>3. j \in Job /\ j.at = "ended" /\ j.got = jobs[s].got /\ j.failed = bad
    BY <1>2 DEF Job
<1> HIDE DEF j
<1> QED BY <1>1, <1>3

(* A job that only moves on.                                                *)
LEMMA MovedJob ==
    ASSUME jobs \in [found -> Job], NEW s \in found, NEW where \in {"running", "collected"},
           jobs' = [jobs EXCEPT ![s].at = where]
    PROVE  /\ jobs' \in [found -> Job] /\ \A t \in found : t # s => jobs'[t] = jobs[t]
           /\ jobs'[s].at = where /\ jobs'[s].got = jobs[s].got
           /\ jobs'[s].failed = jobs[s].failed
<1> DEFINE j == [jobs[s] EXCEPT !.at = where]
<1>1. jobs' = [jobs EXCEPT ![s] = j]
    OBVIOUS
<1>2. jobs[s] \in Job
    OBVIOUS
<1>3. j \in Job /\ j.at = where /\ j.got = jobs[s].got /\ j.failed = jobs[s].failed
    BY <1>2 DEF Job
<1> HIDE DEF j
<1> QED BY <1>1, <1>3

(* The futures of a new pool.                                               *)
LEMMA QueuedJobs ==
    ASSUME NEW S
    PROVE  LET f == [s \in S |-> Future("queued")]
           IN  f \in [S -> Job] /\ \A s \in S : f[s].at = "queued" /\ f[s].got = <<>>
<1> DEFINE no == FALSE
           j == Future("queued")
<1>1. j = [at |-> "queued", got |-> <<>>, failed |-> no] /\ no \in BOOLEAN
    BY DEF Future
<1> HIDE DEF no, j
<1>2. j \in Job /\ j.at = "queued" /\ j.got = <<>>
    BY <1>1 DEF Job
<1> QED BY <1>2 DEF j

(* A record is one.                                                         *)
LEMMA RecordOfType ==
    ASSUME jobs \in [found -> Job], found \in SUBSET Symbols, NEW s \in found
    PROVE  /\ RecordOf(s) \in Record /\ RecordOf(s).symbol = s /\ RecordOf(s).read = jobs[s].got
           /\ RecordOf(s).status \in {"boundaries_valid", "catalog_gaps"} =>
                 ~jobs[s].failed /\ CompleteMonths(s) # {}
<1> DEFINE status == IF jobs[s].failed THEN "boundary_failure"
                     ELSE IF CompleteMonths(s) = {} THEN "no_complete_archive"
                     ELSE IF MissingMonths(s) \union IncompleteMonths(s) # {} THEN "catalog_gaps"
                     ELSE "boundaries_valid"
           got == jobs[s].got
<1>1. RecordOf(s) = [symbol |-> s, read |-> got, status |-> status]
    BY DEF RecordOf
<1>2. got \in Seq(Nat) /\ s \in Symbols
    BY DEF Job
<1>3. /\ status \in {"boundary_failure", "no_complete_archive", "catalog_gaps", "boundaries_valid"}
      /\ status \in {"boundaries_valid", "catalog_gaps"} => ~jobs[s].failed /\ CompleteMonths(s) # {}
    OBVIOUS
<1> HIDE DEF status, got
<1>4. RecordOf(s) \in Record /\ RecordOf(s).symbol = s /\ RecordOf(s).read = got /\ RecordOf(s).status = status
    BY <1>1, <1>2, <1>3 DEF Record
<1> QED BY <1>3, <1>4 DEF got

(* A job that is under way changes no record and no other job.              *)
LEMMA OthersKept ==
    ASSUME ArchiveInv, step = "boundary", NEW s \in found, jobs[s].at # "collected",
           jobs' \in [found -> Job], \A t \in found : t # s => jobs'[t] = jobs[t],
           jobs'[s].at # "collected", UNCHANGED <<found, listings, records>>
    PROVE  /\ RecordsKept' /\ \A t \in found : t # s => ReadSound(t)'
<1>1. RecordsKept /\ \A t \in found : ReadSound(t)
    BY DEF ArchiveInv
<1>2. \A t \in found : Boundary(t)' = Boundary(t) /\ CompleteMonths(t)' = CompleteMonths(t)
                     /\ MissingMonths(t)' = MissingMonths(t) /\ IncompleteMonths(t)' = IncompleteMonths(t)
    BY DEF Boundary, CompleteMonths, MissingMonths, IncompleteMonths
<1>3. \A t \in found : t # s => RecordOf(t)' = RecordOf(t)
    BY <1>2 DEF RecordOf
<1>4. \A t \in found : t # s => ReadSound(t)'
    BY <1>1, <1>2 DEF ReadSound
<1>6. records' \in Seq(Record)'
    BY <1>1 DEF RecordsKept, Record, Symbols
<1>7. \A i \in 1 .. Len(records) : \E t \in found :
         jobs'[t].at = "collected" /\ records[i] = RecordOf(t)'
  <2> SUFFICES ASSUME NEW i \in 1 .. Len(records)
               PROVE  \E t \in found : jobs'[t].at = "collected" /\ records[i] = RecordOf(t)'
      OBVIOUS
  <2>1. PICK t \in found : jobs[t].at = "collected" /\ records[i] = RecordOf(t)
      BY <1>1 DEF RecordsKept
  <2>2. t # s
      BY <2>1
  <2> QED BY <1>3, <2>1, <2>2
<1>8. \A t \in found : jobs'[t].at = "collected" => \E i \in 1 .. Len(records) : records[i].symbol = t
    BY <1>1 DEF RecordsKept
<1>9. \A i, j \in 1 .. Len(records) : records[i].symbol = records[j].symbol => i = j
    BY <1>1 DEF RecordsKept
<1>10. RecordsKept'
    BY <1>6, <1>7, <1>8, <1>9 DEF RecordsKept
<1> QED BY <1>4, <1>10

(* Steps that change neither bucket nor listings.                           *)
LEMMA VersionsKept ==
    ASSUME ArchiveInv, UNCHANGED <<bucket, listings>>
    PROVE  /\ bucket' \in Versions' /\ listings' \in Versions'
           /\ \A s \in Symbols, m \in Months, k \in Kinds : listings'[s][m][k] <= bucket'[s][m][k]
BY DEF ArchiveInv, ArchiveTypes, Versions, Symbols, Months, Kinds

(* A worker takes the next future.                                          *)
LEMMA StartStep == ArchiveInv /\ StartJob => ArchiveInv'
<1> SUFFICES ASSUME ArchiveInv, StartJob PROVE ArchiveInv'
    OBVIOUS
<1> DEFINE queued == {s \in found : jobs[s].at = "queued"}
<1>1. /\ step \in {"listing", "boundary"} /\ queued # {}
      /\ jobs' = [jobs EXCEPT ![MinOf(queued)].at = "running"]
      /\ UNCHANGED <<bucket, published, step, marker, found, listings, records>>
    BY DEF StartJob
<1>2. jobs \in [found -> Job] /\ found \in SUBSET Symbols
    BY <1>1 DEF ArchiveInv, ArchiveTypes
<1>3. MinOf(queued) \in queued
  <2>1. queued \in SUBSET Nat
    <3>1. found \in SUBSET Nat
        BY <1>2 DEF Symbols
    <3> QED BY <3>1
  <2> HIDE DEF queued
  <2>2. \E x \in queued : \A y \in queued : x <= y
      BY <1>1, <2>1, LeastNatural
  <2> QED BY <2>2, Zenon DEF MinOf
<1>4. PICK s \in found : jobs[s].at = "queued" /\ jobs' = [jobs EXCEPT ![s].at = "running"]
    BY <1>1, <1>3
<1> HIDE DEF queued
<1>5. /\ jobs' \in [found -> Job] /\ \A t \in found : t # s => jobs'[t] = jobs[t]
      /\ jobs'[s].at = "running" /\ jobs'[s].got = jobs[s].got
    BY <1>2, <1>4, MovedJob
<1>6. ArchiveTypes' /\ (step' \in {"root", "listing"} => records' = <<>>) /\ ArchiveManifestSound'
    BY <1>1, <1>5, VersionsKept DEF ArchiveInv, ArchiveTypes, ArchiveManifestSound, Symbols, Job
<1>7. ASSUME step = "boundary" PROVE RecordsKept' /\ \A t \in found : ReadSound(t)'
  <2>1. RecordsKept' /\ \A t \in found : t # s => ReadSound(t)'
      BY <1>1, <1>4, <1>5, <1>7, OthersKept
  <2>2. Boundary(s)' = Boundary(s)
    <3>1. listings' = listings
        BY <1>1
    <3> QED BY <3>1 DEF Boundary, CompleteMonths
  <2>3. ReadSound(s)
      BY <1>4, <1>7 DEF ArchiveInv
  <2>4. ReadSound(s)'
      BY <1>5, <2>2, <2>3 DEF ReadSound
  <2> SUFFICES ASSUME NEW t \in found PROVE RecordsKept' /\ ReadSound(t)'
      BY <2>1
  <2>5. CASE t = s
      BY <2>1, <2>4, <2>5
  <2> QED BY <2>1, <2>5
<1> QED BY <1>1, <1>6, <1>7, VersionsKept DEF ArchiveInv, Symbols, Months, Kinds

(* A job that ends, with or without failure.                                *)
LEMMA EndStep ==
    ASSUME ArchiveInv, NEW s \in found, NEW bad \in BOOLEAN, EndJob(s, bad), step = "boundary",
           jobs[s].at = "running", bad \/ Len(jobs[s].got) = Len(Boundary(s)),
           UNCHANGED <<bucket, published, step, marker, found, listings, records>>
    PROVE  ArchiveInv'
<1>1. jobs \in [found -> Job] /\ found \in SUBSET Symbols
    BY DEF ArchiveInv, ArchiveTypes
<1>2. /\ jobs' \in [found -> Job] /\ \A t \in found : t # s => jobs'[t] = jobs[t]
      /\ jobs'[s].at = "ended" /\ jobs'[s].got = jobs[s].got /\ jobs'[s].failed = bad
    BY <1>1, EndedJob
<1>3. RecordsKept' /\ \A t \in found : t # s => ReadSound(t)'
    BY <1>2, OthersKept
<1>4. Boundary(s)' = Boundary(s)
    BY DEF Boundary, CompleteMonths
<1>5. ReadSound(s)
    BY DEF ArchiveInv
<1>6. ReadSound(s)'
    BY <1>2, <1>4, <1>5 DEF ReadSound
<1>7. ArchiveTypes' /\ ArchiveManifestSound'
    BY <1>2, VersionsKept DEF ArchiveInv, ArchiveTypes, ArchiveManifestSound, Symbols, Job
<1> QED BY <1>3, <1>6, <1>7, VersionsKept DEF ArchiveInv, Symbols, Months, Kinds

(* A listing that ends.                                                     *)
LEMMA ListStep == ArchiveInv /\ (\E s \in found : ListSymbol(s)) => ArchiveInv'
<1> SUFFICES ASSUME ArchiveInv, NEW s \in found, ListSymbol(s) PROVE ArchiveInv'
    OBVIOUS
<1> DEFINE no == FALSE
           yes == TRUE
<1> HIDE DEF no, yes
<1>1. /\ step = "listing" /\ UNCHANGED <<bucket, published, step, marker, found, records>>
      /\ \/ EndJob(s, no) /\ listings' = [listings EXCEPT ![s] = bucket[s]]
         \/ EndJob(s, yes) /\ UNCHANGED listings
    BY DEF ListSymbol, no, yes
<1>2. jobs \in [found -> Job] /\ found \in SUBSET Symbols /\ s \in Symbols /\ records = <<>>
    BY <1>1 DEF ArchiveInv, ArchiveTypes
<1>3. jobs' \in [found -> Job]
    BY <1>1, <1>2, EndedJob DEF no, yes
<1>4. /\ bucket \in Versions /\ listings \in Versions
      /\ \A t \in Symbols, m \in Months, k \in Kinds : listings[t][m][k] <= bucket[t][m][k]
    BY DEF ArchiveInv, ArchiveTypes
<1>5. /\ listings' \in Versions
      /\ \A t \in Symbols, m \in Months, k \in Kinds : listings'[t][m][k] <= bucket[t][m][k]
  <2>1. CASE UNCHANGED listings
      BY <1>4, <2>1
  <2>2. CASE listings' = [listings EXCEPT ![s] = bucket[s]]
    <3>1. bucket[s] \in [Months -> [Kinds -> Nat]]
        BY <1>2, <1>4 DEF Versions
    <3>2. listings' \in Versions
        BY <1>4, <2>2, <3>1 DEF Versions
    <3>3. \A t \in Symbols : listings'[t] = IF t = s THEN bucket[t] ELSE listings[t]
        BY <1>4, <2>2 DEF Versions
    <3>4. ASSUME NEW t \in Symbols, NEW m \in Months, NEW k \in Kinds
          PROVE  listings'[t][m][k] <= bucket[t][m][k]
      <4>1. bucket[t][m][k] \in Nat
          BY <1>4 DEF Versions
      <4>2. CASE t = s
          BY <3>3, <4>1, <4>2
      <4>3. CASE t # s
          BY <1>4, <3>3, <4>3
      <4> QED BY <4>2, <4>3
    <3> QED BY <3>2, <3>4
  <2> QED BY <1>1, <2>1, <2>2
<1>6. ArchiveTypes' /\ ArchiveManifestSound'
    BY <1>1, <1>2, <1>3, <1>4, <1>5
    DEF ArchiveTypes, ArchiveManifestSound, Symbols, Job, Versions, Months, Kinds
<1> QED BY <1>1, <1>2, <1>5, <1>6 DEF ArchiveInv, Symbols, Months, Kinds

(* An object is published: no listing and no record knows.                  *)
LEMMA PublishStep == ArchiveInv /\ Publish => ArchiveInv'
<1> SUFFICES ASSUME ArchiveInv, Publish PROVE ArchiveInv'
    OBVIOUS
<1>1. PICK s \in Symbols, m \in Months, k \in Kinds :
         bucket' = [bucket EXCEPT ![s][m][k] = bucket[s][m][k] + 1]
    BY DEF Publish
<1>2. /\ step # "manifest" /\ UNCHANGED <<step, marker, found, jobs, listings, records>>
    BY DEF Publish
<1>3. /\ bucket \in Versions /\ listings \in Versions
      /\ \A t \in Symbols, n \in Months, o \in Kinds : listings[t][n][o] <= bucket[t][n][o]
    BY DEF ArchiveInv, ArchiveTypes
<1>4. bucket' \in Versions
    BY <1>1, <1>3 DEF Versions
<1>5. \A t \in Symbols, n \in Months, o \in Kinds : bucket[t][n][o] <= bucket'[t][n][o]
    BY <1>1, <1>3 DEF Versions
<1>6. ASSUME NEW t \in Symbols, NEW n \in Months, NEW o \in Kinds
      PROVE  listings'[t][n][o] <= bucket'[t][n][o]
  <2>1. listings[t][n][o] \in Nat /\ bucket[t][n][o] \in Nat /\ bucket'[t][n][o] \in Nat
      BY <1>3, <1>4 DEF Versions
  <2> QED BY <1>2, <1>3, <1>5, <2>1
<1>7. ArchiveTypes'
    BY <1>2, <1>4 DEF ArchiveInv, ArchiveTypes, Versions, Symbols, Months, Kinds, Job
<1>8. ASSUME step = "boundary" PROVE RecordsKept' /\ \A t \in found' : ReadSound(t)'
  <2>1. RecordsKept /\ \A t \in found : ReadSound(t)
      BY <1>8 DEF ArchiveInv
  <2>2. \A t \in found : ReadSound(t)'
      BY <1>2, <2>1 DEF ReadSound, Boundary, CompleteMonths, Months, Kinds
  <2>3. \A t \in found : RecordOf(t)' = RecordOf(t)
      BY <1>2 DEF RecordOf, MissingMonths, IncompleteMonths, CompleteMonths, Months, Kinds
  <2>4. RecordsKept'
    <3>1. records' \in Seq(Record)'
        BY <1>2, <2>1 DEF RecordsKept, Record, Symbols
    <3>2. \A i \in 1 .. Len(records) : \E t \in found :
             jobs[t].at = "collected" /\ records[i] = RecordOf(t)'
        BY <2>1, <2>3 DEF RecordsKept
    <3> QED BY <1>2, <2>1, <3>1, <3>2 DEF RecordsKept
  <2> QED BY <1>2, <2>2, <2>4
<1> QED BY <1>2, <1>6, <1>7, <1>8 DEF ArchiveInv, ArchiveManifestSound, Symbols, Months, Kinds

(* A page of the root listing; the last one opens the pool of listings.     *)
LEMMA RootStep == ArchiveInv /\ ListRoot => ArchiveInv'
<1> SUFFICES ASSUME ArchiveInv, ListRoot PROVE ArchiveInv'
    OBVIOUS
<1>1. /\ step = "root" /\ UNCHANGED <<bucket, published, listings, records>>
      /\ found \in SUBSET Symbols /\ records = <<>>
    BY DEF ListRoot, ArchiveInv, ArchiveTypes
<1>2. /\ step' \in {"root", "listing", "raised"} /\ found' \in SUBSET Symbols
      /\ step' = "listing" => jobs' = [s \in found' |-> Future("queued")]
    BY <1>1 DEF ListRoot, Listed
<1>3. step' = "listing" => jobs' \in [found' -> Job]
    BY <1>2, QueuedJobs
<1>4. ArchiveTypes'
    BY <1>1, <1>2, <1>3 DEF ArchiveInv, ArchiveTypes, Versions, Symbols, Months, Kinds, Job
<1> QED BY <1>1, <1>2, <1>4, VersionsKept DEF ArchiveInv, ArchiveManifestSound, Symbols, Months, Kinds

(* An object is read: its month is complete in the listing, so the bucket   *)
(* has a version of it.                                                     *)
LEMMA FetchStep == ArchiveInv /\ (\E s \in found : FetchObject(s)) => ArchiveInv'
<1> SUFFICES ASSUME ArchiveInv, NEW s \in found, FetchObject(s) PROVE ArchiveInv'
    OBVIOUS
<1> DEFINE i == Len(jobs[s].got) + 1
           object == Boundary(s)[i]
           version == bucket[s][object.month][object.kind]
           got == Append(jobs[s].got, version)
           yes == TRUE
<1>1. /\ step = "boundary" /\ jobs[s].at = "running" /\ i <= Len(Boundary(s))
      /\ UNCHANGED <<bucket, published, step, marker, found, listings, records>>
      /\ \/ EndJob(s, yes)
         \/ PairMatches(got, i) /\ jobs' = [jobs EXCEPT ![s].got = got]
    BY DEF FetchObject
<1>2. jobs \in [found -> Job] /\ found \in SUBSET Symbols /\ s \in Symbols /\ jobs[s] \in Job
    BY <1>1 DEF ArchiveInv, ArchiveTypes
<1>3. CASE EndJob(s, yes)
  <2>1. yes \in BOOLEAN /\ yes
      OBVIOUS
  <2> HIDE DEF yes
  <2> QED BY <1>1, <1>3, <2>1, EndStep
<1>4. CASE PairMatches(got, i) /\ jobs' = [jobs EXCEPT ![s].got = got]
  <2> DEFINE old == jobs[s].got
  <2>1. /\ old \in Seq(Nat) /\ Len(old) <= Len(Boundary(s))
        /\ \A n \in 1 .. Len(old) : old[n] > 0 /\ (n % 2 = 0 => old[n - 1] = old[n])
    <3>1. ReadSound(s)
        BY <1>1 DEF ArchiveInv
    <3> QED BY <1>2, <3>1 DEF ReadSound, Job
  <2>2. i \in 1 .. Len(Boundary(s)) /\ Len(Boundary(s)) \in Nat
    <3>1. Boundary(s) \in Seq(Object)
        BY <1>2, BoundaryObjects
    <3>2. Len(Boundary(s)) \in Nat /\ Len(old) \in Nat
        BY <2>1, <3>1
    <3>3. i = Len(old) + 1 /\ i <= Len(Boundary(s))
        BY <1>1
    <3> HIDE DEF old
    <3> QED BY <3>2, <3>3
  <2>3. object \in Object /\ object.month \in CompleteMonths(s)
      BY <1>2, <2>2, BoundaryObjects
  <2> HIDE DEF object
  <2>4. version \in Nat /\ version > 0
    <3>1. object.month \in Months /\ object.kind \in Kinds /\ listings[s][object.month][object.kind] # 0
        BY <2>3 DEF Object, CompleteMonths
    <3>2. /\ bucket[s][object.month][object.kind] \in Nat /\ listings[s][object.month][object.kind] \in Nat
          /\ listings[s][object.month][object.kind] <= bucket[s][object.month][object.kind]
      <4>1. /\ bucket \in Versions /\ listings \in Versions
            /\ \A t \in Symbols, m \in Months, k \in Kinds : listings[t][m][k] <= bucket[t][m][k]
          BY DEF ArchiveInv, ArchiveTypes
      <4> QED BY <1>2, <3>1, <4>1 DEF Versions
    <3> QED BY <3>1, <3>2
  <2> HIDE DEF version
  <2>5. /\ got \in Seq(Nat) /\ Len(got) = i /\ got[i] = version
        /\ \A n \in 1 .. Len(old) : got[n] = old[n]
      BY <2>1, <2>4
  <2>6. i % 2 = 0 => got[i - 1] = got[i]
      BY <1>4 DEF PairMatches
  <2> HIDE DEF got
  <2>7. \A n \in 1 .. i : got[n] > 0 /\ (n % 2 = 0 => got[n - 1] = got[n])
    <3> SUFFICES ASSUME NEW n \in 1 .. i
                 PROVE  got[n] > 0 /\ (n % 2 = 0 => got[n - 1] = got[n])
        OBVIOUS
    <3>1. CASE n = i
        BY <2>4, <2>5, <2>6, <3>1
    <3>2. CASE n # i
      <4>1. n \in 1 .. Len(old)
          BY <2>1, <3>2
      <4>2. got[n] > 0
          BY <2>1, <2>5, <4>1
      <4>3. ASSUME n % 2 = 0 PROVE got[n - 1] = got[n]
        <5>1. n # 1
            BY <4>3
        <5>2. n - 1 \in 1 .. Len(old)
            BY <2>1, <4>1, <5>1
        <5> QED BY <2>1, <2>5, <4>1, <4>3, <5>2
      <4> QED BY <4>2, <4>3
    <3> QED BY <3>1, <3>2
  <2> DEFINE j == [jobs[s] EXCEPT !.got = got]
  <2>8. /\ jobs' = [jobs EXCEPT ![s] = j]
        /\ j \in Job /\ j.at = "running" /\ j.got = got
      BY <1>1, <1>2, <1>4, <2>5 DEF Job
  <2> HIDE DEF j, i
  <2>9. /\ jobs' \in [found -> Job] /\ \A t \in found : t # s => jobs'[t] = jobs[t]
        /\ jobs'[s].at = "running" /\ jobs'[s].got = got
      BY <1>2, <2>8
  <2>10. RecordsKept' /\ \A t \in found : t # s => ReadSound(t)'
      BY <1>1, <2>9, OthersKept
  <2>11. Boundary(s)' = Boundary(s)
    <3>1. listings' = listings
        BY <1>1
    <3> QED BY <3>1 DEF Boundary, CompleteMonths
  <2>12. ReadSound(s)'
      BY <2>2, <2>5, <2>7, <2>9, <2>11 DEF ReadSound
  <2>13. ArchiveTypes' /\ ArchiveManifestSound'
      BY <1>1, <2>9, VersionsKept DEF ArchiveInv, ArchiveTypes, ArchiveManifestSound, Symbols, Job
  <2> QED BY <1>1, <2>10, <2>12, <2>13, VersionsKept DEF ArchiveInv, Symbols, Months, Kinds
<1> QED BY <1>1, <1>3, <1>4

(* Every object of a boundary has been read.                                *)
LEMMA FinishStep == ArchiveInv /\ (\E s \in found : FinishSymbol(s)) => ArchiveInv'
<1> SUFFICES ASSUME ArchiveInv, NEW s \in found, FinishSymbol(s) PROVE ArchiveInv'
    OBVIOUS
<1> DEFINE no == FALSE
<1>1. no \in BOOLEAN /\ EndJob(s, no) /\ step = "boundary" /\ jobs[s].at = "running"
      /\ Len(jobs[s].got) = Len(Boundary(s))
      /\ UNCHANGED <<bucket, published, step, marker, found, listings, records>>
    BY DEF FinishSymbol
<1> HIDE DEF no
<1> QED BY <1>1, EndStep

(* A future is collected; in the second pool its record joins the list.     *)
LEMMA CollectStep == ArchiveInv /\ (\E s \in found : Collect(s)) => ArchiveInv'
<1> SUFFICES ASSUME ArchiveInv, NEW s \in found, Collect(s) PROVE ArchiveInv'
    OBVIOUS
<1>1. /\ step \in {"listing", "boundary"} /\ jobs[s].at = "ended"
      /\ jobs' = [jobs EXCEPT ![s].at = "collected"]
      /\ records' = IF step = "boundary" THEN Append(records, RecordOf(s)) ELSE records
      /\ UNCHANGED <<bucket, published, step, marker, found, listings>>
    BY DEF Collect
<1>2. jobs \in [found -> Job] /\ found \in SUBSET Symbols
    BY <1>1 DEF ArchiveInv, ArchiveTypes
<1>3. /\ jobs' \in [found -> Job] /\ \A t \in found : t # s => jobs'[t] = jobs[t]
      /\ jobs'[s].at = "collected" /\ jobs'[s].got = jobs[s].got /\ jobs'[s].failed = jobs[s].failed
    BY <1>1, <1>2, MovedJob
<1>4. ArchiveTypes' /\ ArchiveManifestSound'
    BY <1>1, <1>3, VersionsKept DEF ArchiveInv, ArchiveTypes, ArchiveManifestSound, Symbols, Job
<1>5. step = "listing" => records' = <<>>
    BY <1>1 DEF ArchiveInv
<1>6. ASSUME step = "boundary" PROVE RecordsKept' /\ \A t \in found : ReadSound(t)'
  <2>1. RecordsKept /\ \A t \in found : ReadSound(t)
      BY <1>6 DEF ArchiveInv
  <2>2. listings' = listings
      BY <1>1
  <2>3. \A t \in found : Boundary(t)' = Boundary(t)
      BY <2>2 DEF Boundary, CompleteMonths
  <2>4. \A t \in found : /\ jobs'[t].got = jobs[t].got /\ jobs'[t].failed = jobs[t].failed
                         /\ jobs'[t].at \in {"ended", "collected"} =>
                               jobs[t].at \in {"ended", "collected"}
      BY <1>1, <1>3
  <2>5. \A t \in found : ReadSound(t)'
    <3> SUFFICES ASSUME NEW t \in found PROVE ReadSound(t)'
        OBVIOUS
    <3>1. ReadSound(t) /\ Boundary(t)' = Boundary(t) /\ jobs'[t].got = jobs[t].got
        BY <2>1, <2>3, <2>4
    <3>2. /\ jobs'[t].failed = jobs[t].failed
          /\ jobs'[t].at \in {"ended", "collected"} => jobs[t].at \in {"ended", "collected"}
        BY <2>4
    <3> QED BY <3>1, <3>2 DEF ReadSound
  <2>6. \A t \in found : RecordOf(t)' = RecordOf(t)
      BY <2>2, <2>4 DEF RecordOf, MissingMonths, IncompleteMonths, CompleteMonths
  <2> DEFINE n == Len(records)
             new == RecordOf(s)
  <2>7. records \in Seq(Record) /\ new \in Record /\ new.symbol = s
      BY <1>2, <2>1, RecordOfType DEF RecordsKept
  <2>8. records' = Append(records, new)
      BY <1>1, <1>6
  <2>9. /\ records' \in Seq(Record) /\ Len(records') = n + 1 /\ records'[n + 1] = new
        /\ \A i \in 1 .. n : records'[i] = records[i]
    <3> HIDE DEF new, Record
    <3> QED BY <2>7, <2>8
  <2>10. /\ \A i \in 1 .. n : \E t \in found :
               jobs[t].at = "collected" /\ records[i] = RecordOf(t)
         /\ \A i, j \in 1 .. n : records[i].symbol = records[j].symbol => i = j
         /\ \A t \in found : jobs[t].at = "collected" => \E i \in 1 .. n : records[i].symbol = t
      BY <2>1 DEF RecordsKept
  <2>11. n \in Nat /\ \A i \in 1 .. n : records[i].symbol # s
    <3>1. \A t \in found : RecordOf(t).symbol = t
        BY DEF RecordOf
    <3> QED BY <1>1, <2>7, <2>10, <3>1
  <2>12. RecordOf(s)' = new
      BY <2>6
  <2> HIDE DEF new, n
  <2>13. \A i \in 1 .. n + 1 : i \in 1 .. n \/ i = n + 1
      BY <2>11
  <2>14. \A i \in 1 .. n + 1 : \E t \in found :
            jobs'[t].at = "collected" /\ records'[i] = RecordOf(t)'
    <3> SUFFICES ASSUME NEW i \in 1 .. n + 1
                 PROVE  \E t \in found : jobs'[t].at = "collected" /\ records'[i] = RecordOf(t)'
        OBVIOUS
    <3>1. CASE i \in 1 .. n
      <4>1. PICK t \in found : jobs[t].at = "collected" /\ records[i] = RecordOf(t)
          BY <2>10, <3>1
      <4>2. t # s
          BY <1>1, <4>1
      <4>3. records'[i] = records[i] /\ jobs'[t] = jobs[t] /\ RecordOf(t)' = RecordOf(t)
          BY <1>3, <2>6, <2>9, <3>1, <4>2
      <4> QED BY <4>1, <4>3
    <3>2. CASE i = n + 1
        BY <1>3, <2>9, <2>12, <3>2
    <3> QED BY <2>13, <3>1, <3>2
  <2>15. \A i, j \in 1 .. n + 1 : records'[i].symbol = records'[j].symbol => i = j
    <3> SUFFICES ASSUME NEW i \in 1 .. n + 1, NEW j \in 1 .. n + 1,
                        records'[i].symbol = records'[j].symbol
                 PROVE  i = j
        OBVIOUS
    <3>1. CASE i \in 1 .. n /\ j \in 1 .. n
        BY <2>9, <2>10, <3>1
    <3>2. CASE i \in 1 .. n /\ j = n + 1
        BY <2>7, <2>9, <2>11, <3>2
    <3>3. CASE i = n + 1 /\ j \in 1 .. n
        BY <2>7, <2>9, <2>11, <3>3
    <3>4. CASE i = n + 1 /\ j = n + 1
        BY <3>4
    <3> QED BY <2>13, <3>1, <3>2, <3>3, <3>4
  <2>16. \A t \in found : jobs'[t].at = "collected" => \E i \in 1 .. n + 1 : records'[i].symbol = t
    <3> SUFFICES ASSUME NEW t \in found, jobs'[t].at = "collected"
                 PROVE  \E i \in 1 .. n + 1 : records'[i].symbol = t
        OBVIOUS
    <3>1. CASE t = s
      <4>1. n + 1 \in 1 .. n + 1
          BY <2>11
      <4> QED BY <2>7, <2>9, <3>1, <4>1
    <3>2. CASE t # s
      <4>1. PICK i \in 1 .. n : records[i].symbol = t
          BY <1>3, <2>10, <3>2
      <4>2. i \in 1 .. n + 1
          BY <2>11
      <4> QED BY <2>9, <4>1, <4>2
    <3> QED BY <3>1, <3>2
  <2>17. records' \in Seq(Record)'
      BY <2>9 DEF Record, Symbols
  <2>18. Len(records') = n + 1 /\ found' = found
      BY <1>1, <2>9
  <2>19. RecordsKept'
    <3> HIDE DEF Record
    <3> QED BY <2>14, <2>15, <2>16, <2>17, <2>18 DEF RecordsKept
  <2> QED BY <2>5, <2>19
<1> QED BY <1>1, <1>4, <1>5, <1>6, VersionsKept DEF ArchiveInv, Symbols, Months, Kinds

(* The second pool opens with no record and nothing read.                   *)
LEMMA EndListingsStep == ArchiveInv /\ EndListings => ArchiveInv'
<1> SUFFICES ASSUME ArchiveInv, EndListings PROVE ArchiveInv'
    OBVIOUS
<1>1. /\ step = "listing" /\ records = <<>> /\ found \in SUBSET Symbols
      /\ UNCHANGED <<bucket, published, marker, found, listings, records>>
      /\ \/ step' = "raised"
         \/ step' = "boundary" /\ jobs' = [s \in found |-> Future("queued")]
    BY DEF EndListings, ArchiveInv, ArchiveTypes
<1>2. ASSUME step' = "boundary"
      PROVE  jobs' \in [found -> Job] /\ \A s \in found : jobs'[s].at = "queued" /\ jobs'[s].got = <<>>
    BY <1>1, <1>2, QueuedJobs
<1>3. ArchiveTypes' /\ ArchiveManifestSound'
    BY <1>1, <1>2, VersionsKept DEF ArchiveInv, ArchiveTypes, ArchiveManifestSound, Symbols, Job
<1>4. ASSUME step' = "boundary" PROVE RecordsKept' /\ \A s \in found : ReadSound(s)'
  <2>1. RecordsKept'
    <3>1. records' = <<>> /\ found' = found
        BY <1>1
    <3>2. records' \in Seq(Record)' /\ Len(records') = 0
        BY <3>1
    <3> QED BY <1>2, <1>4, <3>1, <3>2 DEF RecordsKept
  <2>2. ASSUME NEW s \in found PROVE ReadSound(s)'
    <3>1. Len(Boundary(s)) \in Nat
      <4>1. s \in Symbols
          BY <1>1
      <4> QED BY <4>1, BoundaryObjects
    <3>2. Boundary(s)' = Boundary(s)
      <4>1. listings' = listings
          BY <1>1
      <4> QED BY <4>1 DEF Boundary, CompleteMonths
    <3>3. jobs'[s].at = "queued" /\ jobs'[s].got = <<>>
        BY <1>2, <1>4
    <3> QED BY <3>1, <3>2, <3>3 DEF ReadSound
  <2> QED BY <2>1, <2>2
<1> QED BY <1>1, <1>3, <1>4, VersionsKept DEF ArchiveInv, Symbols, Months, Kinds



(* The records sorted by symbol: the same records, one per symbol still, in *)
(* the order of the symbols.                                                *)
LEMMA EndAuditStep == ArchiveInv /\ EndAudit => ArchiveInv'
<1> SUFFICES ASSUME ArchiveInv, EndAudit PROVE ArchiveInv'
    OBVIOUS
<1>1. /\ step = "boundary" /\ \A s \in found : jobs[s].at = "collected"
      /\ UNCHANGED <<bucket, published, marker, found, jobs, listings>>
    BY DEF EndAudit, Collected
<1>2. /\ RecordsKept /\ \A s \in found : ReadSound(s)
      /\ jobs \in [found -> Job] /\ found \in SUBSET Symbols
    BY <1>1 DEF ArchiveInv, ArchiveTypes
<1>3. CASE step' = "raised"
  <2>1. ArchiveTypes' /\ ArchiveManifestSound'
      BY <1>1, <1>3, VersionsKept DEF ArchiveInv, ArchiveTypes, ArchiveManifestSound, Symbols, Job
  <2> QED BY <1>1, <1>3, <2>1, VersionsKept DEF ArchiveInv, Symbols, Months, Kinds
<1> DEFINE n == Len(records)
           R == {records[j] : j \in 1 .. n}
           num == [j \in 1 .. n |-> records[j].symbol]
           rank == [j \in 1 .. n |-> Cardinality({k \in 1 .. n : num[k] < num[j]})]
           sorted == [i \in 1 .. n |-> CHOOSE r \in R :
                        Cardinality({j \in 1 .. n : records[j].symbol < r.symbol}) = i - 1]
<1>4. CASE /\ step' = "manifest" /\ records' = sorted
           /\ ~(Cardinality(InSample) < MinimumSymbols)
  <2>1. n \in Nat /\ DOMAIN records = 1 .. n /\ records \in Seq(Record)
      BY <1>2 DEF RecordsKept
  <2>2. \A j \in 1 .. n : records[j] \in Record /\ records[j].symbol \in Symbols
    <3>1. \A j \in 1 .. n : records[j] \in Record
      <4> HIDE DEF Record
      <4> QED BY <2>1
    <3>2. \A r \in Record : r.symbol \in Symbols
        BY DEF Record
    <3> QED BY <3>1, <3>2
  <2>3. num \in [1 .. n -> Int] /\ \A i, j \in 1 .. n : num[i] = num[j] => i = j
    <3>1. \A i, j \in 1 .. n : records[i].symbol = records[j].symbol => i = j
        BY <1>2 DEF RecordsKept
    <3>2. \A j \in 1 .. n : records[j].symbol \in Int
        BY <2>2 DEF Symbols
    <3> QED BY <3>1, <3>2
  <2>4. /\ rank \in [1 .. n -> 0 .. n - 1]
        /\ \A i, j \in 1 .. n : num[i] < num[j] <=> rank[i] < rank[j]
        /\ \A i, j \in 1 .. n : rank[i] = rank[j] => i = j
        /\ \A place \in 0 .. n - 1 : \E j \in 1 .. n : rank[j] = place
    <3> HIDE DEF n, num
    <3> QED BY <2>1, <2>3, RanksArePlaces
  <2>5. \A j \in 1 .. n :
           rank[j] = Cardinality({k \in 1 .. n : records[k].symbol < records[j].symbol})
    <3> SUFFICES ASSUME NEW j \in 1 .. n
                 PROVE  rank[j] = Cardinality({k \in 1 .. n : records[k].symbol < records[j].symbol})
        OBVIOUS
    <3>1. {k \in 1 .. n : num[k] < num[j]} = {k \in 1 .. n : records[k].symbol < records[j].symbol}
        OBVIOUS
    <3>2. rank[j] = Cardinality({k \in 1 .. n : num[k] < num[j]})
        OBVIOUS
    <3> QED BY <3>1, <3>2
  <2> HIDE DEF rank
  <2>6. ASSUME NEW i \in 1 .. n
        PROVE  \E j \in 1 .. n : rank[j] = i - 1 /\ records'[i] = records[j]
    <3> DEFINE sitsAt(r) == Cardinality({k \in 1 .. n : records[k].symbol < r.symbol}) = i - 1
    <3>1. i - 1 \in 0 .. n - 1
        BY <2>1
    <3>2. PICK j \in 1 .. n : rank[j] = i - 1
        BY <2>4, <3>1
    <3>3. records[j] \in R /\ sitsAt(records[j])
        BY <2>5, <3>2
    <3>4. records'[i] = CHOOSE r \in R : sitsAt(r)
        BY <1>4
    <3> HIDE DEF R, sitsAt
    <3>5. records'[i] \in R /\ sitsAt(records'[i])
        BY <3>3, <3>4, Zenon
    <3>6. PICK l \in 1 .. n : records'[i] = records[l]
        BY <3>5 DEF R
    <3>7. rank[l] = i - 1
        BY <2>5, <3>5, <3>6 DEF sitsAt
    <3> QED BY <3>6, <3>7
  <2>7. ASSUME NEW j \in 1 .. n
        PROVE  rank[j] + 1 \in 1 .. n /\ records'[rank[j] + 1] = records[j]
    <3>1. rank[j] \in 0 .. n - 1
        BY <2>4
    <3>2. rank[j] + 1 \in 1 .. n /\ (rank[j] + 1) - 1 = rank[j]
        BY <2>1, <3>1
    <3>3. PICK l \in 1 .. n : rank[l] = (rank[j] + 1) - 1 /\ records'[rank[j] + 1] = records[l]
        BY <2>6, <3>2
    <3> QED BY <2>4, <3>2, <3>3
  <2>8. records' \in Seq(R) /\ Len(records') = n /\ DOMAIN records' = 1 .. n
    <3>1. \A i \in 1 .. n : records'[i] \in R
        BY <2>6
    <3>2. records' \in [1 .. n -> R]
        BY <1>4, <3>1
    <3> HIDE DEF R, sorted, n
    <3> QED BY <2>1, <3>2
  <2>9. \A s \in found : \E i \in 1 .. n : records[i].symbol = s
      BY <1>1, <1>2 DEF RecordsKept
  <2>10. \A s \in found : RecordOf(s).symbol = s
      BY DEF RecordOf
  <2>11. \A i \in 1 .. n : records[i].symbol \in found /\ records[i] = RecordOf(records[i].symbol)
      BY <1>2, <2>10 DEF RecordsKept
  <2> HIDE DEF R, sorted, n, num
  <2>12. {records'[i].symbol : i \in 1 .. n} = found
    <3>1. \A i \in 1 .. n : records'[i].symbol \in found
        BY <2>6, <2>11
    <3>2. \A s \in found : \E i \in 1 .. n : records'[i].symbol = s
        BY <2>7, <2>9
    <3> QED BY <3>1, <3>2
  <2>13. n = Cardinality(found)
    <3> DEFINE f == [i \in 1 .. n |-> records[i].symbol]
    <3>1. f \in [1 .. n -> found] /\ \A i, j \in 1 .. n : f[i] = f[j] => i = j
        BY <1>2, <2>11 DEF RecordsKept, n
    <3>2. \A s \in found : \E i \in 1 .. n : f[i] = s
        BY <2>9
    <3>3. f \in Bijection(1 .. n, found)
        BY <3>1, <3>2 DEF Bijection, Injection, Surjection, IsInjective
    <3>4. ExistsBijection(1 .. n, found)
        BY <3>3 DEF ExistsBijection
    <3>5. IsFiniteSet(1 .. n) /\ Cardinality(1 .. n) = n
        BY <2>1, FS_Interval
    <3> QED BY <3>4, <3>5, FS_Bijection
  <2>14. \A i, j \in 1 .. n : i < j => records'[i].symbol < records'[j].symbol
    <3> SUFFICES ASSUME NEW i \in 1 .. n, NEW j \in 1 .. n, i < j
                 PROVE  records'[i].symbol < records'[j].symbol
        OBVIOUS
    <3>1. PICK k \in 1 .. n : rank[k] = i - 1 /\ records'[i] = records[k]
        BY <2>6
    <3>2. PICK l \in 1 .. n : rank[l] = j - 1 /\ records'[j] = records[l]
        BY <2>6
    <3>3. rank[k] < rank[l]
        BY <2>1, <3>1, <3>2
    <3> QED BY <2>4, <3>1, <3>2, <3>3 DEF num
  <2> DEFINE valid(r) == r.status \in {"boundaries_valid", "catalog_gaps"}
  <2>15. /\ InSample = {i \in 1 .. n : valid(records[i])}
         /\ InSample' = {i \in 1 .. n : valid(records'[i])}
      BY <2>1, <2>8 DEF InSample
  <2>16. Cardinality(InSample') = Cardinality(InSample) /\ Cardinality(InSample) \in Nat
    <3> DEFINE f == [i \in InSample |-> rank[i] + 1]
    <3>1. f \in [InSample -> InSample']
        BY <2>7, <2>15
    <3>2. \A i, j \in InSample : f[i] = f[j] => i = j
        BY <2>4, <2>15
    <3>3. \A k \in InSample' : \E i \in InSample : f[i] = k
      <4> SUFFICES ASSUME NEW k \in InSample' PROVE \E i \in InSample : f[i] = k
          OBVIOUS
      <4>1. k \in 1 .. n /\ valid(records'[k])
          BY <2>15
      <4>2. PICK i \in 1 .. n : rank[i] = k - 1 /\ records'[k] = records[i]
          BY <2>6, <4>1
      <4> QED BY <2>15, <4>1, <4>2
    <3> HIDE DEF f
    <3>4. f \in Bijection(InSample, InSample')
        BY <3>1, <3>2, <3>3 DEF Bijection, Injection, Surjection, IsInjective
    <3>5. ExistsBijection(InSample, InSample')
        BY <3>4 DEF ExistsBijection
    <3>6. IsFiniteSet(InSample)
        BY <2>1, <2>15, FS_Interval, FS_Subset
    <3> QED BY <3>5, <3>6, FS_Bijection, FS_CardinalityType
  <2>17. ASSUME NEW i \in InSample'
         PROVE  LET r == records'[i]
                    months == CompleteMonths(r.symbol)
                IN  /\ months # {} /\ Len(r.read) = IF Cardinality(months) = 1 THEN 2 ELSE 4
                    /\ \A k \in {x \in DOMAIN r.read : x % 2 = 0} :
                         r.read[k - 1] = r.read[k] /\ r.read[k] > 0
    <3>1. i \in 1 .. n /\ valid(records'[i])
        BY <2>15
    <3>2. PICK j \in 1 .. n : records'[i] = records[j]
        BY <2>6, <3>1
    <3>3. PICK s \in found : s = records[j].symbol
        BY <2>11
    <3>4. records'[i] = RecordOf(s) /\ s \in Symbols
        BY <1>2, <2>11, <3>2, <3>3
    <3>5. /\ RecordOf(s).symbol = s /\ RecordOf(s).read = jobs[s].got
          /\ ~jobs[s].failed /\ CompleteMonths(s) # {}
        BY <1>2, <3>1, <3>4, RecordOfType
    <3>6. /\ jobs[s].got \in Seq(Nat) /\ Len(jobs[s].got) = Len(Boundary(s))
          /\ \A k \in 1 .. Len(jobs[s].got) :
                jobs[s].got[k] > 0 /\ (k % 2 = 0 => jobs[s].got[k - 1] = jobs[s].got[k])
        BY <1>1, <1>2, <3>5 DEF ReadSound, Job
    <3>7. Len(Boundary(s)) = IF Cardinality(CompleteMonths(s)) = 1 THEN 2 ELSE 4
        BY <3>4, <3>5, BoundaryObjects
    <3>8. DOMAIN jobs[s].got = 1 .. Len(jobs[s].got)
        BY <3>6
    <3> QED BY <3>4, <3>5, <3>6, <3>7, <3>8
  <2>18. \A s : CompleteMonths(s)' = CompleteMonths(s)
    <3>1. listings' = listings
        BY <1>1
    <3> QED BY <3>1 DEF CompleteMonths
  <2>19. MinimumSymbols \in Nat
      BY ArchiveAssumption
  <2>20. ArchiveManifestSound'
      BY <1>1, <1>4, <2>8, <2>12, <2>13, <2>14, <2>16, <2>17, <2>18, <2>19 DEF ArchiveManifestSound
  <2>21. ArchiveTypes'
      BY <1>1, <1>4, VersionsKept DEF ArchiveInv, ArchiveTypes, Symbols, Job
  <2> QED BY <1>1, <1>4, <2>20, <2>21, VersionsKept DEF ArchiveInv, Symbols, Months, Kinds
<1>5. DOMAIN records = 1 .. n
    BY <1>2 DEF RecordsKept
<1>6. EndAudit => step' = "raised" \/ (step' = "manifest" /\ records' = sorted /\ ~(Cardinality(InSample) < MinimumSymbols))
    BY <1>5 DEF EndAudit
<1> QED BY <1>3, <1>4, <1>6

(* The invariant holds before the first page.                               *)
LEMMA ArchiveInvInit == ArchiveInit(Versions) => ArchiveInv
<1> SUFFICES ASSUME ArchiveInit(Versions) PROVE ArchiveInv
    OBVIOUS
<1>1. /\ bucket \in Versions /\ step = "root" /\ found = {} /\ records = <<>>
      /\ listings = [s \in Symbols |-> NothingListed]
    BY DEF ArchiveInit
<1>2. NothingListed \in [Months -> [Kinds -> Nat]]
      /\ \A m \in Months, k \in Kinds : NothingListed[m][k] = 0
    BY DEF NothingListed, Kinds
<1>3. listings \in Versions /\ \A s \in Symbols, m \in Months, k \in Kinds : listings[s][m][k] = 0
  <2> HIDE DEF NothingListed
  <2> QED BY <1>1, <1>2 DEF Versions
<1>4. \A s \in Symbols, m \in Months, k \in Kinds : bucket[s][m][k] \in Nat
    BY <1>1 DEF Versions
<1> QED BY <1>1, <1>3, <1>4 DEF ArchiveInv, ArchiveTypes, ArchiveManifestSound

(* ArchiveManifestSound, for every bucket, every number of symbols, months  *)
(* and workers, every page size and everything published meanwhile.         *)
THEOREM ManifestIsSound == ArchiveSpec => []ArchiveManifestSound
<1>1. ArchiveInit(Versions) => ArchiveInv
    BY ArchiveInvInit
<1>2. ArchiveInv /\ [ArchiveNext]_archiveVars => ArchiveInv'
  <2> SUFFICES ASSUME ArchiveInv, [ArchiveNext]_archiveVars PROVE ArchiveInv'
      OBVIOUS
  <2>1. CASE Publish
      BY <2>1, PublishStep
  <2>2. CASE ListRoot
      BY <2>2, RootStep
  <2>3. CASE StartJob
      BY <2>3, StartStep
  <2>4. CASE EndListings
      BY <2>4, EndListingsStep
  <2>5. CASE EndAudit
      BY <2>5, EndAuditStep
  <2>6. CASE \E s \in found : ListSymbol(s)
      BY <2>6, ListStep
  <2>7. CASE \E s \in found : FetchObject(s)
      BY <2>7, FetchStep
  <2>8. CASE \E s \in found : FinishSymbol(s)
      BY <2>8, FinishStep
  <2>9. CASE \E s \in found : Collect(s)
      BY <2>9, CollectStep
  <2>10. CASE UNCHANGED archiveVars
    <3>1. UNCHANGED <<bucket, published, step, marker, found, jobs, listings, records>>
        BY <2>10 DEF archiveVars
    <3>2. \A s : /\ Boundary(s)' = Boundary(s) /\ CompleteMonths(s)' = CompleteMonths(s)
                 /\ MissingMonths(s)' = MissingMonths(s) /\ IncompleteMonths(s)' = IncompleteMonths(s)
      <4>1. listings' = listings
          BY <3>1
      <4> QED BY <4>1 DEF Boundary, CompleteMonths, MissingMonths, IncompleteMonths
    <3>3. \A s : RecordOf(s)' = RecordOf(s) /\ (ReadSound(s)' <=> ReadSound(s))
        BY <3>1, <3>2 DEF RecordOf, ReadSound
    <3>4. RecordsKept' <=> RecordsKept
      <4>1. Record' = Record
          BY <3>1 DEF Record, Symbols
      <4>2. records' = records /\ found' = found /\ jobs' = jobs
          BY <3>1
      <4>3. \A s : RecordOf(s)' = RecordOf(s)
          BY <3>3
      <4>4. (records \in Seq(Record))' <=> records \in Seq(Record)
          BY <4>1, <4>2
      <4>5. (\A i \in 1 .. Len(records) : \E s \in found :
                jobs[s].at = "collected" /\ records[i] = RecordOf(s))'
            <=> \A i \in 1 .. Len(records) : \E s \in found :
                   jobs[s].at = "collected" /\ records[i] = RecordOf(s)
          BY <4>2, <4>3
      <4> QED BY <4>2, <4>4, <4>5, Zenon DEF RecordsKept
    <3>5. ArchiveTypes'
        BY <3>1, VersionsKept DEF ArchiveInv, ArchiveTypes, Symbols, Job
    <3>6. InSample' = InSample
        BY <3>1 DEF InSample
    <3>7. ArchiveManifestSound'
        BY <3>1, <3>2, <3>6 DEF ArchiveInv, ArchiveManifestSound
    <3> QED BY <3>1, <3>3, <3>4, <3>5, <3>7, VersionsKept DEF ArchiveInv, Symbols, Months, Kinds
  <2> QED BY <2>1, <2>2, <2>3, <2>4, <2>5, <2>6, <2>7, <2>8, <2>9, <2>10 DEF ArchiveNext
<1>3. ArchiveInv => ArchiveManifestSound
    BY DEF ArchiveInv
<1>4. ArchiveSpec => ArchiveInit(Versions) /\ [][ArchiveNext]_archiveVars
    BY DEF ArchiveSpec, Versions
<1> QED BY <1>1, <1>2, <1>3, <1>4, PTL
=============================================================================
