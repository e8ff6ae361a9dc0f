--------------------------- MODULE SessionProofs ----------------------------
(*****************************************************************************)
(* The event loops over daily sessions: mean reversion, rotation, and their  *)
(* clean-room evaluations.  One section for each module.                     *)
(*****************************************************************************)
EXTENDS JointSessions, ReversionPeriod, RotationPeriod, RotationPath,
        ReversionPath, CleanReversion, CleanRotation, TLAPS,
        FiniteSetTheorems, WellFoundedInduction

(* A set of naturals has a least element.                                   *)
LEMMA LeastNatural ==
    ASSUME NEW T \in SUBSET Nat, T # {} PROVE \E x \in T : \A y \in T : x <= y
<1> DEFINE R == {pair \in Nat \X Nat : pair[1] < pair[2]}
<1>1. IsWellFoundedOn(R, Nat)
    BY NatLessThanWellFounded, Zenon DEF OpToRel
<1>2. \E x \in T : \A y \in T : ~ (<<y, x>> \in R)
    BY <1>1, WFMin, Zenon
<1>3. \A x, y \in T : ~ (<<y, x>> \in R) => x <= y
    OBVIOUS
<1> QED BY <1>2, <1>3

(* A set of integers with a bound has a largest element.                    *)
LEMMA LargestInteger ==
    ASSUME NEW T \in SUBSET Int, T # {}, NEW n \in Int, \A y \in T : y <= n
    PROVE  \E x \in T : \A y \in T : y <= x
<1> DEFINE U == {n - y : y \in T}
<1>0. \A y \in T : n - y \in Nat
    OBVIOUS
<1>1. U \in SUBSET Nat /\ U # {}
    BY <1>0
<1>2. PICK u \in U : \A v \in U : u <= v
    BY <1>1, LeastNatural
<1>3. PICK x \in T : u = n - x
    OBVIOUS
<1>4. \A y \in T : u <= n - y
    BY <1>2
<1>5. \A y \in T : y <= x
    BY <1>3, <1>4
<1> QED BY <1>5

-----------------------------------------------------------------------------
(*****************************************************************************)
(* The calendar.  The recursive run of complete sessions exists because its  *)
(* equation has an explicit solution, the distance from the latest break; a  *)
(* session that breaks the equation first cannot exist.  From it: which      *)
(* sessions have a fill, how fills are numbered, and which one is the last.  *)
(*****************************************************************************)

(* The counter of the sessions since the last break exists: the distance    *)
(* from the latest break.                                                   *)
LEMMA CounterExists ==
    ASSUME NEW n \in Nat, NEW Breaks \in SUBSET (0 .. n), 0 \in Breaks
    PROVE  \E run : /\ run = [d \in 0 .. n |-> IF d \in Breaks THEN 0 ELSE run[d - 1] + 1]
                    /\ run \in [0 .. n -> Nat]
<1> DEFINE D == 0 .. n
           Latest(d, e) == e \in Breaks /\ e <= d /\ \A f \in Breaks : f <= d => f <= e
           g == [d \in D |-> d - (CHOOSE e \in D : Latest(d, e))]
<1>1. \A d \in D : \E e \in D : Latest(d, e)
  <2> SUFFICES ASSUME NEW d \in D PROVE \E e \in D : Latest(d, e)
      OBVIOUS
  <2> DEFINE Before == {e \in Breaks : e <= d}
  <2>1. Before \in SUBSET Int /\ d \in Int /\ \A y \in Before : y <= d
    <3>1. \A y \in Before : y <= d
        OBVIOUS
    <3>2. d \in Int /\ Breaks \in SUBSET Int
      <4>1. \A x \in 0 .. n : x \in Int
          OBVIOUS
      <4> QED BY <4>1
    <3>3. Before \subseteq Breaks
        OBVIOUS
    <3> HIDE DEF Before
    <3> QED BY <3>1, <3>2, <3>3
  <2>0. 0 \in Before
      OBVIOUS
  <2> HIDE DEF Before
  <2>2. \E e \in Before : \A f \in Before : f <= e
      BY <2>0, <2>1, LargestInteger
  <2> QED BY <2>2 DEF Before
<1>2. \A d, e, f \in D : Latest(d, e) /\ Latest(d, f) => e = f
  <2> SUFFICES ASSUME NEW d \in D, NEW e \in D, NEW f \in D, Latest(d, e), Latest(d, f)
               PROVE  e = f
      OBVIOUS
  <2>1. e <= f /\ f <= e
      OBVIOUS
  <2> QED BY <2>1
<1>3. \A d, e \in D : Latest(d, e) => g[d] = d - e
  <2> SUFFICES ASSUME NEW d \in D, NEW e \in D, Latest(d, e) PROVE g[d] = d - e
      OBVIOUS
  <2> DEFINE c == CHOOSE x \in D : Latest(d, x)
  <2> HIDE DEF Latest
  <2>1. c \in D /\ Latest(d, c)
      OBVIOUS
  <2>2. c = e
      BY <1>2, <2>1
  <2>3. g[d] = d - c
      OBVIOUS
  <2> QED BY <2>2, <2>3
<1>4. \A d \in D : g[d] \in Nat /\ g[d] = IF d \in Breaks THEN 0 ELSE g[d - 1] + 1
  <2> SUFFICES ASSUME NEW d \in D
               PROVE  g[d] \in Nat /\ g[d] = IF d \in Breaks THEN 0 ELSE g[d - 1] + 1
      OBVIOUS
  <2> HIDE DEF g
  <2>1. CASE d \in Breaks
    <3>1. Latest(d, d)
        BY <2>1
    <3> QED BY <1>3, <2>1, <3>1
  <2>2. CASE d \notin Breaks
    <3>1. d - 1 \in D /\ d \in Int
        BY <2>2
    <3>2. PICK e \in D : Latest(d - 1, e)
        BY <1>1, <3>1
    <3>3. \A f \in Breaks : f <= d <=> f <= d - 1
        BY <2>2
    <3>4. Latest(d, e)
        BY <3>2, <3>3
    <3>5. e <= d - 1
        BY <3>2
    <3> HIDE DEF Latest
    <3>6. g[d] = d - e /\ g[d - 1] = d - 1 - e
        BY <1>3, <3>1, <3>2, <3>4
    <3> QED BY <2>2, <3>1, <3>5, <3>6
  <2> QED BY <2>1, <2>2
<1>5. g = [d \in D |-> IF d \in Breaks THEN 0 ELSE g[d - 1] + 1]
  <2> DEFINE h == [d \in D |-> IF d \in Breaks THEN 0 ELSE g[d - 1] + 1]
  <2>2. g = [d \in D |-> g[d]] /\ h = [d \in D |-> h[d]]
      OBVIOUS
  <2>1. \A d \in D : g[d] = h[d]
    <3> HIDE DEF g
    <3> QED BY <1>4
  <2> QED BY <2>1, <2>2, Zenon
<1>6. g \in [D -> Nat]
  <2>1. g = [d \in D |-> g[d]]
      OBVIOUS
  <2> HIDE DEF g
  <2> QED BY <1>4, <2>1
<1> QED BY <1>5, <1>6

(* The runs of complete sessions.                                           *)
LEMMA CompleteRunEquation ==
    ASSUME NEW m
    PROVE  LET run == CompleteRun(m)
           IN  /\ \A s \in 0 .. Days : run[s] \in Nat
               /\ \A s \in 0 .. Days :
                     run[s] = IF s = 0 \/ ~Complete(m, s) THEN 0 ELSE run[s - 1] + 1
<1> DEFINE D == 0 .. Days
           Breaks == {s \in D : s = 0 \/ ~Complete(m, s)}
           Equation(run) == run = [s \in D |-> IF s \in Breaks THEN 0 ELSE run[s - 1] + 1]
<1>1. Days \in Nat
    BY CalendarAssumption
<1>2. Breaks \in SUBSET D /\ 0 \in Breaks
    BY <1>1
<1>3. PICK g : Equation(g) /\ g \in [D -> Nat]
  <2> HIDE DEF Breaks
  <2> QED BY <1>1, <1>2, CounterExists
<1>4. \A h : Equation(h) <=> h = [s \in D |-> IF s = 0 \/ ~Complete(m, s) THEN 0 ELSE h[s - 1] + 1]
  <2> SUFFICES ASSUME NEW h
               PROVE  [s \in D |-> IF s \in Breaks THEN 0 ELSE h[s - 1] + 1]
                        = [s \in D |-> IF s = 0 \/ ~Complete(m, s) THEN 0 ELSE h[s - 1] + 1]
      OBVIOUS
  <2> QED OBVIOUS
<1> DEFINE run == CompleteRun(m)
<1>5. run = CHOOSE h : h = [s \in D |-> IF s = 0 \/ ~Complete(m, s) THEN 0 ELSE h[s - 1] + 1]
    BY DEF CompleteRun
<1>6. run = [s \in D |-> IF s = 0 \/ ~Complete(m, s) THEN 0 ELSE run[s - 1] + 1]
    BY <1>3, <1>4, <1>5, Zenon
<1> HIDE DEF run
<1>7. \A s \in D : run[s] = IF s = 0 \/ ~Complete(m, s) THEN 0 ELSE run[s - 1] + 1
    BY <1>6
<1>8. \A s \in D : run[s] \in Nat
  <2> DEFINE Bad == {s \in D : run[s] \notin Nat}
  <2> SUFFICES ASSUME Bad # {} PROVE FALSE
      OBVIOUS
  <2>1. PICK s \in Bad : \A y \in Bad : s <= y
    <3>1. Bad \in SUBSET Nat
        BY <1>1
    <3> HIDE DEF Bad
    <3> QED BY <3>1, LeastNatural
  <2>2. s \in D /\ run[s] \notin Nat
      OBVIOUS
  <2>3. s # 0 /\ run[s] = run[s - 1] + 1
      BY <1>7, <2>2
  <2>4. s - 1 \in D
      BY <1>1, <2>2, <2>3
  <2>5. run[s - 1] \in Nat
      BY <2>1, <2>4
  <2> QED BY <2>2, <2>3, <2>5
<1> QED BY <1>7, <1>8 DEF run

(* The incomplete sessions up to one, which name its segment.               *)
Breaks(m, s) == {t \in 1 .. s : ~Complete(m, t)}

(* The next session is in the same segment unless it is incomplete.         *)
LEMMA SegmentsStay ==
    ASSUME NEW m, NEW s \in Sessions
    PROVE  /\ Cardinality(Breaks(m, s)) \in Nat
           /\ s + 1 \in Sessions /\ Complete(m, s + 1) =>
                 Cardinality(Breaks(m, s + 1)) = Cardinality(Breaks(m, s))
<1>1. s \in Nat /\ IsFiniteSet(1 .. s)
    BY FS_Interval DEF Sessions
<1>2. Breaks(m, s) \in SUBSET (1 .. s)
    BY DEF Breaks
<1>3. Cardinality(Breaks(m, s)) \in Nat
    BY <1>1, <1>2, FS_Subset, FS_CardinalityType
<1>4. ASSUME Complete(m, s + 1) PROVE Breaks(m, s + 1) = Breaks(m, s)
    BY <1>1, <1>4 DEF Breaks
<1> QED BY <1>3, <1>4

(* The sessions with a fill are those a gap does not quarantine, and the    *)
(* fill of the next one is the delayed fill.                                *)
LEMMA FillFacts ==
    ASSUME NEW m
    PROVE  /\ FillSessions(m) \subseteq Sessions
           /\ \A s \in Sessions :
                 s \in FillSessions(m) <=> CompleteRun(m)[s] >= Recovery /\ s < Days
           /\ \A s \in FillSessions(m) :
                 /\ Complete(m, s)
                 /\ s + 1 \in Sessions /\ Complete(m, s + 1) /\ s + 1 < Days =>
                       s + 1 \in FillSessions(m)
                 /\ FillIdentities(m)[s].session = s
                 /\ s + 1 \in FillSessions(m) =>
                       FillIdentities(m)[s + 1].segment = FillIdentities(m)[s].segment
                 /\ FillIdentities(m)[s].base = s + 1
                 /\ FillIdentities(m)[s].index = Cardinality({t \in FillSessions(m) : t < s})
                 /\ FillIdentities(m)[s].delayed =
                       IF s + 1 \in FillSessions(m) THEN s + 2 ELSE NoTime
<1> DEFINE run == CompleteRun(m)
           F == FillSessions(m)
           segment == GapSegments(m)
           count(s) == Cardinality(Breaks(m, s))
<1>1. \A s \in Sessions :
         /\ run[s] \in Nat
         /\ run[s] = IF s = 0 \/ ~Complete(m, s) THEN 0 ELSE run[s - 1] + 1
    BY CompleteRunEquation, CalendarAssumption DEF Sessions
<1>2. \A s \in Sessions : count(s) \in Nat
    BY SegmentsStay
<1>3. \A s \in Sessions : segment[s] = IF run[s] >= Recovery THEN count(s) ELSE NoSegment
    BY DEF GapSegments, Breaks
<1>4. F = {s \in Sessions : segment[s] # NoSegment /\ s < Days}
    BY DEF FillSessions
<1> HIDE DEF run, segment
<1>5. \A s \in Sessions : segment[s] # NoSegment <=> run[s] >= Recovery
  <2> HIDE DEF count
  <2> QED BY <1>2, <1>3 DEF NoSegment
<1>6. \A s \in F : s \in Sessions /\ run[s] >= Recovery /\ Complete(m, s)
    BY <1>1, <1>4, <1>5, CalendarAssumption
<1>7. \A s \in F : s + 1 \in F => segment[s + 1] = segment[s]
  <2> SUFFICES ASSUME NEW s \in F, s + 1 \in F PROVE segment[s + 1] = segment[s]
      OBVIOUS
  <2>1. s \in Sessions /\ s + 1 \in Sessions /\ Complete(m, s + 1)
      BY <1>6
  <2>2. count(s + 1) = count(s)
      BY <2>1, SegmentsStay
  <2> QED BY <1>3, <1>6, <2>1, <2>2
<1>8. FillIdentities(m) =
        [s \in F |-> [session |-> s, index |-> Cardinality({t \in F : t < s}),
                      segment |-> segment[s], base |-> s + 1,
                      delayed |-> IF s + 1 \in F /\ segment[s + 1] = segment[s]
                                  THEN s + 2 ELSE NoTime]]
    BY DEF FillIdentities, segment
<1> HIDE DEF F
<1>9. \A s \in F : /\ FillIdentities(m)[s].base = s + 1
                   /\ FillIdentities(m)[s].index = Cardinality({t \in F : t < s})
                   /\ FillIdentities(m)[s].delayed = IF s + 1 \in F THEN s + 2 ELSE NoTime
    BY <1>7, <1>8
<1>10. \A s \in F : /\ FillIdentities(m)[s].session = s
                    /\ FillIdentities(m)[s].segment = segment[s]
    BY <1>8
<1>12. \A s \in F : s + 1 \in Sessions /\ Complete(m, s + 1) /\ s + 1 < Days => s + 1 \in F
  <2> SUFFICES ASSUME NEW s \in F, s + 1 \in Sessions, Complete(m, s + 1), s + 1 < Days
               PROVE  run[s + 1] >= Recovery
      BY <1>4, <1>5
  <2>1. s \in Sessions /\ s \in Nat /\ run[s] >= Recovery /\ run[s] \in Nat
      BY <1>1, <1>6 DEF Sessions
  <2>2. run[s + 1] = run[(s + 1) - 1] + 1 /\ (s + 1) - 1 = s
      BY <1>1, <2>1
  <2> QED BY <2>1, <2>2, CalendarAssumption
<1>11. \A s \in Sessions : s \in F <=> run[s] >= Recovery /\ s < Days
    BY <1>4, <1>5
<1> QED BY <1>6, <1>7, <1>9, <1>10, <1>11, <1>12 DEF F, run

(* The period ends at the last fill.                                        *)
LEMMA TerminalIsLast ==
    ASSUME NEW m, FillSessions(m) # {}
    PROVE  /\ TerminalSession(m) \in FillSessions(m)
           /\ \A s \in FillSessions(m) : s <= TerminalSession(m)
<1> DEFINE F == FillSessions(m)
<1>1. F \in SUBSET Int /\ Days \in Int /\ \A s \in F : s <= Days
    BY FillFacts, CalendarAssumption DEF Sessions
<1>2. TerminalSession(m) = CHOOSE s \in F : \A t \in F : t <= s
    BY DEF TerminalSession
<1>3. F # {}
    OBVIOUS
<1> HIDE DEF F
<1>4. \E s \in F : \A t \in F : t <= s
    BY <1>1, <1>3, LargestInteger
<1> QED BY <1>2, <1>4 DEF F

(* Fills are numbered without holes.                                        *)
LEMMA NextIndex ==
    ASSUME NEW m, NEW s \in FillSessions(m)
    PROVE  /\ FillIdentities(m)[s].index \in Nat
           /\ s + 1 \in FillSessions(m) =>
                 FillIdentities(m)[s + 1].index = FillIdentities(m)[s].index + 1
<1> DEFINE F == FillSessions(m)
           before(u) == {t \in F : t < u}
<1>1. F \subseteq 1 .. Days /\ Days \in Nat /\ s \in F
    BY FillFacts, CalendarAssumption DEF Sessions
<1>2. \A u \in F : FillIdentities(m)[u].index = Cardinality(before(u))
    BY FillFacts
<1> HIDE DEF F
<1>3. IsFiniteSet(F) /\ F \subseteq Int /\ s \in Int
  <2>1. 1 \in Int /\ Days \in Int
      BY <1>1
  <2>2. IsFiniteSet(1 .. Days)
      BY <2>1, FS_Interval
  <2>3. 1 .. Days \subseteq Int
      OBVIOUS
  <2> QED BY <1>1, <2>2, <2>3, FS_Subset
<1>4. \A u : IsFiniteSet(before(u))
  <2>1. \A u : before(u) \subseteq F
      OBVIOUS
  <2> HIDE DEF before
  <2> QED BY <1>3, <2>1, FS_Subset
<1>5. before(s + 1) = before(s) \union {s} /\ s \notin before(s)
  <2>1. \A t \in F : t < s + 1 <=> t < s \/ t = s
      BY <1>3
  <2>2. ~(s < s)
      BY <1>3
  <2> QED BY <1>1, <2>1, <2>2
<1> HIDE DEF before
<1>6. Cardinality(before(s)) \in Nat
    BY <1>4, FS_CardinalityType
<1>7. Cardinality(before(s + 1)) = Cardinality(before(s)) + 1
    BY <1>4, <1>5, FS_AddElement
<1> QED BY <1>1, <1>2, <1>6, <1>7 DEF F

-----------------------------------------------------------------------------
(*****************************************************************************)
(* The holding clock of the first mean-reversion study.  The clock bounds how *)
(* many of the last marks can be long, and the queue adds what its delay lets *)
(* pass (ClockInStep); between sessions the last long mark is that of the day *)
(* before the last one, so the next mark cannot skip a day (MachineInStep).  *)
(*****************************************************************************)

Marks == [day : Nat, long : BOOLEAN]

PeriodTypes ==
    /\ grid \in [1 .. PeriodDays -> SUBSET {"session", "fill"}]
    /\ lag \in {0, 1} /\ opening \in 2 .. 3 /\ closing \in Int
    /\ day \in 1 .. PeriodDays + 1 /\ holding \in BOOLEAN
    /\ held \in Nat /\ streak \in Nat /\ marks \in Seq(Marks)
    /\ queued # NoQueue =>
          queued = [long |-> ~holding, remaining |-> queued.remaining]
          /\ queued.remaining \in 0 .. lag

LastMark == marks[Len(marks)]

(* At most n marks at the end are long.                                     *)
LongAtMost(n) ==
    Len(marks) > n => \E j \in Len(marks) - n .. Len(marks) : ~marks[j].long

HoldsBounded ==
    \A i \in 1 .. Len(marks) : i + HoldIntervals <= Len(marks) =>
        \E j \in i .. i + HoldIntervals : ~marks[j].long

MarksAdjacent ==
    \A i \in 1 .. Len(marks) - 1 : marks[i].long =>
        marks[i + 1].day = marks[i].day + 1 /\ "session" \in grid[marks[i].day + 1]

(* While the loop runs: the session before a position or a queued target    *)
(* was complete, and inside the period a long mark is of the day before it. *)
MachineInStep ==
    /\ holding \/ queued # NoQueue => day > opening /\ Prepared(day - 1)
    /\ day <= closing /\ marks # <<>> /\ LastMark.long =>
          holding /\ LastMark.day = day - 2

(* How many of the marks at the end can be long, by holding clock and queue. *)
ClockInStep ==
    /\ holding /\ queued = NoQueue => held = 0 \/ held + lag + 1 < HoldIntervals
    /\ holding /\ queued # NoQueue => held = 1 \/ held + lag + 1 <= HoldIntervals
    /\ holding /\ queued # NoQueue => held > 0
    /\ holding /\ day <= closing =>
          LongAtMost(held + 1 + (IF queued = NoQueue THEN 0 ELSE lag - queued.remaining))

PeriodInv ==
    /\ PeriodTypes /\ HoldsBounded /\ MarksAdjacent
    /\ fault = "no" => MachineInStep /\ ClockInStep

(* The invariant holds when a period opens.                                 *)
LEMMA PeriodInvInit ==
    PeriodInit([1 .. PeriodDays -> SUBSET {"session", "fill"}]) => PeriodInv
<1> SUFFICES ASSUME PeriodInit([1 .. PeriodDays -> SUBSET {"session", "fill"}])
             PROVE  PeriodInv
    OBVIOUS
<1>1. /\ grid \in [1 .. PeriodDays -> SUBSET {"session", "fill"}]
      /\ lag \in {0, 1} /\ opening \in 2 .. 3 /\ closing \in Int /\ day = 1
      /\ holding = FALSE /\ queued = NoQueue /\ held = 0 /\ streak = 0 /\ marks = <<>>
    BY PeriodAssumption DEF PeriodInit
<1>2. day \in 1 .. PeriodDays + 1 /\ held \in Nat /\ streak \in Nat
    BY <1>1, PeriodAssumption
<1>3. marks \in Seq(Marks) /\ Len(marks) = 0
    BY <1>1
<1>4. PeriodTypes
    BY <1>1, <1>2, <1>3 DEF PeriodTypes
<1>5. HoldsBounded /\ MarksAdjacent /\ MachineInStep /\ ClockInStep
    BY <1>1, <1>3 DEF HoldsBounded, MarksAdjacent, MachineInStep, ClockInStep
<1> QED BY <1>4, <1>5 DEF PeriodInv

(* A session that shows cash is marked unless the last mark is cash.        *)
LEMMA CashMarked ==
    ASSUME PeriodInv, PeriodRunning, NEW cash \in BOOLEAN, cash = FALSE,
           day' = day + 1, marks' = Mark(day, cash),
           UNCHANGED <<grid, opening, closing>>
    PROVE  /\ marks' \in Seq(Marks) /\ HoldsBounded' /\ MarksAdjacent'
           /\ day' <= closing' /\ marks' # <<>> => ~LastMark'.long
<1> USE PeriodAssumption
<1>1. /\ Len(marks) \in Nat /\ day \in 1 .. PeriodDays
      /\ \A i \in 1 .. Len(marks) : marks[i] \in Marks
    BY DEF PeriodInv, PeriodTypes, PeriodRunning
<1>2. CASE marks' = marks
  <2>1. ASSUME day < closing, marks # <<>>, LastMark.long PROVE FALSE
    <3>1. day > opening /\ Prepared(day - 1)
        BY <2>1, <1>1 DEF PeriodInv, PeriodTypes, PeriodRunning, MachineInStep
    <3>2. Mark(day, cash) = Append(marks, [day |-> day - 1, long |-> cash])
        BY <2>1, <3>1, <1>1 DEF Mark, Prepared, PeriodInv, PeriodTypes
    <3>3. ASSUME NEW x PROVE Append(marks, x) # marks
      <4>1. Len(Append(marks, x)) = Len(marks) + 1
          BY DEF PeriodInv, PeriodTypes
      <4> QED BY <1>1, <4>1
    <3> QED BY <1>2, <3>2, <3>3
  <2> QED BY <1>1, <1>2, <2>1
          DEF PeriodInv, PeriodTypes, HoldsBounded, MarksAdjacent, LastMark
<1>3. CASE marks' # marks
  <2> DEFINE m == [day |-> day - 1, long |-> cash]
  <2>1. marks' = Append(marks, m) /\ day > 1 /\ day < closing
      BY <1>3 DEF Mark
  <2>10. m \in Marks /\ m.day = day - 1 /\ ~m.long
      BY <2>1, <1>1 DEF Marks
  <2> HIDE DEF m
  <2>11. marks \in Seq(Marks)
      BY DEF PeriodInv, PeriodTypes
  <2>2. /\ Len(marks') = Len(marks) + 1 /\ marks'[Len(marks) + 1] = m /\ m \in Marks
        /\ \A i \in 1 .. Len(marks) : marks'[i] = marks[i]
        /\ marks' \in Seq(Marks)
      BY <2>1, <1>1, <2>10, <2>11
  <2>3. HoldsBounded'
    <3> SUFFICES ASSUME NEW i \in 1 .. Len(marks'), i + HoldIntervals <= Len(marks')
                 PROVE  \E j \in i .. i + HoldIntervals : ~marks'[j].long
        BY DEF HoldsBounded
    <3>1. CASE i + HoldIntervals = Len(marks) + 1
        BY <3>1, <2>2, <2>10, <1>1
    <3>2. CASE i + HoldIntervals <= Len(marks)
      <4>1. i \in 1 .. Len(marks)
          BY <3>2, <2>2, <1>1
      <4>2. PICK j \in i .. i + HoldIntervals : ~marks[j].long
          BY <3>2, <4>1 DEF PeriodInv, HoldsBounded
      <4>3. marks'[j] = marks[j]
          BY <3>2, <4>1, <2>2, <1>1
      <4> QED BY <4>2, <4>3
    <3> QED BY <3>1, <3>2, <2>2, <1>1
  <2>4. MarksAdjacent'
    <3> SUFFICES ASSUME NEW i \in 1 .. Len(marks), marks'[i].long
                 PROVE  marks'[i + 1].day = marks'[i].day + 1
                        /\ "session" \in grid'[marks'[i].day + 1]
        BY <2>2, <1>1 DEF MarksAdjacent
    <3>1. CASE i < Len(marks)
        BY <3>1, <2>2, <1>1 DEF PeriodInv, MarksAdjacent
    <3>2. CASE i = Len(marks)
      <4>1. LastMark.day = day - 2 /\ holding
          BY <3>2, <2>1, <2>2, <1>1 DEF PeriodInv, PeriodTypes, PeriodRunning, MachineInStep, LastMark
      <4>2. Prepared(day - 1)
          BY <4>1 DEF PeriodInv, PeriodRunning, MachineInStep
      <4>3. marks'[i] = LastMark /\ marks'[i + 1] = m /\ "session" \in grid'[day - 1]
          BY <3>2, <4>2, <2>2, <1>1 DEF LastMark, Prepared
      <4>4. (day - 2) + 1 = day - 1
          BY <1>1
      <4> QED BY <4>1, <4>3, <4>4, <2>10
    <3> QED BY <3>1, <3>2, <1>1
  <2>5. LastMark' = m
      BY <2>2 DEF LastMark
  <2> QED BY <2>2, <2>3, <2>4, <2>5, <2>10
<1> QED BY <1>2, <1>3

(* After a complete session of the period a position is always marked.      *)
LEMMA PositionMark ==
    ASSUME PeriodInv, PeriodRunning, day > opening, Prepared(day - 1),
           NEW long \in BOOLEAN
    PROVE  Mark(day, long) = IF day < closing
                             THEN Append(marks, [day |-> day - 1, long |-> long]) ELSE marks
BY DEF Mark, Prepared, PeriodInv, PeriodTypes, PeriodRunning

(* A session that shows a position lengthens by one the marks at the end    *)
(* that may be long.                                                        *)
LEMMA PositionMarked ==
    ASSUME PeriodInv, PeriodRunning, NEW m \in Marks, m.day = day - 1, m.long,
           marks' = (IF day < closing THEN Append(marks, m) ELSE marks),
           day' = day + 1, UNCHANGED <<grid, opening, closing>>, Prepared(day - 1),
           NEW n \in Nat, n < HoldIntervals, day <= closing => LongAtMost(n)
    PROVE  /\ marks' \in Seq(Marks) /\ HoldsBounded' /\ MarksAdjacent'
           /\ day' <= closing' => LastMark'.day = day' - 2 /\ LongAtMost(n + 1)'
<1> USE PeriodAssumption
<1>1. Len(marks) \in Nat /\ day \in 1 .. PeriodDays
    BY DEF PeriodInv, PeriodTypes, PeriodRunning
<1>4. marks \in Seq(Marks) /\ closing \in Int /\ opening \in 2 .. 3
    BY DEF PeriodInv, PeriodTypes
<1>5. closing \in Int
    BY <1>4
<1>2. CASE ~(day < closing)
  <2>1. marks' = marks
      BY <1>2
  <2> QED BY <1>1, <1>2, <1>4, <2>1 DEF PeriodInv, PeriodTypes, HoldsBounded, MarksAdjacent
<1>3. CASE day < closing
  <2>2. marks' = Append(marks, m)
      BY <1>3
  <2>3. /\ Len(marks') = Len(marks) + 1 /\ marks'[Len(marks) + 1] = m
        /\ \A i \in 1 .. Len(marks) : marks'[i] = marks[i]
        /\ marks' \in Seq(Marks)
      BY <1>1, <1>4, <2>2
  <2>4. HoldsBounded'
    <3> SUFFICES ASSUME NEW i \in 1 .. Len(marks'), i + HoldIntervals <= Len(marks')
                 PROVE  \E j \in i .. i + HoldIntervals : ~marks'[j].long
        BY DEF HoldsBounded
    <3>1. CASE i + HoldIntervals = Len(marks) + 1
      <4>1. PICK j \in Len(marks) - n .. Len(marks) : ~marks[j].long
          BY <1>1, <1>3, <1>5, <2>3, <3>1 DEF LongAtMost
      <4>2. j \in i .. i + HoldIntervals /\ marks'[j] = marks[j]
          BY <1>1, <2>3, <3>1
      <4> QED BY <4>1, <4>2
    <3>2. CASE i + HoldIntervals <= Len(marks)
      <4>1. i \in 1 .. Len(marks)
          BY <3>2, <2>3, <1>1
      <4>2. PICK j \in i .. i + HoldIntervals : ~marks[j].long
          BY <3>2, <4>1 DEF PeriodInv, HoldsBounded
      <4>3. marks'[j] = marks[j]
          BY <3>2, <4>1, <2>3, <1>1
      <4> QED BY <4>2, <4>3
    <3>3. Len(marks') = Len(marks) + 1
        BY <2>3
    <3>4. i + HoldIntervals = Len(marks) + 1 \/ i + HoldIntervals <= Len(marks)
        BY <3>3, <1>1
    <3> QED BY <3>1, <3>2, <3>4
  <2>5. MarksAdjacent'
    <3> SUFFICES ASSUME NEW i \in 1 .. Len(marks), marks'[i].long
                 PROVE  marks'[i + 1].day = marks'[i].day + 1
                        /\ "session" \in grid'[marks'[i].day + 1]
        BY <2>3, <1>1 DEF MarksAdjacent
    <3>1. CASE i < Len(marks)
        BY <3>1, <2>3, <1>1 DEF PeriodInv, MarksAdjacent
    <3>2. CASE i = Len(marks)
      <4>1. LastMark.day = day - 2
          BY <3>2, <1>3, <2>3, <1>1 DEF PeriodInv, PeriodTypes, PeriodRunning, MachineInStep, LastMark
      <4>2. marks'[i] = LastMark /\ marks'[i + 1] = m /\ "session" \in grid'[day - 1]
          BY <3>2, <2>3, <1>1 DEF LastMark, Prepared
      <4>3. (day - 2) + 1 = day - 1
          BY <1>1
      <4> QED BY <4>1, <4>2, <4>3
    <3> QED BY <3>1, <3>2, <1>1
  <2>6. LastMark' = m
      BY <2>3 DEF LastMark
  <2>7. LongAtMost(n + 1)'
    <3> SUFFICES ASSUME Len(marks') > n + 1
                 PROVE  \E j \in Len(marks') - (n + 1) .. Len(marks') : ~marks'[j].long
        BY DEF LongAtMost
    <3>1. PICK j \in Len(marks) - n .. Len(marks) : ~marks[j].long
        BY <1>1, <1>3, <1>5, <2>3 DEF LongAtMost
    <3>2. j \in Len(marks') - (n + 1) .. Len(marks') /\ marks'[j] = marks[j]
        BY <1>1, <2>3
    <3> QED BY <3>1, <3>2
  <2>8. day' - 2 = day - 1
      BY <1>1
  <2> QED BY <2>3, <2>4, <2>5, <2>6, <2>7, <2>8
<1> QED BY <1>2, <1>3

(* What every session of the loop leaves well typed.                       *)
LEMMA AdvanceTypes ==
    ASSUME PeriodInv, PeriodRunning,
           NEW h \in BOOLEAN, NEW q, NEW k \in Nat, NEW r \in Nat,
           q # NoQueue => /\ q = [long |-> ~h, remaining |-> q.remaining]
                          /\ q.remaining \in 0 .. lag,
           holding' = h, queued' = q, held' = k, streak' = r, marks' \in Seq(Marks),
           day' = day + 1, UNCHANGED <<grid, lag, opening, closing, fault>>
    PROVE  PeriodTypes'
<1>1. day' \in 1 .. PeriodDays + 1
    BY PeriodAssumption DEF PeriodInv, PeriodTypes, PeriodRunning
<1> QED BY <1>1 DEF PeriodInv, PeriodTypes

(* A session that shows cash, whatever it queues.                          *)
LEMMA CashAfter ==
    ASSUME PeriodInv, PeriodRunning, NEW k \in Nat, NEW r \in Nat,
           NEW cash \in BOOLEAN, cash = FALSE, NEW q,
           q # NoQueue => /\ q = [long |-> ~cash, remaining |-> q.remaining]
                          /\ q.remaining \in 0 .. lag
                          /\ Prepared(day) /\ day >= opening,
           holding' = cash, queued' = q, held' = k, streak' = r,
           marks' = Mark(day, cash), day' = day + 1,
           UNCHANGED <<grid, lag, opening, closing, fault>>
    PROVE  PeriodInv'
<1>1. /\ marks' \in Seq(Marks) /\ HoldsBounded' /\ MarksAdjacent'
      /\ day' <= closing' /\ marks' # <<>> => ~LastMark'.long
    BY CashMarked
<1>2. PeriodTypes'
    BY <1>1, AdvanceTypes
<1>3. Prepared(day) => Prepared(day - 1)'
  <2>1. day' - 1 = day
      BY DEF PeriodInv, PeriodTypes
  <2> QED BY <2>1 DEF Prepared
<1>4. day >= opening => day' > opening'
    BY DEF PeriodInv, PeriodTypes
<1>5. MachineInStep' /\ ClockInStep'
    BY <1>1, <1>3, <1>4 DEF MachineInStep, ClockInStep
<1> QED BY <1>1, <1>2, <1>5 DEF PeriodInv

(* A session that shows a position, and may queue its end.                 *)
LEMMA PositionAfter ==
    ASSUME PeriodInv, PeriodRunning, Prepared(day), day >= opening,
           holding \/ queued # NoQueue,
           NEW k \in Nat, NEW r \in Nat, NEW n \in Nat, n < HoldIntervals,
           day <= closing => LongAtMost(n),
           NEW invested \in BOOLEAN, invested = TRUE, NEW q,
           q # NoQueue => /\ q = [long |-> ~invested, remaining |-> q.remaining]
                          /\ q.remaining \in 0 .. lag,
           q = NoQueue => n = k, q # NoQueue => n = k + (lag - q.remaining),
           q = NoQueue => k = 0 \/ k + lag + 1 < HoldIntervals,
           q # NoQueue => k > 0 /\ (k = 1 \/ k + lag + 1 <= HoldIntervals),
           holding' = invested, queued' = q, held' = k, streak' = r,
           marks' = Mark(day, invested), day' = day + 1,
           UNCHANGED <<grid, lag, opening, closing, fault>>
    PROVE  PeriodInv'
<1> DEFINE m == [day |-> day - 1, long |-> invested]
<1>1. day > opening /\ Prepared(day - 1)
    BY DEF PeriodInv, PeriodRunning, MachineInStep
<1>2. m \in Marks /\ m.day = day - 1 /\ m.long
    BY DEF Marks, PeriodInv, PeriodTypes
<1>3. marks' = IF day < closing THEN Append(marks, m) ELSE marks
    BY <1>1, PositionMark
<1> HIDE DEF m
<1>4. /\ marks' \in Seq(Marks) /\ HoldsBounded' /\ MarksAdjacent'
      /\ day' <= closing' => LastMark'.day = day' - 2 /\ LongAtMost(n + 1)'
    BY <1>1, <1>2, <1>3, PositionMarked
<1>5. PeriodTypes'
    BY <1>4, AdvanceTypes
<1>6. Prepared(day - 1)' /\ day' > opening'
  <2>1. day' - 1 = day /\ day' > opening'
      BY DEF PeriodInv, PeriodTypes
  <2> QED BY <2>1 DEF Prepared
<1>7. MachineInStep'
    BY <1>4, <1>6 DEF MachineInStep
<1>8. ClockInStep'
  <2>1. n + 1 = held' + 1 + (IF queued' = NoQueue THEN 0 ELSE lag' - queued'.remaining)
    <3>1. held' = k /\ queued' = q /\ lag' = lag /\ lag \in {0, 1}
        BY DEF PeriodInv, PeriodTypes
    <3>2. CASE q = NoQueue
        BY <3>1, <3>2
    <3>3. CASE q # NoQueue
      <4>1. q.remaining \in Int /\ n = k + lag - q.remaining
          BY <3>1, <3>3
      <4> QED BY <3>1, <3>3, <4>1
    <3> QED BY <3>2, <3>3
  <2> QED BY <1>4, <2>1 DEF ClockInStep
<1> QED BY <1>4, <1>5, <1>7, <1>8 DEF PeriodInv

(* A day without its session sends the position to cash.                    *)
LEMMA PeriodGapStep == PeriodInv /\ PeriodGap => PeriodInv'
<1> SUFFICES ASSUME PeriodInv, PeriodGap PROVE PeriodInv'
    OBVIOUS
<1>1. CASE Position
    BY <1>1 DEF PeriodGap, Raise, PeriodInv, PeriodTypes, HoldsBounded, MarksAdjacent
<1>2. CASE ~Position
    BY <1>2, CashAfter DEF PeriodGap, Advance
<1> QED BY <1>1, <1>2

(* A session of the warm-up only lengthens the streak.                      *)
LEMMA PeriodWarmupStep == PeriodInv /\ PeriodWarmup => PeriodInv'
<1> SUFFICES ASSUME PeriodInv, PeriodWarmup PROVE PeriodInv'
    OBVIOUS
<1>1. streak + 1 \in Nat
    BY DEF PeriodInv, PeriodTypes
<1>2. CASE Position \/ QueueNow # NoQueue
    BY <1>2 DEF PeriodWarmup, Raise, PeriodInv, PeriodTypes, HoldsBounded, MarksAdjacent
<1>3. CASE ~(Position \/ QueueNow # NoQueue)
    BY <1>1, <1>3, CashAfter DEF PeriodWarmup, Advance
<1> QED BY <1>2, <1>3

(* The session that fills what is queued marks the new position.            *)
LEMMA PeriodExecuteStep == HoldIntervals > 2 /\ PeriodInv /\ PeriodExecute => PeriodInv'
<1> SUFFICES ASSUME HoldIntervals > 2, PeriodInv, PeriodExecute PROVE PeriodInv'
    OBVIOUS
<1> USE PeriodAssumption
<1>1. /\ streak + 1 \in Nat /\ held \in Nat /\ lag \in {0, 1} /\ queued # NoQueue
      /\ queued = [long |-> ~holding, remaining |-> queued.remaining]
      /\ queued.remaining \in 0 .. lag /\ holding \in BOOLEAN
    BY DEF PeriodInv, PeriodTypes, PeriodExecute
<1>2. /\ PeriodRunning /\ Prepared(day) /\ day >= opening
      /\ holding' = Position /\ queued' = QueueNow /\ held' = HeldNow /\ streak' = streak + 1
      /\ marks' = Mark(day, Position) /\ day' = day + 1
      /\ UNCHANGED <<grid, lag, opening, closing, fault>>
    BY DEF PeriodExecute, Advance
<1>3. ClockInStep /\ MachineInStep
    BY <1>2 DEF PeriodInv, PeriodRunning
<1>8. /\ holding => queued.long = FALSE
      /\ ~holding => queued.long = TRUE
  <2>1. queued.long = ~holding
      BY <1>1
  <2> QED BY <2>1
<1>4. CASE Executes /\ holding
  <2>1. Position = FALSE /\ QueueNow = NoQueue /\ HeldNow = 0
      BY <1>4, <1>8 DEF Position, QueueNow, HeldNow
  <2> QED BY <1>1, <1>2, <2>1, CashAfter
<1>5. CASE Executes /\ ~holding
  <2>1. Position = TRUE /\ QueueNow = NoQueue /\ HeldNow = 0
      BY <1>5, <1>8 DEF Position, QueueNow, HeldNow
  <2>2. day <= closing => LongAtMost(0)
      BY <1>3, <1>5 DEF LongAtMost, MachineInStep, LastMark, PeriodInv, PeriodTypes
  <2>3. 0 \in Nat /\ 0 < HoldIntervals
      OBVIOUS
  <2> QED BY <1>1, <1>2, <2>1, <2>2, <2>3, PositionAfter
<1>6. CASE ~Executes /\ holding
  <2>1. /\ Position = TRUE /\ HeldNow = held
        /\ QueueNow = [long |-> ~Position, remaining |-> queued.remaining - 1]
        /\ QueueNow # NoQueue /\ queued.remaining - 1 \in 0 .. lag
      BY <1>1, <1>6 DEF Position, QueueNow, HeldNow, Executes, NoQueue
  <2> DEFINE q == QueueNow
             n == held + (lag - q.remaining)
  <2>2. q.remaining = queued.remaining - 1
      BY <2>1
  <2>3. n = held + 1 + (lag - queued.remaining) /\ n \in Nat /\ n < HoldIntervals
      BY <1>1, <1>3, <1>6, <2>1, <2>2 DEF ClockInStep
  <2>4. day <= closing => LongAtMost(n)
      BY <1>1, <1>3, <1>6, <2>3 DEF ClockInStep
  <2>5. held > 0 /\ (held = 1 \/ held + lag + 1 <= HoldIntervals)
      BY <1>1, <1>3, <1>6 DEF ClockInStep
  <2>6. q # NoQueue => /\ q = [long |-> ~Position, remaining |-> q.remaining]
                       /\ q.remaining \in 0 .. lag
      BY <2>1, <2>2
  <2> HIDE DEF q
  <2>7. q # NoQueue => n = held + (lag - q.remaining)
      OBVIOUS
  <2> HIDE DEF n
  <2>8. Position \in BOOLEAN /\ queued' = q /\ held' = held /\ q # NoQueue
      BY <1>2, <2>1 DEF q
  <2> QED BY <1>1, <1>2, <1>6, <2>1, <2>3, <2>4, <2>5, <2>6, <2>7, <2>8, PositionAfter
<1>7. CASE ~Executes /\ ~holding
  <2>1. /\ Position = FALSE /\ HeldNow = held
        /\ QueueNow = [long |-> ~Position, remaining |-> queued.remaining - 1]
        /\ queued.remaining - 1 \in 0 .. lag
      BY <1>1, <1>7 DEF Position, QueueNow, HeldNow, Executes, NoQueue
  <2>2. QueueNow.remaining = queued.remaining - 1
      BY <2>1
  <2> QED BY <1>1, <1>2, <2>1, <2>2, CashAfter
<1> QED BY <1>4, <1>5, <1>6, <1>7

(* A session that decides queues the opposite of what is held.              *)
LEMMA PeriodDecideStep == HoldIntervals > 2 /\ PeriodInv /\ PeriodDecide => PeriodInv'
<1> SUFFICES ASSUME HoldIntervals > 2, PeriodInv, PeriodDecide PROVE PeriodInv'
    OBVIOUS
<1> USE PeriodAssumption
<1>1. /\ streak + 1 \in Nat /\ held \in Nat /\ lag \in {0, 1} /\ queued = NoQueue
      /\ holding \in BOOLEAN
    BY DEF PeriodInv, PeriodTypes, PeriodDecide
<1>2. PeriodRunning /\ Prepared(day) /\ day >= opening
    BY DEF PeriodDecide
<1>3. ClockInStep /\ MachineInStep
    BY <1>2 DEF PeriodInv, PeriodRunning
<1> DEFINE exposed == IF holding THEN held + 1 ELSE held
           target == [long |-> ~holding, remaining |-> lag]
<1>4. PICK triggered \in BOOLEAN :
         Advance(holding,
                 IF triggered \/ (holding /\ exposed + lag + 1 >= HoldIntervals)
                 THEN target ELSE NoQueue,
                 exposed, streak + 1, holding)
    BY DEF PeriodDecide
<1>5. /\ holding' = holding /\ queued' \in {NoQueue, target} /\ held' = exposed
      /\ streak' = streak + 1 /\ marks' = Mark(day, holding) /\ day' = day + 1
      /\ queued' = NoQueue /\ holding => exposed + lag + 1 < HoldIntervals
      /\ UNCHANGED <<grid, lag, opening, closing, fault>>
  <2> HIDE DEF target, exposed
  <2>2. exposed \in Nat
      BY <1>1 DEF exposed
  <2>3. ~(exposed + lag + 1 >= HoldIntervals) => exposed + lag + 1 < HoldIntervals
      BY <1>1, <2>2
  <2>4. target # NoQueue
      BY <1>1 DEF target, NoQueue
  <2> QED BY <1>4, <2>3, <2>4 DEF Advance
<1>6. /\ target # NoQueue /\ target.remaining = lag /\ lag \in 0 .. lag
      /\ target = [long |-> ~holding, remaining |-> target.remaining]
    BY <1>1 DEF NoQueue
<1> HIDE DEF target
<1>7. CASE holding
  <2>1. exposed = held + 1 /\ held + 1 \in Nat
      BY <1>1, <1>7
  <2>2. held + 1 < HoldIntervals /\ (held = 0 \/ held + lag + 1 < HoldIntervals)
      BY <1>1, <1>3, <1>7 DEF ClockInStep
  <2>3. day <= closing => LongAtMost(held + 1)
    <3>1. held + 1 + 0 = held + 1
        BY <1>1
    <3> QED BY <1>1, <1>3, <1>7, <3>1 DEF ClockInStep
  <2>4. queued' = NoQueue => held + 1 = 0 \/ held + 1 + lag + 1 < HoldIntervals
      BY <1>5, <1>7, <2>1
  <2>5. held + 1 > 0 /\ (held + 1 = 1 \/ held + 1 + lag + 1 <= HoldIntervals)
      BY <1>1, <2>2
  <2>6. held + 1 = held + 1 + (lag - lag)
      BY <1>1
  <2> QED BY <1>1, <1>2, <1>5, <1>6, <1>7, <2>1, <2>2, <2>3, <2>4, <2>5, <2>6, PositionAfter
<1>8. CASE ~holding
  <2>1. exposed = held
      BY <1>8
  <2> QED BY <1>1, <1>2, <1>5, <1>6, <1>8, <2>1, CashAfter
<1> QED BY <1>7, <1>8

(* The terminal fill turns the last mark to cash, if there are two.        *)
LEMMA PeriodCloseStep == PeriodInv /\ PeriodClose => PeriodInv'
<1> SUFFICES ASSUME PeriodInv, PeriodClose PROVE PeriodInv'
    OBVIOUS
<1> USE PeriodAssumption
<1>1. UNCHANGED <<grid, lag, opening, closing, day, holding, queued, held, streak>>
      /\ fault' # "no"
    BY DEF PeriodClose
<1>2. CASE marks' = marks
    BY <1>1, <1>2 DEF PeriodInv, PeriodTypes, HoldsBounded, MarksAdjacent
<1>3. CASE marks' # marks
  <2>1. Len(marks) >= 2 /\ marks' = [marks EXCEPT ![Len(marks)].long = FALSE]
      BY <1>3 DEF PeriodClose
  <2>2. /\ Len(marks) \in Nat /\ marks' \in Seq(Marks) /\ Len(marks') = Len(marks)
        /\ \A i \in 1 .. Len(marks) - 1 : marks'[i] = marks[i]
        /\ \A i \in 1 .. Len(marks) : marks'[i].day = marks[i].day
        /\ ~marks'[Len(marks)].long
    <3>1. marks \in Seq(Marks) /\ Len(marks) \in Nat /\ Len(marks) \in DOMAIN marks
        BY <2>1 DEF PeriodInv, PeriodTypes
    <3>2. [marks[Len(marks)] EXCEPT !.long = FALSE] \in Marks
      <4>1. ASSUME NEW m \in Marks PROVE [m EXCEPT !.long = FALSE] \in Marks
          BY <4>1 DEF Marks
      <4>2. marks[Len(marks)] \in Marks
          BY <3>1
      <4> QED BY <4>1, <4>2
    <3>3. marks' = [marks EXCEPT ![Len(marks)] = [marks[Len(marks)] EXCEPT !.long = FALSE]]
        BY <2>1
    <3>4. marks' \in Seq(Marks) /\ Len(marks') = Len(marks)
        BY <3>1, <3>2, <3>3
    <3>5. marks'[Len(marks)] = [marks[Len(marks)] EXCEPT !.long = FALSE]
        BY <3>1, <3>3
    <3>6. \A i \in 1 .. Len(marks) - 1 : marks'[i] = marks[i]
        BY <3>1, <3>3
    <3>7. marks'[Len(marks)].day = marks[Len(marks)].day /\ ~marks'[Len(marks)].long
        BY <3>1, <3>5 DEF Marks
    <3>8. \A i \in 1 .. Len(marks) : marks'[i].day = marks[i].day
        BY <3>1, <3>6, <3>7
    <3> QED BY <3>1, <3>4, <3>6, <3>7, <3>8
  <2>3. HoldsBounded'
    <3> SUFFICES ASSUME NEW i \in 1 .. Len(marks), i + HoldIntervals <= Len(marks)
                 PROVE  \E j \in i .. i + HoldIntervals : ~marks'[j].long
        BY <2>2 DEF HoldsBounded
    <3>1. PICK j \in i .. i + HoldIntervals : ~marks[j].long
        BY DEF PeriodInv, HoldsBounded
    <3>2. j = Len(marks) \/ j \in 1 .. Len(marks) - 1
        BY <2>2
    <3> QED BY <2>2, <3>1, <3>2
  <2>4. MarksAdjacent'
    <3> SUFFICES ASSUME NEW i \in 1 .. Len(marks) - 1, marks[i].long
                 PROVE  marks'[i + 1].day = marks[i].day + 1
                        /\ "session" \in grid[marks[i].day + 1]
        BY <1>1, <2>2 DEF MarksAdjacent
    <3> QED BY <2>2 DEF PeriodInv, MarksAdjacent
  <2> QED BY <1>1, <2>2, <2>3, <2>4 DEF PeriodInv, PeriodTypes
<1> QED BY <1>2, <1>3

(* Every step of a period keeps the invariant.                              *)
LEMMA PeriodInvStep ==
    HoldIntervals > 2 /\ PeriodInv /\ [PeriodNext]_periodVars => PeriodInv'
<1> SUFFICES ASSUME HoldIntervals > 2, PeriodInv, [PeriodNext]_periodVars PROVE PeriodInv'
    OBVIOUS
<1>1. CASE UNCHANGED periodVars
    BY <1>1 DEF periodVars, PeriodInv, PeriodTypes, HoldsBounded, MarksAdjacent, MachineInStep,
              ClockInStep, LongAtMost, LastMark, Prepared
<1> QED BY <1>1, PeriodGapStep, PeriodWarmupStep, PeriodExecuteStep, PeriodDecideStep,
           PeriodCloseStep DEF PeriodNext

(* With a holding limit above the two sessions that queueing and executing  *)
(* a liquidation take (the frozen trials hold 4, 5 or 7 intervals), no      *)
(* position of the first mean-reversion study outlives it, and none is      *)
(* carried over a session that is not there.                                *)
THEOREM HoldsAreBounded == HoldIntervals > 2 => (PeriodSpec => []PeriodHoldsBounded)
<1> SUFFICES ASSUME HoldIntervals > 2 PROVE PeriodSpec => []PeriodHoldsBounded
    OBVIOUS
<1>1. PeriodInv => PeriodHoldsBounded
  <2>1. PeriodInv /\ Len(marks) \in Nat => \A i \in 1 .. Len(marks) :
            i < Len(marks) /\ marks[i].long => marks[i + 1].day = marks[i].day + 1
                          /\ "session" \in grid[marks[i].day + 1]
      BY DEF PeriodInv, MarksAdjacent
  <2>2. PeriodInv => Len(marks) \in Nat
      BY DEF PeriodInv, PeriodTypes
  <2> QED BY <2>1, <2>2 DEF PeriodInv, HoldsBounded, PeriodHoldsBounded
<1>2. PeriodInv /\ [PeriodNext]_periodVars => PeriodInv'
    BY PeriodInvStep
<1> QED BY PeriodInvInit, <1>1, <1>2, PTL DEF PeriodSpec

-----------------------------------------------------------------------------
(*****************************************************************************)
(* The periods of the first rotation.  A row is joined to the next one by the *)
(* segment they share (Joined); a position is that of the last row, with no fill *)
(* since (OpenPosition), so that the next row can only join it.              *)
(*****************************************************************************)

Rows == [day : 1 .. CalendarDays, part : Nat, target : Decisions, forced : BOOLEAN]

RotationPeriodTypes ==
    /\ log \in [1 .. CalendarDays -> SUBSET {"session", "fill"}]
    /\ schedule \in {"rotation", "delayed", "cash", "buy_and_hold"}
    /\ starting \in 2 .. 3 /\ today \in 1 .. CalendarDays + 1
    /\ asset \in Decisions /\ ordered \in Decisions \union {NoOrder}
    /\ enabled \in BOOLEAN /\ counted \in Nat /\ part \in Nat /\ awaiting \in BOOLEAN
    /\ ledger \in Seq(Rows)

Joined(r, s) ==
    r.target # NoAsset =>
       /\ r.part = s.part
       /\ \A d \in r.day + 1 .. s.day - 1 : ~FillAfter(d)
       /\ "session" \notin log[r.day + 1] => s.target = NoAsset

AllJoined == \A i \in 1 .. Len(ledger) - 1 : Joined(ledger[i], ledger[i + 1])

AllBehind ==
    \A i \in 1 .. Len(ledger) :
        ledger[i].day \in starting .. today - 1 /\ ledger[i].day < CalendarDays

LastRow == ledger[Len(ledger)]

(* A position is the last row's: of the current segment, before the last   *)
(* signal, with no fill since, and either the day after it or a wait.      *)
OpenPosition ==
    /\ ledger = <<>> => asset = NoAsset /\ ~awaiting /\ ~enabled
    /\ IsBenchmark => asset = NoAsset
    /\ ~IsBenchmark /\ ledger # <<>> => asset = LastRow.target
    /\ ledger # <<>> /\ LastRow.target # NoAsset =>
          /\ enabled /\ (IsBenchmark => schedule = "buy_and_hold")
          /\ LastRow.part = part /\ LastRow.day < LastSignal
          /\ \A d \in LastRow.day + 1 .. today - 1 : ~FillAfter(d)
          /\ awaiting \/ today = LastRow.day + 1

RotationPeriodInv ==
    /\ RotationPeriodTypes /\ AllJoined /\ AllBehind /\ OpenPosition
    /\ verdict \notin {"bridged_boundary", "not_cash"}

(* The invariant holds when a period opens.                                 *)
LEMMA RotationPeriodInvInit ==
    RotationPeriodInit([1 .. CalendarDays -> SUBSET {"session", "fill"}]) => RotationPeriodInv
<1> SUFFICES ASSUME RotationPeriodInit([1 .. CalendarDays -> SUBSET {"session", "fill"}])
             PROVE  RotationPeriodInv
    OBVIOUS
<1>1. /\ log \in [1 .. CalendarDays -> SUBSET {"session", "fill"}]
      /\ schedule \in {"rotation", "delayed", "cash", "buy_and_hold"}
      /\ starting \in 2 .. 3 /\ today = 1 /\ asset = NoAsset /\ ordered = NoOrder
      /\ enabled = FALSE /\ counted = 0 /\ part = 0 /\ awaiting = FALSE /\ ledger = <<>>
      /\ verdict \in {"insufficient_fills", "running"}
    BY DEF RotationPeriodInit
<1>2. RotationPeriodTypes
  <2>1. <<>> \in Seq(Rows)
      OBVIOUS
  <2>2. today \in 1 .. CalendarDays + 1 /\ counted \in Nat /\ part \in Nat
      BY <1>1, RotationPeriodAssumption
  <2>3. asset \in Decisions /\ ordered \in Decisions \union {NoOrder}
      BY <1>1 DEF Decisions
  <2> QED BY <1>1, <2>1, <2>2, <2>3 DEF RotationPeriodTypes
<1>3. AllJoined /\ AllBehind /\ OpenPosition
    BY <1>1 DEF AllJoined, AllBehind, OpenPosition
<1> QED BY <1>1, <1>2, <1>3 DEF RotationPeriodInv

(* A row of today joins the rows of the days before.                       *)
LEMMA AppendedRow ==
    ASSUME RotationPeriodInv, NEW row \in Rows,
           row.day = today, InsidePeriod(today), row.part = part,
           ledger # <<>> /\ LastRow.target # NoAsset
             => "session" \in log[LastRow.day + 1] \/ row.target = NoAsset,
           log' = log, starting' = starting, today' = today + 1,
           ledger' = AppendInside(ledger, row)
    PROVE  /\ ledger' \in Seq(Rows) /\ AllJoined' /\ AllBehind'
           /\ ledger' # <<>> /\ LastRow' = row
<1> USE RotationPeriodAssumption DEF RotationPeriodInv, RotationPeriodTypes
<1>1. today < CalendarDays /\ starting <= today /\ ledger' = Append(ledger, row)
    BY DEF InsidePeriod, FillAfter, ExpectedInside, AppendInside
<1>2. /\ Len(ledger) \in Nat /\ Len(ledger') = Len(ledger) + 1
      /\ \A i \in 1 .. Len(ledger) : ledger'[i] = ledger[i] /\ ledger[i] \in Rows
      /\ ledger'[Len(ledger')] = row /\ ledger' \in Seq(Rows) /\ ledger' # <<>>
    BY <1>1
<1>3. AllBehind'
    BY <1>1, <1>2 DEF AllBehind, Rows
<1>4. AllJoined'
  <2>1. \A r, s : Joined(r, s)' <=> Joined(r, s)
      BY DEF Joined, FillAfter, ExpectedInside
  <2>2. ledger # <<>> => Joined(LastRow, row)
    <3>1. ASSUME ledger # <<>>, LastRow.target # NoAsset
          PROVE  LastRow.part = part /\ \A d \in LastRow.day + 1 .. today - 1 : ~FillAfter(d)
        BY <3>1 DEF OpenPosition
    <3> QED BY <3>1 DEF Joined
  <2>3. SUFFICES ASSUME NEW i \in 1 .. Len(ledger)
                 PROVE  Joined(ledger'[i], ledger'[i + 1])
      BY <1>2, <2>1 DEF AllJoined
  <2>4. CASE i = Len(ledger)
      BY <2>4, <1>2, <2>2 DEF LastRow
  <2>5. CASE i < Len(ledger)
      BY <2>5, <1>2 DEF AllJoined
  <2> QED BY <2>4, <2>5, <1>2
<1> QED BY <1>2, <1>3, <1>4 DEF LastRow

(* A day without a row leaves what is known of the rows before.            *)
LEMMA SkippedDay ==
    ASSUME RotationPeriodInv, log' = log, starting' = starting, today' = today + 1,
           ledger' = ledger
    PROVE  /\ ledger' \in Seq(Rows) /\ AllJoined' /\ AllBehind'
           /\ (LastRow' = LastRow) /\ \A d : FillAfter(d)' <=> FillAfter(d)
<1>1. \A d : FillAfter(d)' <=> FillAfter(d)
    BY DEF FillAfter, ExpectedInside
<1>2. ledger \in Seq(Rows) /\ AllJoined /\ AllBehind /\ today \in Int
    BY DEF RotationPeriodInv, RotationPeriodTypes
<1>3. AllJoined'
    BY <1>1, <1>2 DEF AllJoined, Joined
<1>4. AllBehind'
    BY <1>2 DEF AllBehind
<1>5. LastRow' = LastRow /\ ledger' \in Seq(Rows)
    BY <1>2 DEF LastRow
<1> QED BY <1>1, <1>3, <1>4, <1>5

(* Every step of the loop goes on with well-typed values.                  *)
LEMMA ContinueTypes ==
    ASSUME RotationPeriodInv, RotationGoes,
           NEW a \in Decisions, NEW o \in Decisions \union {NoOrder}, NEW e \in BOOLEAN,
           NEW n \in Nat, NEW p \in Nat, NEW w \in BOOLEAN, NEW rows \in Seq(Rows),
           Continue(a, o, e, n, p, w, rows)
    PROVE  RotationPeriodTypes' /\ verdict' \notin {"bridged_boundary", "not_cash"}
<1> USE RotationPeriodAssumption
<1>1. today' \in 1 .. CalendarDays + 1
    BY DEF RotationPeriodInv, RotationPeriodTypes, RotationGoes, Continue
<1> QED BY <1>1 DEF RotationPeriodInv, RotationPeriodTypes, Continue

(* A liquidation on the first fill there is.                               *)
LEMMA Liquidated ==
    ASSUME RotationPeriodInv, RotationGoes, InsidePeriod(today),
           NEW o \in Decisions \union {NoOrder},
           Continue(NoAsset, o, FALSE, 0, part + 1, FALSE,
                    AppendInside(ledger, Row(today, NoAsset, TRUE)))
    PROVE  RotationPeriodInv'
<1> USE RotationPeriodAssumption
<1> DEFINE row == Row(today, NoAsset, TRUE)
<1>1. row \in Rows /\ row.day = today /\ row.part = part /\ row.target = NoAsset
    BY DEF RotationPeriodInv, RotationPeriodTypes, RotationGoes, Row, Rows, Decisions,
           InsidePeriod, FillAfter, ExpectedInside
<1>2. /\ asset' = NoAsset /\ enabled' = FALSE /\ awaiting' = FALSE
      /\ ledger' = AppendInside(ledger, row) /\ today' = today + 1
      /\ UNCHANGED <<log, schedule, starting>>
    BY DEF Continue
<1>3. part + 1 \in Nat
    BY DEF RotationPeriodInv, RotationPeriodTypes
<1>4. Continue(NoAsset, o, FALSE, 0, part + 1, FALSE, AppendInside(ledger, row))
    OBVIOUS
<1> HIDE DEF row
<1>5. /\ ledger' \in Seq(Rows) /\ AllJoined' /\ AllBehind' /\ ledger' # <<>>
      /\ LastRow' = row
    BY <1>1, <1>2, AppendedRow
<1>6. RotationPeriodTypes' /\ verdict' \notin {"bridged_boundary", "not_cash"}
  <2>1. NoAsset \in Decisions /\ AppendInside(ledger, row) \in Seq(Rows)
      BY <1>2, <1>5 DEF Decisions
  <2> QED BY <1>3, <1>4, <2>1, ContinueTypes
<1>7. OpenPosition'
    BY <1>1, <1>2, <1>5 DEF OpenPosition, IsBenchmark
<1> QED BY <1>5, <1>6, <1>7 DEF RotationPeriodInv

(* A position that has to wait: no fill this day.                          *)
LEMMA Awaited ==
    ASSUME RotationPeriodInv, RotationGoes, ~InsidePeriod(today),
           NEW o \in Decisions \union {NoOrder}, NEW n \in Nat,
           ledger # <<>>,
           Continue(asset, o, enabled, n, part, TRUE, ledger)
    PROVE  RotationPeriodInv'
<1>1. /\ awaiting' = TRUE /\ ledger' = ledger /\ today' = today + 1
      /\ UNCHANGED <<log, schedule, starting, asset, enabled, part>>
    BY DEF Continue
<1>2. /\ ledger' \in Seq(Rows) /\ AllJoined' /\ AllBehind'
      /\ (LastRow' = LastRow) /\ \A d : FillAfter(d)' <=> FillAfter(d)
    BY <1>1, SkippedDay
<1>3. ~FillAfter(today)
    BY DEF RotationPeriodInv, RotationPeriodTypes, AllBehind, InsidePeriod
<1>4. RotationPeriodTypes' /\ verdict' \notin {"bridged_boundary", "not_cash"}
    BY ContinueTypes DEF RotationPeriodInv, RotationPeriodTypes
<1>5. OpenPosition'
    BY <1>1, <1>2, <1>3
    DEF RotationPeriodInv, RotationPeriodTypes, OpenPosition, IsBenchmark, LastSignal
<1> QED BY <1>2, <1>4, <1>5 DEF RotationPeriodInv

(* A liquidation that waited for a fill closes the segment.                 *)
LEMMA LiquidateLateStep == RotationPeriodInv /\ LiquidateLate => RotationPeriodInv'
<1> SUFFICES ASSUME RotationPeriodInv, LiquidateLate PROVE RotationPeriodInv'
    OBVIOUS
<1>1. RotationGoes /\ awaiting /\ ledger # <<>>
    BY DEF LiquidateLate, RotationPeriodInv, OpenPosition
<1>2. ordered \in Decisions \union {NoOrder} /\ counted \in Nat
    BY DEF RotationPeriodInv, RotationPeriodTypes
<1>3. CASE InsidePeriod(today)
    BY <1>1, <1>2, <1>3, Liquidated DEF LiquidateLate
<1>4. CASE ~InsidePeriod(today)
    BY <1>1, <1>2, <1>4, Awaited DEF LiquidateLate
<1> QED BY <1>3, <1>4

(* A gap liquidates at once, or leaves the liquidation waiting.             *)
LEMMA MeetGapStep == RotationPeriodInv /\ MeetGap => RotationPeriodInv'
<1> SUFFICES ASSUME RotationPeriodInv, MeetGap PROVE RotationPeriodInv'
    OBVIOUS
<1>1. RotationGoes /\ ~awaiting
    BY DEF MeetGap
<1>2. CASE AtRisk
  <2>1. ledger # <<>>
      BY <1>2 DEF RotationPeriodInv, OpenPosition, AtRisk
  <2>2. CASE InsidePeriod(today)
      BY <1>1, <1>2, <2>2, Liquidated DEF MeetGap
  <2>3. CASE ~InsidePeriod(today)
      BY <1>1, <1>2, <2>1, <2>3, Awaited DEF MeetGap
  <2> QED BY <2>2, <2>3
<1>3. CASE ~AtRisk
  <2>1. Continue(asset, NoOrder, FALSE, 0, part + 1, FALSE, ledger)
      BY <1>3 DEF MeetGap
  <2>2. /\ enabled' = FALSE /\ awaiting' = FALSE /\ ledger' = ledger /\ today' = today + 1
        /\ UNCHANGED <<log, schedule, starting, asset>>
      BY <2>1 DEF Continue
  <2>3. /\ ledger' \in Seq(Rows) /\ AllJoined' /\ AllBehind' /\ LastRow' = LastRow
      BY <2>2, SkippedDay
  <2>4. ledger # <<>> => LastRow.target = NoAsset
      BY <1>3 DEF RotationPeriodInv, OpenPosition, AtRisk, IsBenchmark
  <2>5. part + 1 \in Nat
      BY DEF RotationPeriodInv, RotationPeriodTypes
  <2>6. RotationPeriodTypes' /\ verdict' \notin {"bridged_boundary", "not_cash"}
      BY <1>1, <2>1, <2>5, ContinueTypes DEF RotationPeriodInv, RotationPeriodTypes
  <2>7. OpenPosition'
      BY <2>2, <2>3, <2>4 DEF RotationPeriodInv, OpenPosition, IsBenchmark
  <2> QED BY <2>3, <2>6, <2>7 DEF RotationPeriodInv
<1> QED BY <1>2, <1>3

(* A session that only counts.                                              *)
LEMMA CountSessionStep == RotationPeriodInv /\ CountSession => RotationPeriodInv'
<1> SUFFICES ASSUME RotationPeriodInv, CountSession PROVE RotationPeriodInv'
    OBVIOUS
<1> USE RotationPeriodAssumption
<1> DEFINE n == IF FillAfter(today) THEN counted + 1 ELSE counted
<1>1. RotationGoes /\ ~awaiting /\ Continue(asset, ordered, enabled, n, part, FALSE, ledger)
    BY DEF CountSession
<1>2. n \in Nat
    BY DEF RotationPeriodInv, RotationPeriodTypes
<1> HIDE DEF n
<1>3. /\ awaiting' = FALSE /\ ledger' = ledger /\ today' = today + 1
      /\ UNCHANGED <<log, schedule, starting, asset, enabled, part>>
    BY <1>1 DEF Continue
<1>4. /\ ledger' \in Seq(Rows) /\ AllJoined' /\ AllBehind' /\ LastRow' = LastRow
    BY <1>3, SkippedDay
<1>5. RotationPeriodTypes' /\ verdict' \notin {"bridged_boundary", "not_cash"}
    BY <1>1, <1>2, ContinueTypes DEF RotationPeriodInv, RotationPeriodTypes
<1>6. ledger # <<>> => LastRow.target = NoAsset
  <2> SUFFICES ASSUME ledger # <<>>, LastRow.target # NoAsset PROVE FALSE
      OBVIOUS
  <2>1. today = LastRow.day + 1 /\ LastRow.day < LastSignal /\ enabled
      BY <1>1 DEF RotationPeriodInv, OpenPosition
  <2>2. LastRow.day \in starting .. today - 1 /\ LastRow.day \in Nat
    <3>1. Len(ledger) \in 1 .. Len(ledger) /\ ledger[Len(ledger)] \in Rows
        BY DEF RotationPeriodInv, RotationPeriodTypes
    <3> QED BY <3>1 DEF RotationPeriodInv, AllBehind, LastRow, Rows
  <2>3. today < CalendarDays /\ today >= starting
      BY <2>1, <2>2 DEF LastSignal, RotationPeriodInv, RotationPeriodTypes
  <2>4. Usable(today) => FillAfter(today)
      BY <2>3 DEF Usable, ExpectedInside
  <2> QED BY <2>1, <2>3, <2>4 DEF CountSession, RotationPeriodInv, RotationPeriodTypes
<1>7. OpenPosition'
    BY <1>1, <1>3, <1>4, <1>6 DEF RotationPeriodInv, OpenPosition, IsBenchmark
<1> QED BY <1>4, <1>5, <1>7 DEF RotationPeriodInv

(* A session that trades: the row of the target it leaves.                 *)
LEMMA Traded ==
    ASSUME RotationPeriodInv, RotationGoes, ~awaiting, Usable(today), InsidePeriod(today),
           NEW a \in Decisions, NEW t \in Decisions,
           NEW o \in Decisions \union {NoOrder}, NEW e \in BOOLEAN,
           IF IsBenchmark THEN a = NoAsset ELSE t = a,
           t # NoAsset => e /\ today # LastSignal /\ (IsBenchmark => schedule = "buy_and_hold"),
           Continue(a, o, e, counted + 1, part, FALSE,
                    AppendInside(ledger, Row(today, t, FALSE)))
    PROVE  RotationPeriodInv'
<1> USE RotationPeriodAssumption
<1> DEFINE row == Row(today, t, FALSE)
<1>1. /\ row \in Rows /\ row.day = today /\ row.part = part /\ row.target = t
      /\ today < CalendarDays /\ today \in Nat
    BY DEF RotationPeriodInv, RotationPeriodTypes, RotationGoes, Row, Rows, Decisions,
           InsidePeriod, FillAfter, ExpectedInside
<1>2. /\ asset' = a /\ enabled' = e /\ awaiting' = FALSE /\ part' = part
      /\ ledger' = AppendInside(ledger, row) /\ today' = today + 1
      /\ UNCHANGED <<log, schedule, starting>>
    BY DEF Continue
<1>3. counted + 1 \in Nat /\ part \in Nat
    BY DEF RotationPeriodInv, RotationPeriodTypes
<1>4. Continue(a, o, e, counted + 1, part, FALSE, AppendInside(ledger, row))
    OBVIOUS
<1> HIDE DEF row
<1>5. ASSUME ledger # <<>>, LastRow.target # NoAsset
      PROVE  "session" \in log[LastRow.day + 1]
  <2>1. LastRow.day + 1 = today
      BY <1>5 DEF RotationPeriodInv, OpenPosition
  <2> QED BY <1>1, <2>1 DEF Usable, ExpectedInside
<1>6. /\ ledger' \in Seq(Rows) /\ AllJoined' /\ AllBehind' /\ ledger' # <<>>
      /\ LastRow' = row
    BY <1>1, <1>2, <1>5, AppendedRow
<1>7. RotationPeriodTypes' /\ verdict' \notin {"bridged_boundary", "not_cash"}
  <2>1. AppendInside(ledger, row) \in Seq(Rows)
      BY <1>2, <1>6
  <2> QED BY <1>3, <1>4, <2>1, ContinueTypes
<1>8. t # NoAsset => today < LastSignal
    BY <1>1 DEF LastSignal
<1>9. OpenPosition'
    BY <1>1, <1>2, <1>6, <1>8 DEF OpenPosition, IsBenchmark, LastSignal
<1> QED BY <1>6, <1>7, <1>9 DEF RotationPeriodInv

(* A session that trades adds its row to the segment.                       *)
LEMMA TradeSessionStep == RotationPeriodInv /\ TradeSession => RotationPeriodInv'
<1> SUFFICES ASSUME RotationPeriodInv, TradeSession PROVE RotationPeriodInv'
    OBVIOUS
<1> DEFINE filled == IF schedule = "delayed" /\ ordered # NoOrder THEN ordered ELSE asset
<1>1. RotationGoes /\ ~awaiting /\ Usable(today) /\ InsidePeriod(today)
    BY DEF TradeSession, InsidePeriod
<1>2. /\ filled \in Decisions /\ NoAsset \in Decisions /\ "BTC" \in Decisions
      /\ asset \in Decisions /\ ordered \in Decisions \union {NoOrder}
    BY DEF RotationPeriodInv, RotationPeriodTypes, Decisions, Tradable
<1>3. CASE IsBenchmark
  <2> DEFINE t == IF schedule = "buy_and_hold" /\ today # LastSignal THEN "BTC" ELSE NoAsset
  <2>1. Continue(asset, ordered, today # LastSignal, counted + 1, part, FALSE,
                 AppendInside(ledger, Row(today, t, FALSE)))
      BY <1>3 DEF TradeSession
  <2>2. asset = NoAsset
      BY <1>3 DEF RotationPeriodInv, OpenPosition
  <2>3. t \in Decisions /\ (today # LastSignal) \in BOOLEAN
      BY <1>2
  <2>4. t # NoAsset => today # LastSignal /\ schedule = "buy_and_hold"
      OBVIOUS
  <2> HIDE DEF t
  <2> QED BY <1>1, <1>2, <1>3, <2>1, <2>2, <2>3, <2>4, Traded
<1>4. CASE ~IsBenchmark
  <2>1. ASSUME NEW a \in Decisions, NEW o \in Decisions \union {NoOrder},
               a # NoAsset => today # LastSignal,
               Continue(a, o, TRUE, counted + 1, part, FALSE,
                        AppendInside(ledger, Row(today, a, FALSE)))
        PROVE  RotationPeriodInv'
      BY <1>1, <1>4, <2>1, Traded
  <2>2. CASE today = LastSignal
      BY <1>2, <1>4, <2>1, <2>2 DEF TradeSession
  <2>3. CASE today # LastSignal
    <3>1. PICK desired \in Decisions :
            \/ Continue(desired, NoOrder, TRUE, counted + 1, part, FALSE,
                        AppendInside(ledger, Row(today, desired, FALSE)))
            \/ Continue(filled, IF desired = filled THEN NoOrder ELSE desired, TRUE,
                        counted + 1, part, FALSE,
                        AppendInside(ledger, Row(today, filled, FALSE)))
        BY <1>4, <2>3 DEF TradeSession
    <3> QED BY <1>2, <2>1, <2>3, <3>1
  <2> QED BY <2>2, <2>3
<1> QED BY <1>3, <1>4

(* Of the rows, the account refuses nothing.                               *)
LEMMA EndRotationPeriodStep == RotationPeriodInv /\ EndRotationPeriod => RotationPeriodInv'
<1> SUFFICES ASSUME RotationPeriodInv, EndRotationPeriod PROVE RotationPeriodInv'
    OBVIOUS
<1>1. /\ today = CalendarDays + 1
      /\ UNCHANGED <<log, schedule, starting, today, asset, ordered, enabled,
                     counted, part, awaiting, ledger>>
    BY DEF EndRotationPeriod
<1>2. RotationPeriodTypes' /\ AllJoined' /\ AllBehind' /\ OpenPosition'
    BY <1>1 DEF RotationPeriodInv, RotationPeriodTypes, AllJoined, AllBehind, OpenPosition, Joined,
              FillAfter, ExpectedInside, InsidePeriod, LastRow, IsBenchmark, LastSignal
<1>3. \A i \in 1 .. Len(ledger) - 1 :
        ledger[i].target = NoAsset \/ ledger[i].part = ledger[i + 1].part
    BY DEF RotationPeriodInv, AllJoined, Joined
<1>4. ledger # <<>> /\ ~awaiting => LastRow.target = NoAsset
    <2>1. ASSUME ledger # <<>> PROVE LastRow.day \in Nat
      <3>1. Len(ledger) \in 1 .. Len(ledger) /\ ledger[Len(ledger)] \in Rows
          BY <2>1 DEF RotationPeriodInv, RotationPeriodTypes
      <3> QED BY <3>1 DEF LastRow, Rows
    <2> QED BY <1>1, <2>1, RotationPeriodAssumption DEF RotationPeriodInv, OpenPosition, LastSignal
<1>5. Len(ledger) >= 2 => ledger # <<>>
    OBVIOUS
<1>6. verdict' \notin {"bridged_boundary", "not_cash"}
    BY <1>3, <1>4, <1>5 DEF EndRotationPeriod, LastRow, RotationPeriodInv, RotationPeriodTypes
<1> QED BY <1>2, <1>6 DEF RotationPeriodInv

(* Every step of a period keeps the invariant.                              *)
LEMMA RotationPeriodInvStep ==
    RotationPeriodInv /\ [RotationPeriodNext]_rotationPeriodVars => RotationPeriodInv'
<1> SUFFICES ASSUME RotationPeriodInv, [RotationPeriodNext]_rotationPeriodVars
             PROVE  RotationPeriodInv'
    OBVIOUS
<1>1. CASE UNCHANGED rotationPeriodVars
    BY <1>1 DEF rotationPeriodVars, RotationPeriodInv, RotationPeriodTypes, AllJoined, AllBehind,
              OpenPosition, Joined, FillAfter, ExpectedInside, LastRow, IsBenchmark, LastSignal
<1> QED BY <1>1, LiquidateLateStep, MeetGapStep, CountSessionStep, TradeSessionStep,
           EndRotationPeriodStep DEF RotationPeriodNext

(* Over any list of days, with any gaps, a position of the first rotation   *)
(* and of its benchmarks ends at the first fill after a gap, and neither    *)
(* check of the account's boundaries ever refuses a period.                 *)
THEOREM RotationNeverBridges == RotationPeriodSpec => []RotationBridgesNothing
<1>1. RotationPeriodInv => RotationBridgesNothing
    BY DEF RotationPeriodInv, RotationBridgesNothing, AllJoined, Joined
<1> QED BY RotationPeriodInvInit, RotationPeriodInvStep, <1>1, PTL DEF RotationPeriodSpec

-----------------------------------------------------------------------------
(*****************************************************************************)
(* The bindings and the simulator of the second rotation.  Both ways to bind *)
(* fills to sessions give the same facts (BindingFacts): a session with a fill is *)
(* complete, the fill of the next one is the delayed fill, the last fill is the *)
(* terminal one.  The last trace is the last eligible session passed         *)
(* (TracesReach), and whatever is held or queued is from the session before, in *)
(* the same segment (CarriedIsLast, QueueIsLast).                            *)
(*****************************************************************************)

Traces == [session : Sessions, fill : Nat, segment : Nat, before : Positions,
           after : Positions, desired : Positions, due : BOOLEAN, terminal : BOOLEAN]

LastTrace == trace[Len(trace)]

RotationTypes ==
    /\ grids \in [Sessions -> SUBSET Assets] /\ FillSessions(grids) # {}
    /\ source \in {"production", "grid"} /\ absent \in SUBSET Sessions
    /\ trial \in Trials /\ late \in BOOLEAN /\ position \in 1 .. Days + 1
    /\ carried \in Positions /\ queue \in [target : Positions, due : Nat, waiting : BOOLEAN]
    /\ window \in Nat /\ inside \in Nat \union {NoSegment} /\ trace \in Seq(Traces)

(* The last trace is the last eligible binding passed.                      *)
TracesReach ==
    /\ trace = <<>> => \A s \in Sessions : s < position => ~Eligible(Binding[s])
    /\ trace # <<>> =>
          /\ LastTrace.session < position /\ Eligible(Binding[LastTrace.session])
          /\ LastTrace.segment = Binding[LastTrace.session].segment
          /\ LastTrace.terminal = Binding[LastTrace.session].terminal
          /\ \A s \in Sessions : LastTrace.session < s /\ s < position => ~Eligible(Binding[s])

(* A position and a queued target are those of the fill just before.        *)
CarriedIsLast ==
    /\ carried # Cash => /\ trace # <<>> /\ LastTrace.session = position - 1
                        /\ inside = LastTrace.segment
    /\ trace # <<>> /\ LastTrace.after # Cash => carried = LastTrace.after
    /\ carried # Cash => LastTrace.after = carried
QueueIsLast ==
    queue.waiting =>
        /\ trace # <<>> /\ LastTrace.session = position - 1 /\ inside = LastTrace.segment
        /\ queue.target = LastTrace.desired /\ queue.due = Binding[LastTrace.session].delayed

RotationInv ==
    /\ RotationTypes /\ RotationSound
    /\ outcome = "running" => TracesReach /\ CarriedIsLast /\ QueueIsLast

(* The rule and its oracle, but for ties from cash.                         *)
LEMMA RuleIsOracle ==
    ASSUME NEW t \in Trials, NEW s \in Scores, NEW u \in Medians, NEW p \in Positions,
           ~(t.tie_btc /\ p = Cash /\ s[Btc] = s[Eth])
    PROVE  DecisionForScores(t, s, u, p) = OracleTarget(t, s, u, p)
<1> DEFINE winner == IF s[Btc] > s[Eth] THEN Btc ELSE Eth
           loser == IF winner = Btc THEN Eth ELSE Btc
           lead == s[winner] - s[loser]
           leads == lead >= t.gap
           blocked == t.cash_filter /\ ~u[winner]
           leaves == t.cash_filter /\ p # Cash /\ ~u[p]
           ahead == s[winner] - (IF p = Cash THEN s[IF winner = Btc THEN Eth ELSE Btc] ELSE s[p])
           level == s[Btc] = s[Eth]
           favours == p = Cash /\ t.tie_btc
<1>1. /\ Btc # Eth /\ Cash # Btc /\ Cash # Eth /\ p \in {Btc, Eth, Cash}
    BY RotationAssumption DEF Positions, Cash
<1>2. /\ winner \in {Btc, Eth} /\ winner # loser /\ loser \in {Btc, Eth}
      /\ p = winner \/ p = loser \/ p = Cash
    BY <1>1
<1>3. DecisionForScores(t, s, u, p) =
        IF leaves THEN Cash
        ELSE IF level THEN (IF favours THEN Btc ELSE p)
        ELSE IF p = winner THEN (IF ~blocked THEN winner ELSE Cash)
        ELSE IF leads /\ ~blocked THEN winner ELSE p
    BY Zenon DEF DecisionForScores
<1>4. OracleTarget(t, s, u, p) =
        IF leaves THEN Cash
        ELSE IF level \/ blocked THEN p
        ELSE IF p = winner \/ ahead >= t.gap THEN winner ELSE p
    BY Zenon DEF OracleTarget
<1>5. p # winner => ahead = lead
    BY <1>1, <1>2
<1>6. p = winner => (blocked => leaves)
    BY <1>1, <1>2
<1>7. ~(level /\ favours)
    OBVIOUS
<1> HIDE DEF winner, loser, lead, leads, leaves, level, favours, blocked, ahead
<1>8. CASE leaves
    BY <1>3, <1>4, <1>8
<1>9. CASE ~leaves /\ level
    BY <1>3, <1>4, <1>7, <1>9
<1>10. CASE ~leaves /\ ~level /\ blocked
    BY <1>3, <1>4, <1>6, <1>10
<1>11. CASE ~leaves /\ ~level /\ ~blocked /\ p = winner
    BY <1>3, <1>4, <1>11
<1>12. CASE ~leaves /\ ~level /\ ~blocked /\ p # winner
    BY <1>3, <1>4, <1>5, <1>12 DEF leads
<1> QED BY <1>8, <1>9, <1>10, <1>11, <1>12

(* A decision is a position.                                                *)
LEMMA DecisionType ==
    ASSUME trial \in Trials, NEW p \in Positions, NEW d \in Targets(p)
    PROVE  d \in Positions
BY RotationAssumption DEF Targets, DecisionForScores, Positions, Cash

(* What the simulator relies on, whichever way the bindings were made.      *)
BindingFacts ==
    /\ \A s \in Sessions :
          /\ Binding[s].observed <=> Complete(grids, s)
          /\ Binding[s].segment = Cardinality(Breaks(grids, s))
          /\ Binding[s].delayed \in Nat
          /\ Eligible(Binding[s]) => Binding[s].base = s + 1 /\ Binding[s].terminal \in BOOLEAN
    /\ \A s \in Sessions :
          Eligible(Binding[s]) /\ s + 1 \in Sessions /\ Eligible(Binding[s + 1]) =>
             Binding[s].delayed = Binding[s + 1].base
    /\ \A s \in Sessions : Eligible(Binding[s]) =>
          (Binding[s].terminal <=> \A t \in Sessions : Eligible(Binding[t]) => t <= s)

(* The bindings of an index of fills have the facts.                        *)
LEMMA GridFacts == source = "grid" => BindingFacts
<1> SUFFICES ASSUME source = "grid" PROVE BindingFacts
    OBVIOUS
<1> DEFINE m == grids
           run == CompleteRun(m)
           count(s) == Cardinality({t \in 1 .. s : ~Complete(m, t)})
           low(s) == LowerOf(Recovery, run[s])
           state == [s \in Sessions |-> [observed |-> Complete(m, s), segment |-> count(s),
                                         recovery |-> low(s)]]
           base == [s \in Sessions |-> IF Complete(m, s) THEN RequiredVector(s) ELSE NoFill]
           able == {s \in Sessions : state[s].recovery = Recovery /\ base[s] # NoFill}
           later(s) == IF /\ s \in able /\ s + 1 \in able
                          /\ state[s + 1].segment = state[s].segment
                       THEN base[s + 1] ELSE NoFill
           final(s) == base[s] # NoFill /\ \A t \in able : t <= s
           bind == [s \in Sessions |->
                      [observed |-> state[s].observed, segment |-> state[s].segment,
                       recovery |-> state[s].recovery, base |-> base[s],
                       delayed |-> later(s), terminal |-> final(s)]]
<1>1. Binding = bind
    BY DEF Binding, GridBindings, GridState
<1>2. \A s \in Sessions : base[s] \in Nat /\ (base[s] # NoFill => base[s] = s + 1 /\ Complete(m, s))
    BY DEF RequiredVector, NoFill, NoTime, Sessions
<1>3. \A s \in Sessions : /\ state[s].observed = Complete(m, s) /\ state[s].segment = count(s)
                          /\ state[s].recovery = low(s)
    OBVIOUS
<1> HIDE DEF state, base
<1>4. \A s \in Sessions : /\ bind[s].observed = Complete(m, s) /\ bind[s].segment = count(s)
                          /\ bind[s].recovery = low(s) /\ bind[s].base = base[s]
                          /\ bind[s].delayed = later(s) /\ bind[s].terminal = final(s)
  <2> HIDE DEF m, count, low, later, final
  <2> QED BY <1>3
<1>5. \A s \in Sessions : Eligible(bind[s]) <=> s \in able
  <2> SUFFICES ASSUME NEW s \in Sessions PROVE Eligible(bind[s]) <=> s \in able
      OBVIOUS
  <2>1. Eligible(bind[s]) <=> Complete(m, s) /\ low(s) = Recovery /\ base[s] # NoFill
      BY <1>4 DEF Eligible
  <2>2. s \in able <=> low(s) = Recovery /\ base[s] # NoFill
      BY <1>3
  <2> QED BY <1>2, <2>1, <2>2
<1>6. \A s \in Sessions : later(s) \in Nat /\ final(s) \in BOOLEAN
    BY <1>2 DEF NoFill, NoTime
<1>7. ASSUME NEW s \in Sessions, s \in able, s + 1 \in able
      PROVE  later(s) = base[s + 1]
  <2>1. Complete(m, s + 1) /\ s + 1 \in Sessions
      BY <1>2, <1>7
  <2>2. count(s + 1) = count(s)
      BY <2>1, SegmentsStay DEF Breaks
  <2> QED BY <1>3, <1>7, <2>1, <2>2
<1> HIDE DEF bind, later
<1>8. \A s \in Sessions : s \in able => base[s] # NoFill
    OBVIOUS
<1>9. \A s \in Sessions : s \in able => (final(s) <=> \A t \in able : t <= s)
    BY <1>8
<1> HIDE DEF final
<1>10. able \in SUBSET Sessions
    OBVIOUS
<1> HIDE DEF able
<1>11. \A s \in Sessions :
          /\ Binding[s].observed <=> Complete(m, s)
          /\ Binding[s].segment = Cardinality(Breaks(m, s))
          /\ Binding[s].delayed \in Nat
          /\ Eligible(Binding[s]) => Binding[s].base = s + 1 /\ Binding[s].terminal \in BOOLEAN
    BY <1>1, <1>2, <1>4, <1>5, <1>6, <1>8 DEF Breaks
<1>12. \A s \in Sessions :
          Eligible(Binding[s]) /\ s + 1 \in Sessions /\ Eligible(Binding[s + 1]) =>
             Binding[s].delayed = Binding[s + 1].base
    BY <1>1, <1>4, <1>5, <1>7
<1>13. \A s \in Sessions : Eligible(Binding[s]) =>
          (Binding[s].terminal <=> \A t \in Sessions : Eligible(Binding[t]) => t <= s)
    BY <1>1, <1>4, <1>5, <1>9, <1>10
<1> QED BY <1>11, <1>12, <1>13 DEF BindingFacts

(* A session with a fill has recovered.                                     *)
LEMMA FillRecovered ==
    ASSUME NEW m, NEW s \in FillSessions(m)
    PROVE  LowerOf(Recovery, CompleteRun(m)[s]) = Recovery
<1>1. CompleteRun(m)[s] \in Nat /\ CompleteRun(m)[s] >= Recovery
    BY FillFacts, CompleteRunEquation, CalendarAssumption DEF Sessions
<1> QED BY <1>1, CalendarAssumption DEF LowerOf

(* The fills of the mean-reversion pipeline join the grid.                  *)
LEMMA NoFillRefused == ASSUME NEW m PROVE RefusedFills(m) = {}
<1> SUFFICES ASSUME NEW s \in FillSessions(m)
             PROVE  /\ GridState(m)[s].observed /\ GridState(m)[s].recovery = Recovery
                    /\ FillIdentities(m)[s].base = s + 1
                    /\ \/ FillIdentities(m)[s].delayed = NoTime
                       \/ ~(FillIdentities(m)[s].delayed <= FillIdentities(m)[s].base)
                    /\ FillIdentities(m)[s].index = Cardinality({t \in FillSessions(m) : t < s})
    BY Zenon DEF RefusedFills
<1>1. s \in Sessions /\ s \in Nat
    BY FillFacts DEF Sessions
<1>2. GridState(m)[s].observed = Complete(m, s)
    BY <1>1 DEF GridState
<1>3. GridState(m)[s].recovery = LowerOf(Recovery, CompleteRun(m)[s])
    BY <1>1 DEF GridState
<1>4. \/ FillIdentities(m)[s].delayed = NoTime
      \/ ~(FillIdentities(m)[s].delayed <= FillIdentities(m)[s].base)
  <2>1. FillIdentities(m)[s].base = s + 1
      BY FillFacts
  <2>2. FillIdentities(m)[s].delayed \in {s + 2, NoTime}
      BY FillFacts
  <2> QED BY <1>1, <2>1, <2>2
<1> QED BY <1>2, <1>3, <1>4, FillFacts, FillRecovered

(* So have the bindings of the fills of the mean-reversion pipeline.        *)
LEMMA ProductionFacts == source = "production" /\ FillSessions(grids) # {} => BindingFacts
<1> SUFFICES ASSUME source = "production", FillSessions(grids) # {} PROVE BindingFacts
    OBVIOUS
<1> DEFINE m == grids
           F == FillSessions(m)
           fill == FillIdentities(m)
           low(s) == LowerOf(Recovery, CompleteRun(m)[s])
           count(s) == Cardinality(Breaks(m, s))
           base(s) == IF s \in F THEN fill[s].base ELSE NoFill
           later(s) == IF s \in F THEN fill[s].delayed ELSE NoFill
           final(s) == s \in F /\ s = TerminalSession(m)
<1>1. \A s \in Sessions :
         /\ Binding[s].observed = Complete(m, s) /\ Binding[s].segment = count(s)
         /\ Binding[s].recovery = low(s) /\ Binding[s].base = base(s)
         /\ Binding[s].delayed = later(s) /\ Binding[s].terminal = final(s)
  <2> DEFINE state == GridState(m)
  <2>1. \A s \in Sessions : /\ state[s].observed = Complete(m, s) /\ state[s].segment = count(s)
                            /\ state[s].recovery = low(s)
      BY DEF GridState, Breaks
  <2>2. Binding = [s \in Sessions |->
                     [observed |-> state[s].observed, segment |-> state[s].segment,
                      recovery |-> state[s].recovery, base |-> base(s),
                      delayed |-> later(s), terminal |-> final(s)]]
      BY DEF Binding, ProductionBindings
  <2> HIDE DEF state, low, count, base, later, final
  <2> QED BY <2>1, <2>2
<1>2. /\ F \subseteq Sessions
      /\ \A s \in F : /\ Complete(m, s) /\ low(s) = Recovery /\ fill[s].base = s + 1
                      /\ fill[s].delayed = IF s + 1 \in F THEN s + 2 ELSE NoTime
    BY FillFacts, FillRecovered
<1>3. F \in SUBSET Int
    BY <1>2 DEF Sessions
<1>4. TerminalSession(m) \in F /\ \A t \in F : t <= TerminalSession(m)
    BY TerminalIsLast
<1>5. \A s \in Sessions : count(s) \in Nat
    BY SegmentsStay
<1> HIDE DEF m, F, fill, low, count
<1>6. \A s \in Sessions : s \in Nat
    BY DEF Sessions
<1>7. \A s \in Sessions : Eligible(Binding[s]) <=> s \in F
    BY <1>1, <1>2, <1>6 DEF Eligible, NoFill, NoTime
<1>8. \A s \in F : Binding[s].base = s + 1
    BY <1>1, <1>2
<1>9. \A s \in Sessions : Binding[s].delayed \in Nat
    BY <1>1, <1>2, <1>6 DEF NoFill, NoTime
<1>10. \A s \in F : final(s) <=> \A t \in F : t <= s
  <2> DEFINE last == TerminalSession(m)
  <2>1. \A s \in F : final(s) <=> s = last
      OBVIOUS
  <2>2. last \in F /\ last \in Int /\ \A t \in F : t \in Int /\ t <= last
      BY <1>3, <1>4
  <2> HIDE DEF last, final
  <2>3. \A s \in F : s = last <=> \A t \in F : t <= s
      BY <2>2
  <2> QED BY <2>1, <2>3
<1>11. \A s \in F : s + 1 \in F => Binding[s].delayed = Binding[s + 1].base
    BY <1>1, <1>2, <1>6, <1>8
<1> HIDE DEF final
<1>12. \A s \in Sessions :
          /\ Binding[s].observed <=> Complete(grids, s)
          /\ Binding[s].segment = Cardinality(Breaks(grids, s))
          /\ Binding[s].delayed \in Nat
          /\ Eligible(Binding[s]) => Binding[s].base = s + 1 /\ Binding[s].terminal \in BOOLEAN
    BY <1>1, <1>7, <1>8, <1>9 DEF m, count, final
<1>13. \A s \in Sessions :
          Eligible(Binding[s]) /\ s + 1 \in Sessions /\ Eligible(Binding[s + 1]) =>
             Binding[s].delayed = Binding[s + 1].base
    BY <1>7, <1>11
<1>14. \A s \in Sessions : Eligible(Binding[s]) =>
          (Binding[s].terminal <=> \A t \in Sessions : Eligible(Binding[t]) => t <= s)
    BY <1>1, <1>2, <1>7, <1>10
<1> QED BY <1>12, <1>13, <1>14 DEF BindingFacts

(* Either way the bindings have the facts.                                  *)
LEMMA BindingsKnown == RotationTypes => BindingFacts
BY GridFacts, ProductionFacts DEF RotationTypes

(* What the bindings are made of never changes.                             *)
LEMMA BindingsStay == UNCHANGED <<source, grids, absent>> => Binding' = Binding
BY DEF Binding, GridBindings, RequiredVector

(* The rule decides like its oracle in every state.                         *)
LEMMA RuleKept ==
    ASSUME trial \in Trials
    PROVE  \A s \in Scores, u \in Medians, p \in Positions :
              (trial.tie_btc /\ p = Cash /\ s[Btc] = s[Eth]) \/
                 DecisionForScores(trial, s, u, p) = OracleTarget(trial, s, u, p)
BY RuleIsOracle

(* A position still held is that of the session before, in one segment with *)
(* a session that is complete.                                              *)
LEMMA HeldFromBefore ==
    ASSUME RotationInv, RotationRunning, Binding[position].observed,
           carried # Cash \/ queue.waiting
    PROVE  /\ trace # <<>> /\ LastTrace.session = position - 1 /\ position - 1 \in Sessions
           /\ Eligible(Binding[position - 1])
           /\ Binding[position].segment = LastTrace.segment
           /\ ~Fresh(Binding[position])
<1>1. /\ trace # <<>> /\ LastTrace.session = position - 1 /\ inside = LastTrace.segment
      /\ trace \in Seq(Traces) /\ position \in Sessions /\ BindingFacts
      /\ Eligible(Binding[LastTrace.session])
      /\ LastTrace.segment = Binding[LastTrace.session].segment
    BY BindingsKnown, CalendarAssumption
    DEF RotationInv, RotationRunning, CarriedIsLast, QueueIsLast, TracesReach, RotationTypes,
        Sessions
<1>2. LastTrace \in Traces
    BY <1>1 DEF LastTrace
<1>3. position - 1 \in Sessions
    BY <1>1, <1>2 DEF Traces
<1>4. Complete(grids, position)
    BY <1>1 DEF BindingFacts
<1>5. Cardinality(Breaks(grids, position)) = Cardinality(Breaks(grids, position - 1))
  <2>1. position = (position - 1) + 1
      BY <1>1 DEF Sessions
  <2> QED BY <1>1, <1>3, <1>4, <2>1, SegmentsStay
<1>6. Binding[position].segment = Binding[position - 1].segment
    BY <1>1, <1>3, <1>5 DEF BindingFacts
<1> QED BY <1>1, <1>3, <1>6 DEF Fresh

(* An end keeps the invariant.                                              *)
LEMMA HaltStep ==
    ASSUME RotationInv, NEW why, Halt(why),
           why \notin {"running", "refused_fill", "missing_delayed_vector", "gap_bridge"},
           why = "terminal_cash_invariant" => trace = <<>>
    PROVE  RotationInv'
<1>1. /\ outcome' = why /\ UNCHANGED <<source, grids, absent, trial, late, position, carried,
                                       queue, window, inside, trace>>
    BY DEF Halt
<1>2. RotationTypes'
    BY <1>1 DEF RotationInv, RotationTypes
<1>3. trial \in Trials
    BY DEF RotationInv, RotationTypes
<1>4. RotationAgrees'
    BY <1>1, <1>3, RuleKept DEF RotationAgrees
<1>5. RotationExposureObserved'
    BY <1>1 DEF RotationInv, RotationSound, RotationExposureObserved
<1> QED BY <1>1, <1>2, <1>4, <1>5 DEF RotationInv, RotationSound

(* So does passing a session without a fill from cash.                      *)
LEMMA SessionPassed ==
    ASSUME RotationInv, RotationRunning, carried = Cash, ~Eligible(Binding[position]),
           NEW n \in Nat, NEW seg \in Nat \union {NoSegment},
           Onward(Cash, EmptyQueue, n, seg, trace)
    PROVE  RotationInv'
<1>1. /\ carried' = Cash /\ queue' = EmptyQueue /\ window' = n /\ inside' = seg /\ trace' = trace
      /\ position' = position + 1 /\ outcome' = outcome /\ outcome = "running"
      /\ UNCHANGED <<source, grids, absent, trial, late>>
    BY DEF Onward, RotationRunning
<1>2. position \in Nat /\ position <= Days /\ Days \in Nat /\ Binding' = Binding
      /\ position >= 1
    BY <1>1, BindingsStay, CalendarAssumption DEF RotationInv, RotationTypes, RotationRunning
<1> DEFINE no == FALSE
<1> HIDE DEF no
<1>3. EmptyQueue = [target |-> Cash, due |-> NoTime, waiting |-> no]
    BY DEF EmptyQueue, no
<1>4. no \in BOOLEAN /\ ~no
    BY DEF no
<1>5. EmptyQueue \in [target : Positions, due : Nat, waiting : BOOLEAN] /\ EmptyQueue.waiting = no
    BY <1>3, <1>4 DEF Positions, NoTime
<1>6. RotationTypes'
    BY <1>1, <1>2, <1>5 DEF RotationInv, RotationTypes, Positions
<1>7. RotationSound'
  <2>1. trial \in Trials
      BY DEF RotationInv, RotationTypes
  <2>2. RotationAgrees'
      BY <1>1, <2>1, RuleKept DEF RotationAgrees
  <2>3. RotationExposureObserved'
      BY <1>1 DEF RotationInv, RotationSound, RotationExposureObserved
  <2> QED BY <2>2, <2>3 DEF RotationSound
<1>8. LastTrace' = LastTrace
    BY <1>1 DEF LastTrace
<1>9. TracesReach'
  <2>1. TracesReach
      BY <1>1 DEF RotationInv
  <2>2. \A s \in Sessions : s < position + 1 <=> s < position \/ s = position
      BY <1>2 DEF Sessions
  <2>3. trace # <<>> => LastTrace.session < position + 1
    <3>1. ASSUME trace # <<>> PROVE LastTrace.session \in Nat
      <4>1. trace \in Seq(Traces)
          BY DEF RotationInv, RotationTypes
      <4>2. LastTrace \in Traces
          BY <3>1, <4>1 DEF LastTrace
      <4> QED BY <4>2 DEF Traces, Sessions
    <3> QED BY <1>2, <2>1, <3>1 DEF TracesReach
  <2>4. \A s \in Sessions : s < position + 1 /\ Eligible(Binding[s]) => s < position
      BY <2>2
  <2> QED BY <1>1, <1>2, <1>8, <2>1, <2>3, <2>4 DEF TracesReach
<1>10. CarriedIsLast'
    BY <1>1, <1>8 DEF RotationInv, CarriedIsLast
<1>11. QueueIsLast'
    BY <1>1, <1>4, <1>5 DEF QueueIsLast
<1> QED BY <1>1, <1>6, <1>7, <1>9, <1>10, <1>11 DEF RotationInv

(* So does a session with a fill, whatever is decided.                      *)
LEMMA SessionTraced ==
    ASSUME RotationInv, RotationRunning, Eligible(Binding[position]), NEW n \in Nat,
           NEW after \in Positions, NEW desired \in Positions, NEW due \in BOOLEAN,
           NEW q \in [target : Positions, due : Nat, waiting : BOOLEAN],
           q.waiting => q.target = desired /\ q.due = Binding[position].delayed,
           late /\ after \notin {Cash, carried} => queue.waiting /\ after = queue.target,
           Onward(after, q, n, Binding[position].segment,
                  Traced(Binding[position], carried, after, desired, due))
    PROVE  RotationInv'
<1> DEFINE b == Binding[position]
           row == [session |-> position, fill |-> b.base, segment |-> b.segment,
                   before |-> carried, after |-> after, desired |-> desired,
                   due |-> due, terminal |-> b.terminal]
<1>1. /\ carried' = after /\ queue' = q /\ window' = n /\ inside' = b.segment
      /\ trace' = Append(trace, row)
      /\ position' = position + 1 /\ outcome' = outcome /\ outcome = "running"
      /\ UNCHANGED <<source, grids, absent, trial, late>>
    BY DEF Onward, RotationRunning, Traced
<1>2. /\ position \in Nat /\ position <= Days /\ Days \in Nat /\ Binding' = Binding
      /\ position >= 1 /\ position \in Sessions /\ BindingFacts /\ trace \in Seq(Traces)
      /\ carried \in Positions /\ trial \in Trials
    BY <1>1, BindingsStay, BindingsKnown, CalendarAssumption
    DEF RotationInv, RotationTypes, RotationRunning, Sessions
<1>3. /\ b.base \in Nat /\ b.segment \in Nat /\ b.terminal \in BOOLEAN /\ b.observed
      /\ Eligible(b)
    BY <1>2, SegmentsStay DEF BindingFacts, Eligible
<1> HIDE DEF b
<1>4. row \in Traces
    BY <1>2, <1>3 DEF Traces
<1>5. /\ row.session = position /\ row.segment = b.segment /\ row.before = carried
      /\ row.after = after /\ row.desired = desired /\ row.terminal = b.terminal
    OBVIOUS
<1> HIDE DEF row
<1>6. /\ trace' \in Seq(Traces) /\ trace' # <<>> /\ Len(trace') = Len(trace) + 1
      /\ Len(trace) \in Nat /\ trace'[Len(trace) + 1] = row /\ trace'[Len(trace')] = row
      /\ \A i \in 1 .. Len(trace) : trace'[i] = trace[i]
  <2> HIDE DEF Traces
  <2> QED BY <1>1, <1>2, <1>4
<1>7. LastTrace' = row
    BY <1>6 DEF LastTrace
<1>8. RotationTypes'
  <2>1. /\ grids' = grids /\ source' = source /\ absent' = absent /\ trial' = trial
        /\ late' = late /\ RotationTypes
      BY <1>1 DEF RotationInv
  <2>2. /\ position' \in 1 .. Days + 1 /\ carried' \in Positions /\ window' \in Nat
        /\ queue' \in [target : Positions, due : Nat, waiting : BOOLEAN]
        /\ inside' \in Nat \union {NoSegment} /\ trace' \in Seq(Traces)
    <3> HIDE DEF Traces
    <3> QED BY <1>1, <1>2, <1>3, <1>6
  <2> HIDE DEF Traces
  <2> QED BY <2>1, <2>2 DEF RotationTypes
<1>9. RotationAgrees'
  <2>1. position' # 1
      BY <1>1, <1>2
  <2> QED BY <1>1, <2>1 DEF RotationAgrees
<1>10. ASSUME trace # <<>>, LastTrace.after # Cash
       PROVE  row.session = LastTrace.session + 1 /\ row.segment = LastTrace.segment
              /\ row.before = LastTrace.after
  <2>1. carried = LastTrace.after
      BY <1>1, <1>10 DEF RotationInv, CarriedIsLast
  <2>2. LastTrace.session = position - 1 /\ b.segment = LastTrace.segment
      BY <1>3, <1>10, <2>1, HeldFromBefore DEF b
  <2> QED BY <1>2, <1>5, <2>1, <2>2
<1>11. ASSUME trace # <<>>, late, row.after \notin {Cash, LastTrace.after}
       PROVE  row.after = LastTrace.desired
  <2>1. carried # Cash => carried = LastTrace.after
      BY <1>1 DEF RotationInv, CarriedIsLast
  <2>2. after \notin {Cash, carried}
      BY <1>5, <1>11, <2>1
  <2>3. queue.waiting /\ after = queue.target
      BY <1>11, <2>2
  <2> QED BY <1>1, <1>5, <2>3 DEF RotationInv, QueueIsLast
<1>12. RotationExposureObserved'
  <2> SUFFICES ASSUME NEW i \in 1 .. Len(trace') - 1
               PROVE  /\ trace'[i].after # Cash =>
                            /\ trace'[i + 1].session = trace'[i].session + 1
                            /\ trace'[i + 1].segment = trace'[i].segment
                            /\ trace'[i + 1].before = trace'[i].after
                      /\ late' /\ trace'[i + 1].after \notin {Cash, trace'[i].after} =>
                            trace'[i + 1].after = trace'[i].desired
      BY DEF RotationExposureObserved
  <2>1. CASE i = Len(trace)
    <3>1. trace'[i + 1] = row /\ trace # <<>> /\ trace'[i] = LastTrace
        BY <1>2, <1>6, <2>1 DEF LastTrace
    <3> QED BY <1>1, <1>10, <1>11, <3>1
  <2>2. CASE i # Len(trace)
    <3>1. i \in 1 .. Len(trace) - 1 /\ i + 1 \in 1 .. Len(trace) /\ i \in 1 .. Len(trace)
        BY <1>6, <2>2
    <3>2. trace'[i] = trace[i] /\ trace'[i + 1] = trace[i + 1]
        BY <1>6, <3>1
    <3>3. RotationExposureObserved
        BY DEF RotationInv, RotationSound
    <3> QED BY <1>1, <3>1, <3>2, <3>3 DEF RotationExposureObserved
  <2> QED BY <2>1, <2>2
<1>13. TracesReach'
  <2>1. \A s \in Sessions : ~(position < s /\ s < position + 1)
      BY <1>2 DEF Sessions
  <2> QED BY <1>1, <1>2, <1>3, <1>5, <1>6, <1>7, <2>1 DEF TracesReach, b
<1>14. CarriedIsLast'
    BY <1>1, <1>2, <1>5, <1>6, <1>7 DEF CarriedIsLast
<1>15. QueueIsLast'
    BY <1>1, <1>2, <1>5, <1>6, <1>7 DEF QueueIsLast, b
<1> QED BY <1>1, <1>8, <1>9, <1>12, <1>13, <1>14, <1>15 DEF RotationInv, RotationSound

(* An incomplete session ends the run when something is held.               *)
LEMMA CrossStep == RotationInv /\ CrossGap => RotationInv'
<1> SUFFICES ASSUME RotationInv, CrossGap PROVE RotationInv'
    OBVIOUS
<1>1. RotationRunning /\ ~Eligible(Binding[position])
    BY DEF CrossGap, Eligible
<1>2. CASE carried # Cash
  <2>1. Halt("unpriced_exposed_quarantine")
      BY <1>2 DEF CrossGap
  <2> QED BY <2>1, HaltStep
<1>3. CASE carried = Cash
  <2>1. Onward(Cash, EmptyQueue, 0, NoSegment, trace)
      BY <1>3 DEF CrossGap
  <2> QED BY <1>1, <1>3, <2>1, SessionPassed
<1> QED BY <1>2, <1>3

(* So does a session without a fill.                                        *)
LEMMA IneligibleStep == RotationInv /\ ObserveIneligible => RotationInv'
<1> SUFFICES ASSUME RotationInv, ObserveIneligible PROVE RotationInv'
    OBVIOUS
<1> DEFINE b == Binding[position]
<1>1. RotationRunning /\ b.observed /\ ~Eligible(b)
    BY DEF ObserveIneligible
<1>2. CASE carried # Cash
  <2>1. ~Fresh(b)
      BY <1>1, <1>2, HeldFromBefore
  <2>2. Halt("missing_exact_fill")
      BY <1>2, <2>1 DEF ObserveIneligible
  <2> QED BY <2>2, HaltStep
<1>3. CASE carried = Cash
  <2>1. Onward(Cash, EmptyQueue, History(b), b.segment, trace)
      BY <1>3 DEF ObserveIneligible
  <2>2. History(b) \in Nat
      BY DEF History, RotationInv, RotationTypes
  <2>3. b.segment \in Nat
      BY <1>1, BindingsKnown, SegmentsStay, CalendarAssumption
      DEF BindingFacts, RotationInv, RotationTypes, RotationRunning, Sessions
  <2> QED BY <1>1, <1>3, <2>1, <2>2, <2>3, SessionPassed
<1> QED BY <1>2, <1>3

(* A session with a fill executes what is due, then decides.                *)
LEMMA EligibleStep == RotationInv /\ ObserveEligible => RotationInv'
<1> SUFFICES ASSUME RotationInv, ObserveEligible PROVE RotationInv'
    OBVIOUS
<1> DEFINE b == Binding[position]
           n == History(b)
           old == IF Fresh(b) THEN EmptyQueue ELSE queue
           executes == late /\ old.waiting /\ ~b.terminal
           actual == IF executes THEN old.target ELSE carried
           no == FALSE
           yes == TRUE
           bound(d) == [target |-> d, due |-> b.delayed, waiting |-> yes]
<1>1. /\ RotationRunning /\ Eligible(b)
      /\ IF Fresh(b) /\ carried # Cash THEN Halt("gap_bridge")
         ELSE IF executes /\ old.due # b.base THEN Halt("missing_delayed_vector")
         ELSE IF b.terminal \/ ~Scored(b, n)
         THEN Onward(Cash, EmptyQueue, n, b.segment, Traced(b, carried, Cash, Cash, executes))
         ELSE \E desired \in Targets(actual) :
                IF late
                THEN Onward(actual, bound(desired), n, b.segment,
                            Traced(b, carried, actual, desired, executes))
                ELSE Onward(desired, EmptyQueue, n, b.segment,
                            Traced(b, carried, desired, desired, no))
    BY DEF ObserveEligible
<1> HIDE DEF no, yes
<1>2. b.observed
    BY <1>1 DEF Eligible
<1>3. /\ BindingFacts /\ position \in Sessions /\ n \in Nat /\ carried \in Positions
      /\ queue \in [target : Positions, due : Nat, waiting : BOOLEAN] /\ trial \in Trials
      /\ late \in BOOLEAN
    BY <1>1, BindingsKnown, CalendarAssumption
    DEF RotationInv, RotationTypes, RotationRunning, Sessions, History
<1>4. EmptyQueue = [target |-> Cash, due |-> NoTime, waiting |-> no] /\ no \in BOOLEAN /\ ~no
      /\ yes \in BOOLEAN
    BY DEF EmptyQueue, no, yes
<1>5. Cash \in Positions /\ NoTime \in Nat
    BY DEF Positions, NoTime
<1>6. EmptyQueue \in [target : Positions, due : Nat, waiting : BOOLEAN] /\ ~EmptyQueue.waiting
    BY <1>4, <1>5
<1>7. old.waiting => old = queue /\ queue.waiting
    BY <1>6
<1>8. executes \in BOOLEAN /\ actual \in Positions
    BY <1>3, <1>6
<1>9. ~(Fresh(b) /\ carried # Cash)
    BY <1>1, <1>2, HeldFromBefore
<1>10. executes => queue.waiting /\ old = queue
    BY <1>7
<1>11. ~(executes /\ old.due # b.base)
  <2> SUFFICES ASSUME executes PROVE old.due = b.base
      OBVIOUS
  <2>1. queue.waiting /\ old = queue
      BY <1>10
  <2>2. queue.due = Binding[position - 1].delayed
      BY <1>1, <1>2, <2>1, HeldFromBefore DEF RotationInv, RotationRunning, QueueIsLast
  <2>3. /\ position - 1 \in Sessions /\ position = (position - 1) + 1
        /\ Eligible(Binding[position - 1])
      BY <1>1, <1>2, <1>3, <2>1, HeldFromBefore DEF Sessions
  <2>4. Binding[position - 1].delayed = Binding[position].base
      BY <1>1, <1>3, <2>3 DEF BindingFacts
  <2> QED BY <2>1, <2>2, <2>4
<1>12. late /\ actual \notin {Cash, carried} => queue.waiting /\ actual = queue.target
    BY <1>10
<1> HIDE DEF executes, actual, n, old
<1>13. CASE b.terminal \/ ~Scored(b, n)
  <2>1. Onward(Cash, EmptyQueue, n, b.segment, Traced(b, carried, Cash, Cash, executes))
      BY <1>1, <1>9, <1>11, <1>13
  <2> QED BY <1>1, <1>3, <1>5, <1>6, <1>8, <2>1, SessionTraced
<1>14. CASE ~(b.terminal \/ ~Scored(b, n))
  <2>1. PICK desired \in Targets(actual) :
           IF late
           THEN Onward(actual, bound(desired), n, b.segment,
                       Traced(b, carried, actual, desired, executes))
           ELSE Onward(desired, EmptyQueue, n, b.segment,
                       Traced(b, carried, desired, desired, no))
      BY <1>1, <1>9, <1>11, <1>14
  <2>2. desired \in Positions
      BY <1>3, <1>8, DecisionType
  <2>3. CASE late
    <3>1. b.delayed \in Nat
        BY <1>3 DEF BindingFacts
    <3>2. bound(desired) \in [target : Positions, due : Nat, waiting : BOOLEAN]
          /\ bound(desired).target = desired /\ bound(desired).due = b.delayed
        BY <1>4, <2>2, <3>1
    <3>3. Onward(actual, bound(desired), n, b.segment,
                 Traced(b, carried, actual, desired, executes))
        BY <2>1, <2>3
    <3> HIDE DEF bound
    <3> QED BY <1>1, <1>3, <1>8, <1>12, <2>2, <3>2, <3>3, SessionTraced
  <2>4. CASE ~late
    <3>1. Onward(desired, EmptyQueue, n, b.segment, Traced(b, carried, desired, desired, no))
        BY <2>1, <2>4
    <3> QED BY <1>1, <1>3, <1>4, <1>6, <2>2, <2>4, <3>1, SessionTraced
  <2> QED BY <2>3, <2>4
<1> QED BY <1>13, <1>14

(* Anything traded was liquidated at the last fill of the period.           *)
LEMMA CloseStep == RotationInv /\ CloseRotation => RotationInv'
<1> SUFFICES ASSUME RotationInv, CloseRotation PROVE RotationInv'
    OBVIOUS
<1>1. outcome = "running" /\ position = Days + 1 /\ Days \in Nat
    BY CalendarAssumption DEF CloseRotation
<1>2. ASSUME trace # <<>> PROVE trace[Len(trace)].terminal
  <2>1. /\ Eligible(Binding[LastTrace.session])
        /\ LastTrace.terminal = Binding[LastTrace.session].terminal
        /\ \A s \in Sessions : LastTrace.session < s /\ s < position => ~Eligible(Binding[s])
      BY <1>1, <1>2 DEF RotationInv, TracesReach
  <2>2. LastTrace \in Traces
    <3>1. trace \in Seq(Traces)
        BY DEF RotationInv, RotationTypes
    <3> QED BY <1>2, <3>1 DEF LastTrace
  <2>3. LastTrace.session \in Sessions
      BY <2>2 DEF Traces
  <2>4. \A s \in Sessions : Eligible(Binding[s]) => s <= LastTrace.session
    <3>1. \A s \in Sessions : s \in Int /\ s < position
        BY <1>1 DEF Sessions
    <3> QED BY <2>1, <2>3, <3>1
  <2>5. BindingFacts
      BY BindingsKnown DEF RotationInv
  <2>6. Binding[LastTrace.session].terminal
      BY <2>1, <2>3, <2>4, <2>5 DEF BindingFacts
  <2> QED BY <2>1, <2>6 DEF LastTrace
<1> DEFINE why == IF trace # <<>> /\ trace[Len(trace)].terminal
                  THEN "completed" ELSE "terminal_cash_invariant"
<1>3. Halt(why)
    BY DEF CloseRotation
<1>4. /\ why \in {"completed", "terminal_cash_invariant"}
      /\ why = "terminal_cash_invariant" => trace = <<>>
    BY <1>2
<1> HIDE DEF why
<1> QED BY <1>3, <1>4, HaltStep

(* Every market starts in the invariant.                                    *)
LEMMA RotationStart == RotationInit([Sessions -> SUBSET Assets]) => RotationInv
<1> SUFFICES ASSUME RotationInit([Sessions -> SUBSET Assets]) PROVE RotationInv
    OBVIOUS
<1>1. /\ grids \in [Sessions -> SUBSET Assets] /\ FillSessions(grids) # {}
      /\ source \in {"production", "grid"} /\ absent \in SUBSET Sessions
      /\ trial \in Trials /\ late \in BOOLEAN
      /\ position = 1 /\ carried = Cash /\ queue = EmptyQueue /\ window = 0 /\ inside = NoSegment
      /\ trace = <<>> /\ RefusedFills(grids) = {}
    BY NoFillRefused DEF RotationInit
<1>2. outcome = "running"
    BY <1>1 DEF RotationInit
<1> DEFINE no == FALSE
<1> HIDE DEF no
<1>3. EmptyQueue = [target |-> Cash, due |-> NoTime, waiting |-> no]
    BY DEF EmptyQueue, no
<1>4. no \in BOOLEAN /\ ~no
    BY DEF no
<1>5. EmptyQueue \in [target : Positions, due : Nat, waiting : BOOLEAN] /\ ~EmptyQueue.waiting
    BY <1>3, <1>4 DEF Positions, NoTime
<1>6. RotationTypes
    BY <1>1, <1>5, CalendarAssumption DEF RotationTypes, Positions
<1>7. RotationSound
    BY <1>1, <1>2, RuleKept DEF RotationSound, RotationAgrees, RotationExposureObserved
<1>8. TracesReach /\ CarriedIsLast /\ QueueIsLast
  <2>1. \A s \in Sessions : ~(s < position)
      BY <1>1 DEF Sessions
  <2> QED BY <1>1, <1>5, <2>1 DEF TracesReach, CarriedIsLast, QueueIsLast
<1> QED BY <1>2, <1>6, <1>7, <1>8 DEF RotationInv

(* Rotation: no fill of the mean-reversion pipeline is refused, a delayed   *)
(* target finds its vector, no gap is crossed with a position, whatever was *)
(* traded ends with its terminal liquidation, the rule is that of its       *)
(* oracle, and a position is carried only between the fills of two          *)
(* consecutive sessions of one segment.                                     *)
THEOREM RotationStaysSound == RotationSpec => []RotationSound
<1>1. RotationInit([Sessions -> SUBSET Assets]) => RotationInv
    BY RotationStart
<1>2. RotationInv /\ [RotationNext]_rotationVars => RotationInv'
  <2> SUFFICES ASSUME RotationInv, [RotationNext]_rotationVars PROVE RotationInv'
      OBVIOUS
  <2>1. CASE UNCHANGED rotationVars
    <3>1. UNCHANGED <<source, grids, absent, trial, late, position, carried, queue, window,
                      inside, trace, outcome>>
        BY <2>1 DEF rotationVars
    <3>2. Binding' = Binding
        BY <3>1, BindingsStay
    <3> QED BY <3>1, <3>2 DEF RotationInv, RotationTypes, RotationSound, RotationAgrees,
               RotationExposureObserved, TracesReach, CarriedIsLast, QueueIsLast, LastTrace
  <2> QED BY <2>1, CrossStep, IneligibleStep, EligibleStep, CloseStep DEF RotationNext
<1>3. RotationInv => RotationSound
    BY DEF RotationInv
<1> QED BY <1>1, <1>2, <1>3, PTL DEF RotationSpec

-----------------------------------------------------------------------------
(*****************************************************************************)
(* A path of the standardized-shock study.  What is long is the position of the *)
(* session before, was opened fewer than MaxHold entries ago and comes after a *)
(* vector without it (OpenSince).  Without the delay every target is filled in *)
(* its session (Prompt); with it a target waits for the next fill, and there *)
(* finds that the loop looks for the fill after (Late).                      *)
(*****************************************************************************)

PendingTargets == [session : Nat, index : Int, time : Nat, weight : {Flat, Long}]
Clocks == [actual : {Flat, Long}, pending : PendingTargets, entry : Int, raised : {"no"}]
Entries == [session : Nat, index : Nat, segment : Int, time : Nat,
            weight : [Assets -> {Flat, Long}]]

Fills == FillSessions(market)
LastEntry == book[Len(book)]

PathTypes ==
    /\ market \in [Sessions -> SUBSET Assets] /\ Fills # {}
    /\ delay \in {0, 1} /\ first \in Nat /\ active \in SUBSET Assets
    /\ session \in 1 .. Days + 1 /\ book \in Seq(Entries)

(* What is long is the position of the session before, which was not the    *)
(* last, and was opened fewer than MaxHold entries ago.                     *)
OpenSince(a) ==
    LET e == clocks[a].entry
        k == Len(book) - (LastEntry.index - e)
    IN  /\ book # <<>> /\ a \in active /\ first < session
        /\ session - 1 \in Fills /\ session - 1 # TerminalSession(market)
        /\ LastEntry.session = session - 1
        /\ LastEntry.index = Identity[session - 1].index
        /\ LastEntry.segment = Identity[session - 1].segment
        /\ e <= LastEntry.index /\ LastEntry.index < e + MaxHold
        /\ k >= 1 /\ (k = 1 \/ book[k - 1].weight[a] = Flat)

ClocksMatch ==
    /\ clocks \in [Assets -> Clocks]
    /\ \A a \in Assets : clocks[a].actual = Long => OpenSince(a)
    /\ book # <<>> => \A a \in Assets : LastEntry.weight[a] = clocks[a].actual

(* A fill disposes of a target.                                             *)
Disposed(t) == [asset |-> t.asset, session |-> t.session, kind |-> "fill",
                index |-> t.index, time |-> t.time]

(* Without the delay a target is filled in its own session.                 *)
Prompt ==
    /\ \A a \in Assets : clocks[a].pending = NoTarget
    /\ \A t \in targets : t.session \in Nat /\ t.session < session
    /\ \A t, u \in targets : t.asset = u.asset /\ t.session = u.session => t = u
    /\ settled = {Disposed(t) : t \in targets}

(* With it nothing is ever filled, and a target waits for one session only. *)
Waits(a) ==
    /\ session \in Fills /\ clocks[a].pending # NoTarget
    /\ clocks[a].pending.index = Identity[session].index
    /\ clocks[a].pending.time = session + 1
Late ==
    /\ settled = {}
    /\ \A a \in Assets : clocks[a].actual = Flat /\ (clocks[a].pending # NoTarget => Waits(a))
    /\ targets # {} => \E a \in Assets : clocks[a].pending # NoTarget

PathInv ==
    /\ PathTypes /\ PathSound
    /\ error = "no" => ClocksMatch /\ (delay = 0 => Prompt) /\ (delay = 1 => Late)

(* The identity of a session with a fill.                                   *)
LEMMA IdentityFacts ==
    ASSUME PathTypes, NEW s \in Fills
    PROVE  /\ s \in Sessions /\ s \in Nat /\ s < Days /\ Days \in Nat /\ Complete(market, s)
           /\ Identity[s].session = s /\ Identity[s].base = s + 1 /\ Identity[s].index \in Nat
           /\ Identity[s].delayed = IF s + 1 \in Fills THEN s + 2 ELSE NoTime
           /\ s + 1 \in Fills => /\ Identity[s + 1].index = Identity[s].index + 1
                                 /\ Identity[s + 1].segment = Identity[s].segment
           /\ s <= TerminalSession(market)
<1> DEFINE m == market
<1>1. s \in FillSessions(m) /\ FillSessions(m) # {}
    BY DEF Fills, PathTypes
<1>2. s \in Sessions /\ Days \in Nat
    BY <1>1, FillFacts, CalendarAssumption
<1>3. s \in Nat /\ s < Days /\ Complete(m, s)
  <2>1. Complete(m, s)
      BY <1>1, FillFacts
  <2>2. s < Days
      BY <1>1, <1>2, FillFacts
  <2> QED BY <1>2, <2>1, <2>2 DEF Sessions
<1>4. /\ FillIdentities(m)[s].session = s /\ FillIdentities(m)[s].base = s + 1
      /\ FillIdentities(m)[s].delayed = IF s + 1 \in FillSessions(m) THEN s + 2 ELSE NoTime
      /\ s + 1 \in FillSessions(m) =>
            FillIdentities(m)[s + 1].segment = FillIdentities(m)[s].segment
    BY <1>1, FillFacts
<1>5. /\ FillIdentities(m)[s].index \in Nat
      /\ s + 1 \in FillSessions(m) =>
            FillIdentities(m)[s + 1].index = FillIdentities(m)[s].index + 1
    BY <1>1, NextIndex
<1>6. s <= TerminalSession(m)
    BY <1>1, TerminalIsLast
<1> QED BY <1>2, <1>3, <1>4, <1>5, <1>6 DEF Fills, Identity

(* A decision without a pending target: none, or the other position.        *)
LEMMA DesiredIsOpposite ==
    ASSUME NEW c \in Clocks, NEW index \in Nat, NEW signal
    PROVE  /\ Desired(c, index, signal) # {} =>
                 (CHOOSE w \in Desired(c, index, signal) : TRUE)
                    = IF c.actual = Long THEN Flat ELSE Long
           /\ c.actual = Long /\ index >= c.entry + MaxHold => Desired(c, index, signal) # {}
<1> DEFINE D == Desired(c, index, signal)
           other == IF c.actual = Long THEN Flat ELSE Long
<1>1. c.actual \in {Flat, Long} /\ Flat # Long
    BY DEF Clocks, Flat, Long
<1>2. D \subseteq {other}
    BY <1>1 DEF Desired
<1>3. c.actual = Long /\ index >= c.entry + MaxHold => Flat \in D
    BY <1>1 DEF Desired
<1> HIDE DEF D, other
<1>4. D # {} => (CHOOSE w \in D : TRUE) = other
    BY <1>2
<1> QED BY <1>3, <1>4 DEF D, other

(* What a session does to a clock it trades.                                *)
Executed(c, w, index) ==
    [actual |-> w, pending |-> NoTarget, entry |-> IF w = Long THEN index ELSE NoIndex,
     raised |-> "no"]
Waiting(c, s, index, w) ==
    [c EXCEPT !.pending = [session |-> s, index |-> index, time |-> s + 1, weight |-> w]]
Issued(T, wt, s, index) ==
    {[asset |-> a, session |-> s, index |-> index, time |-> s + 1, weight |-> wt[a]] : a \in T}

(* What the trades T of a session make of the path.                         *)
After(T, wt) ==
    [a \in Assets |-> IF a \in T THEN Executed(clocks[a], wt[a], Identity[session].index)
                      ELSE clocks[a]]
Trades(T, wt, p) ==
    LET new == Issued(T, wt, session, Identity[session].index)
    IN  /\ p.error = "no" /\ p.clocks = After(T, wt)
        /\ p.targets = targets \union new
        /\ p.settled = settled \union {Disposed(t) : t \in new}
        /\ p.book = Append(book,
              [session |-> session, index |-> Identity[session].index,
               segment |-> Identity[session].segment, time |-> session + 1,
               weight |-> [a \in Assets |-> After(T, wt)[a].actual]])

(* The fills of a session without the delay, and its accounting vector.     *)
LEMMA FillStage ==
    ASSUME PathTypes, ClocksMatch, Prompt, delay = 0, session \in Fills,
           NEW T \in SUBSET Assets, NEW wt \in [Assets -> {Flat, Long}],
           NEW p, NEW last \in BOOLEAN,
           p.error = "no", p.settled = settled, p.book = book,
           p.targets = targets \union Issued(T, wt, session, Identity[session].index),
           p = [clocks |-> p.clocks, targets |-> p.targets, settled |-> p.settled,
                book |-> p.book, error |-> p.error],
           p.clocks = [a \in Assets |-> IF a \in T
                          THEN Waiting(clocks[a], session, Identity[session].index, wt[a])
                          ELSE clocks[a]]
    PROVE  Trades(T, wt, Account(FillBase(p, Identity[session], last), Identity[session], last))
<1> DEFINE id == Identity[session]
           i == id.index
           order(a) == [session |-> session, index |-> i, time |-> session + 1, weight |-> wt[a]]
           after == [a \in Assets |-> IF a \in T THEN Executed(clocks[a], wt[a], i) ELSE clocks[a]]
           cs == [a \in Assets |-> IF a \in T THEN ApplyFill(p.clocks[a], session + 1, i)
                                              ELSE p.clocks[a]]
           gone == {[asset |-> a, session |-> p.clocks[a].pending.session,
                     kind |-> "fill", index |-> i, time |-> session + 1] : a \in T}
<1>1. id.session = session /\ id.base = session + 1 /\ i \in Nat /\ session \in Nat
    BY IdentityFacts
<1>2. \A a \in Assets : clocks[a] \in Clocks /\ clocks[a].pending = NoTarget
    BY DEF ClocksMatch, Prompt
<1> HIDE DEF i
<1>3. \A a \in T : /\ p.clocks[a].pending = order(a) /\ p.clocks[a].pending # NoTarget
                   /\ p.clocks[a].pending.index = i /\ p.clocks[a].pending.time = session + 1
                   /\ p.clocks[a].pending.session = session
  <2> SUFFICES ASSUME NEW a \in T
               PROVE  p.clocks[a].pending = order(a) /\ order(a) # NoTarget
      OBVIOUS
  <2>1. p.clocks[a] = [clocks[a] EXCEPT !.pending = order(a)]
      BY DEF Waiting, i
  <2>2. clocks[a] \in Clocks
      BY <1>2
  <2>3. order(a).index # NoIndex
      BY <1>1 DEF NoIndex
  <2>4. order(a) # NoTarget
      BY <2>3 DEF NoTarget
  <2> HIDE DEF order
  <2>5. p.clocks[a].pending = order(a)
      BY <2>1, <2>2 DEF Clocks
  <2> QED BY <2>4, <2>5
<1>4. \A a \in Assets \ T : p.clocks[a] = clocks[a] /\ p.clocks[a].pending = NoTarget
    BY <1>2
<1>5. Due(p, id) = T
    BY <1>3, <1>4 DEF Due, i
<1>6. \A a \in T : ApplyFill(p.clocks[a], session + 1, i) = Executed(clocks[a], wt[a], i)
  <2> SUFFICES ASSUME NEW a \in T
               PROVE  ApplyFill(p.clocks[a], session + 1, i) = Executed(clocks[a], wt[a], i)
      OBVIOUS
  <2> DEFINE c == p.clocks[a]
  <2>1. c = [clocks[a] EXCEPT !.pending = order(a)] /\ clocks[a] \in Clocks
      BY <1>2 DEF Waiting, i
  <2>2. /\ c.pending # NoTarget /\ c.pending.index = i /\ c.pending.time = session + 1
        /\ c.pending = order(a)
      BY <1>3
  <2>3. c.pending.weight = wt[a]
      BY <2>2
  <2> HIDE DEF order
  <2>4. c = [actual |-> clocks[a].actual, pending |-> c.pending, entry |-> clocks[a].entry,
             raised |-> "no"]
      BY <2>1, <2>2 DEF Clocks
  <2> HIDE DEF c
  <2>5. ~(i < i)
      BY <1>1
  <2>6. ApplyFill(c, session + 1, i)
          = [c EXCEPT !.pending = NoTarget, !.actual = c.pending.weight,
                      !.entry = IF c.pending.weight = Long THEN i ELSE NoIndex]
      BY <2>2, <2>5 DEF ApplyFill
  <2> DEFINE now == IF wt[a] = Long THEN i ELSE NoIndex
  <2>8. ApplyFill(c, session + 1, i)
          = [c EXCEPT !.pending = NoTarget, !.actual = wt[a], !.entry = now]
      BY <2>3, <2>6
  <2>9. Executed(clocks[a], wt[a], i)
          = [actual |-> wt[a], pending |-> NoTarget, entry |-> now, raised |-> "no"]
      BY DEF Executed
  <2> HIDE DEF now
  <2>7. ApplyFill(c, session + 1, i) = Executed(clocks[a], wt[a], i)
    <3>1. PICK x, y, z : c = [actual |-> x, pending |-> y, entry |-> z, raised |-> "no"]
        BY <2>4, Zenon
    <3>2. [c EXCEPT !.pending = NoTarget, !.actual = wt[a], !.entry = now]
            = [actual |-> wt[a], pending |-> NoTarget, entry |-> now, raised |-> "no"]
      <4> DEFINE d == [actual |-> x, pending |-> NoTarget, entry |-> z, raised |-> "no"]
                 w == wt[a]
                 f == [actual |-> w, pending |-> NoTarget, entry |-> z, raised |-> "no"]
      <4> HIDE DEF w
      <4>1. [c EXCEPT !.pending = NoTarget, !.actual = w, !.entry = now]
              = [[[c EXCEPT !.pending = NoTarget] EXCEPT !.actual = w] EXCEPT !.entry = now]
          BY <3>1
      <4>2. [c EXCEPT !.pending = NoTarget] = d
          BY <3>1
      <4>3. [d EXCEPT !.actual = w] = f
          OBVIOUS
      <4>4. [f EXCEPT !.entry = now]
              = [actual |-> w, pending |-> NoTarget, entry |-> now, raised |-> "no"]
          OBVIOUS
      <4> QED BY <4>1, <4>2, <4>3, <4>4 DEF w
    <3> QED BY <2>8, <2>9, <3>2, Zenon
  <2> QED BY <2>7 DEF c
<1>7. cs = after
    BY <1>4, <1>6
<1>8. Raised(after) = {}
  <2>1. \A a \in Assets : after[a].raised = "no"
      BY <1>2 DEF Executed, Clocks
  <2> QED BY <2>1 DEF Raised
<1>9. FillBase(p, id, last) = FillAt(p, T, session + 1, i)
    BY <1>1, <1>5 DEF FillBase, i
<1> DEFINE f == [p EXCEPT !.clocks = cs, !.settled = @ \union gone]
           sum == p.settled \union gone
<1>10. FillAt(p, T, session + 1, i) = f
  <2>1. Raised(cs) = {}
      BY <1>7, <1>8
  <2> QED BY <2>1 DEF FillAt
<1>11. gone = {Disposed(t) : t \in Issued(T, wt, session, i)}
  <2> DEFINE g(a) == [asset |-> a, session |-> session, index |-> i, time |-> session + 1,
                      weight |-> wt[a]]
             h(a) == [asset |-> a, session |-> p.clocks[a].pending.session, kind |-> "fill",
                      index |-> i, time |-> session + 1]
  <2>1. \A a \in T : h(a) = Disposed(g(a))
      BY <1>3 DEF Disposed
  <2>2. gone = {h(a) : a \in T} /\ Issued(T, wt, session, i) = {g(a) : a \in T}
      BY DEF Issued
  <2> HIDE DEF g, h, gone
  <2> QED BY <2>1, <2>2
<1> HIDE DEF cs, gone, after
<1>12. /\ f.error = "no" /\ f.clocks = after /\ f.targets = p.targets /\ f.book = p.book
       /\ f.settled = p.settled \union gone
       /\ f = [clocks |-> after, targets |-> p.targets, settled |-> p.settled \union gone,
               book |-> p.book, error |-> "no"]
  <2>1. f = [p EXCEPT !.clocks = after, !.settled = sum]
      BY <1>7
  <2> HIDE DEF f, sum
  <2>2. f = [clocks |-> after, targets |-> p.targets, settled |-> sum, book |-> p.book,
             error |-> "no"]
      BY <2>1
  <2> QED BY <2>2 DEF sum
<1> HIDE DEF f
<1> DEFINE entry == [session |-> session, index |-> i, segment |-> id.segment,
                     time |-> session + 1, weight |-> [a \in Assets |-> after[a].actual]]
<1>13. session + 1 # NoTime
    BY <1>1 DEF NoTime
<1>14. Account(f, id, last) = [f EXCEPT !.book = Append(@, entry)]
    BY <1>1, <1>12, <1>13 DEF Account, i
<1> HIDE DEF entry
<1>15. /\ Account(f, id, last).error = "no" /\ Account(f, id, last).clocks = after
       /\ Account(f, id, last).targets = p.targets
       /\ Account(f, id, last).settled = p.settled \union gone
       /\ Account(f, id, last).book = Append(p.book, entry)
    BY <1>12, <1>14
<1>16. after = After(T, wt)
    BY DEF after, After, i
<1> QED BY <1>9, <1>10, <1>11, <1>15, <1>16 DEF Trades, entry, i

(* Which trades there may be: an old position ends, and all at the last     *)
(* fill.                                                                    *)
MayTrade(T, wt) ==
    /\ \A a \in T : /\ wt[a] # clocks[a].actual /\ (clocks[a].actual = Long \/ a \in active)
                    /\ wt[a] = Long => session # TerminalSession(market)
    /\ \A a \in Assets \ T : clocks[a].actual = Long =>
          /\ session # TerminalSession(market)
          /\ Identity[session].index < clocks[a].entry + MaxHold

(* Evaluation without the delay: nothing before the window, else trades.    *)
LEMMA EvaluatePrompt ==
    ASSUME PathTypes, ClocksMatch, Prompt, delay = 0, error = "no", session \in Fills,
           NEW signal \in [Assets -> Signals]
    PROVE  \/ session < first /\ Evaluate(Identity[session], signal) = Locals
           \/ /\ first <= session
              /\ \E T \in SUBSET Assets, wt \in [Assets -> {Flat, Long}] :
                    MayTrade(T, wt) /\ Trades(T, wt, Evaluate(Identity[session], signal))
<1> DEFINE id == Identity[session]
           i == id.index
           last == id.session = TerminalSession(market)
           decided == IF last THEN Terminate(Locals, id) ELSE DecideAll(Locals, id, signal)
           opposite(a) == IF clocks[a].actual = Long THEN Flat ELSE Long
           wt == [a \in Assets |-> opposite(a)]
<1>1. id.session = session /\ id.base = session + 1 /\ i \in Nat /\ session \in Nat
    BY IdentityFacts
<1>2. \A a \in Assets : /\ clocks[a] \in Clocks /\ clocks[a].pending = NoTarget
                        /\ clocks[a].actual \in {Flat, Long} /\ clocks[a].raised = "no"
                        /\ clocks[a].entry \in Int
    BY DEF ClocksMatch, Prompt, Clocks
<1>3. Locals = [clocks |-> clocks, targets |-> targets, settled |-> settled, book |-> book,
                error |-> "no"]
    BY DEF Locals
<1> HIDE DEF id
<1>4. FillEarlier(Locals, id) = Locals
  <2>1. Due(Locals, id) = {}
      BY <1>2, <1>3 DEF Due
  <2> QED BY <2>1 DEF FillEarlier
<1>5. Evaluate(id, signal) = IF session < first THEN Locals
                             ELSE Account(FillBase(decided, id, last), id, last)
  <2> HIDE DEF Locals
  <2> QED BY <1>1, <1>4 DEF Evaluate
<1>6. wt \in [Assets -> {Flat, Long}] /\ \A a \in Assets : wt[a] # clocks[a].actual
    BY <1>2 DEF Flat, Long
<1>7. ASSUME NEW T \in SUBSET Assets, decided.error = "no", decided.settled = settled,
             decided.book = book, decided.targets = targets \union Issued(T, wt, session, i),
             decided = [clocks |-> decided.clocks, targets |-> decided.targets,
                        settled |-> decided.settled, book |-> decided.book,
                        error |-> decided.error],
             decided.clocks = [a \in Assets |-> IF a \in T
                                 THEN Waiting(clocks[a], session, i, wt[a]) ELSE clocks[a]]
      PROVE  Trades(T, wt, Account(FillBase(decided, id, last), id, last))
  <2>1. last \in BOOLEAN
      OBVIOUS
  <2> HIDE DEF decided, last, wt
  <2> QED BY <1>6, <1>7, <2>1, FillStage DEF id
<1>8. CASE last
  <2> DEFINE long == {a \in Assets : clocks[a].actual = Long}
             forced == [session |-> session, index |-> i, time |-> session + 1, weight |-> Flat]
             cs == [a \in Assets |-> [clocks[a] EXCEPT !.pending =
                                        IF a \in long THEN forced ELSE NoTarget]]
             sold == {TargetOf(a, forced) : a \in long}
  <2>1. {a \in Assets : clocks[a].pending # NoTarget} = {}
      BY <1>2
  <2>2. {a \in long : Decide(clocks[a], delay, session, session + 1, NoTime, i, "none").raised
                        # "no"} = {}
    <3> SUFFICES ASSUME NEW a \in long
                 PROVE  Decide(clocks[a], delay, session, session + 1, NoTime, i, "none").raised
                          = "no"
        OBVIOUS
    <3>1. clocks[a] \in Clocks /\ clocks[a].pending = NoTarget /\ clocks[a].raised = "no"
        BY <1>2
    <3>2. Decide(clocks[a], delay, session, session + 1, NoTime, i, "none") \in
             {clocks[a], [clocks[a] EXCEPT !.pending =
                [session |-> session, index |-> i + delay, time |-> session + 1,
                 weight |-> CHOOSE w \in Desired(clocks[a], i, "none") : TRUE]]}
        BY <3>1 DEF Decide
    <3> QED BY <3>1, <3>2 DEF Clocks
  <2>3. Terminate(Locals, id) = [Locals EXCEPT !.clocks = cs, !.targets = @ \union sold,
                                               !.settled = @ \union {}]
    <3>1. /\ Locals.clocks = clocks /\ Locals.targets = targets /\ Locals.settled = settled
          /\ Locals.error = "no"
        BY <1>3
    <3> DEFINE w == {a \in Assets : Locals.clocks[a].pending # NoTarget}
               lg == {a \in Assets : Locals.clocks[a].actual = Long}
               fo == [session |-> id.session, index |-> id.index, time |-> id.base, weight |-> Flat]
               lt == {a \in lg : Decide(Locals.clocks[a], delay, id.session, id.base, NoTime,
                                        id.index, "none").raised # "no"}
               ended == [a \in Assets |-> [Locals.clocks[a] EXCEPT !.pending =
                                             IF a \in lg THEN fo ELSE NoTarget]]
               shut == {TargetOf(a, fo) : a \in lg}
               off == {[asset |-> a, session |-> Locals.clocks[a].pending.session,
                        kind |-> "terminal_cancel", index |-> NoIndex, time |-> id.base] : a \in w}
    <3>2. Terminate(Locals, id) =
            IF Locals.error # "no" THEN Locals
            ELSE IF \E a \in w : Locals.clocks[a].pending.weight = Flat
                 THEN Fail(Locals, "pending_exit_at_terminal")
            ELSE IF lt # {} THEN Fail(Locals, "no_delayed_identity")
            ELSE [Locals EXCEPT !.clocks = [a \in Assets |-> [@[a] EXCEPT !.pending =
                                              IF a \in lg THEN fo ELSE NoTarget]],
                                !.targets = @ \union shut, !.settled = @ \union off]
        BY Zenon DEF Terminate
    <3>3. w = {} /\ off = {}
      <4>1. w = {}
          BY <2>1, <3>1
      <4> HIDE DEF w
      <4> QED BY <4>1
    <3>4. lg = long /\ fo = forced
        BY <1>1, <3>1
    <3>5. lt = {}
      <4> HIDE DEF lg, long
      <4> QED BY <1>1, <2>2, <3>1, <3>4
    <3>6. ended = cs /\ shut = sold
      <4> HIDE DEF lg, fo, forced, long
      <4> QED BY <3>1, <3>4
    <3> HIDE DEF w, lg, fo, lt, shut, off, cs, sold, Locals
    <3>7. Terminate(Locals, id) = [Locals EXCEPT !.clocks = ended, !.targets = @ \union shut,
                                                 !.settled = @ \union off]
        BY <3>1, <3>2, <3>3, <3>5
    <3> HIDE DEF ended
    <3> QED BY <3>3, <3>6, <3>7
  <2>4. sold = Issued(long, wt, session, i)
    <3> DEFINE g(a) == TargetOf(a, forced)
               h(a) == [asset |-> a, session |-> session, index |-> i, time |-> session + 1,
                        weight |-> wt[a]]
    <3>1. \A a \in long : g(a) = h(a)
        BY DEF TargetOf
    <3>2. sold = {g(a) : a \in long} /\ Issued(long, wt, session, i) = {h(a) : a \in long}
        BY DEF Issued
    <3> HIDE DEF g, h, sold, wt
    <3> QED BY <3>1, <3>2
  <2>5. cs = [a \in Assets |-> IF a \in long THEN Waiting(clocks[a], session, i, wt[a])
                                             ELSE clocks[a]]
    <3> SUFFICES ASSUME NEW a \in Assets
                 PROVE  [clocks[a] EXCEPT !.pending = IF a \in long THEN forced ELSE NoTarget]
                          = IF a \in long THEN Waiting(clocks[a], session, i, wt[a])
                                          ELSE clocks[a]
        OBVIOUS
    <3>1. clocks[a] \in Clocks /\ clocks[a].pending = NoTarget
        BY <1>2
    <3>2. a \in long => [clocks[a] EXCEPT !.pending = forced]
                         = Waiting(clocks[a], session, i, wt[a])
        BY DEF Waiting
    <3>3. [clocks[a] EXCEPT !.pending = NoTarget] = clocks[a]
        BY <3>1 DEF Clocks
    <3> QED BY <3>2, <3>3
  <2> HIDE DEF cs, sold
  <2> DEFINE ts == targets \union sold
  <2>6. decided = [clocks |-> cs, targets |-> ts, settled |-> settled, book |-> book,
                   error |-> "no"]
    <3>1. decided = Terminate(Locals, id)
        BY <1>8
    <3>2. decided = [[Locals EXCEPT !.clocks = cs] EXCEPT !.targets = ts]
      <4>1. settled \union {} = settled
          OBVIOUS
      <4>2. decided = [Locals EXCEPT !.clocks = cs, !.targets = ts, !.settled = settled]
          BY <1>3, <2>3, <3>1, <4>1
      <4>3. [Locals EXCEPT !.clocks = cs, !.targets = ts, !.settled = settled]
              = [[[Locals EXCEPT !.clocks = cs] EXCEPT !.targets = ts] EXCEPT !.settled = settled]
        <5> HIDE DEF ts, Locals
        <5> QED BY Zenon
      <4> DEFINE l == [[Locals EXCEPT !.clocks = cs] EXCEPT !.targets = ts]
      <4>4. l = [clocks |-> cs, targets |-> ts, settled |-> settled, book |-> book, error |-> "no"]
        <5> HIDE DEF ts, Locals
        <5> DEFINE l1 == [clocks |-> cs, targets |-> targets, settled |-> settled,
                          book |-> book, error |-> "no"]
        <5>1. [Locals EXCEPT !.clocks = cs] = l1
            BY <1>3
        <5>2. [l1 EXCEPT !.targets = ts]
                = [clocks |-> cs, targets |-> ts, settled |-> settled, book |-> book,
                   error |-> "no"]
            OBVIOUS
        <5> QED BY <5>1, <5>2, Zenon
      <4>5. [l EXCEPT !.settled = settled] = l
        <5> HIDE DEF ts, l
        <5> QED BY <4>4
      <4> HIDE DEF decided, ts
      <4> QED BY <4>2, <4>3, <4>5
    <3> HIDE DEF decided, ts
    <3> QED BY <1>3, <3>2
  <2>7. Trades(long, wt, Account(FillBase(decided, id, last), id, last))
    <3> HIDE DEF decided, last, wt
    <3> QED BY <1>7, <2>4, <2>5, <2>6 DEF cs, sold
  <2>8. MayTrade(long, wt)
      BY <1>6 DEF MayTrade, Flat, Long
  <2> QED BY <1>1, <1>5, <1>6, <2>7, <2>8 DEF PathTypes, id
<1>9. CASE ~last
  <2> DEFINE Want(a) == Desired(clocks[a], i, signal[a])
             T == {a \in active : Want(a) # {}}
             cs == [a \in Assets |-> IF a \in active
                       THEN Decide(clocks[a], delay, session, session + 1, id.delayed, i, signal[a])
                       ELSE clocks[a]]
  <2>1. active \subseteq Assets
      BY DEF PathTypes
  <2>2. \A a \in active : cs[a] = IF a \in T THEN Waiting(clocks[a], session, i, wt[a])
                                             ELSE clocks[a]
    <3> SUFFICES ASSUME NEW a \in active
                 PROVE  Decide(clocks[a], delay, session, session + 1, id.delayed, i, signal[a])
                          = IF a \in T THEN Waiting(clocks[a], session, i, wt[a]) ELSE clocks[a]
        BY <2>1
    <3>1. a \in Assets /\ clocks[a] \in Clocks /\ clocks[a].pending = NoTarget
        BY <1>2, <2>1
    <3>2. Want(a) # {} => (CHOOSE w \in Want(a) : TRUE) = wt[a]
        BY <1>1, <3>1, DesiredIsOpposite
    <3>3. i + delay = i /\ ~(delay = 1)
        BY <1>1
    <3> HIDE DEF Want, wt
    <3>4. CASE a \in T
        BY <3>1, <3>2, <3>3, <3>4 DEF Decide, Waiting, Want
    <3>5. CASE a \notin T
        BY <3>1, <3>5 DEF Decide, Want
    <3> QED BY <3>4, <3>5
  <2>3. cs = [a \in Assets |-> IF a \in T THEN Waiting(clocks[a], session, i, wt[a])
                                          ELSE clocks[a]]
      BY <2>2
  <2>4. \A a \in T : /\ cs[a].pending = [session |-> session, index |-> i, time |-> session + 1,
                                         weight |-> wt[a]]
                     /\ cs[a].pending # NoTarget /\ cs[a].raised = "no"
    <3> SUFFICES ASSUME NEW a \in T
                 PROVE  LET c == Waiting(clocks[a], session, i, wt[a])
                        IN  /\ c.pending = [session |-> session, index |-> i, time |-> session + 1,
                                            weight |-> wt[a]]
                            /\ c.pending # NoTarget /\ c.raised = "no"
      <4>1. \A a \in T : cs[a] = Waiting(clocks[a], session, i, wt[a])
          BY <2>1, <2>3
      <4> HIDE DEF cs, T, wt, Want, i
      <4> QED BY <4>1
    <3>1. clocks[a] \in Clocks
        BY <1>2, <2>1
    <3> DEFINE order == [session |-> session, index |-> i, time |-> session + 1, weight |-> wt[a]]
    <3>2. order.index # NoIndex
        BY <1>1 DEF NoIndex
    <3>3. order # NoTarget
        BY <3>2 DEF NoTarget
    <3>4. Waiting(clocks[a], session, i, wt[a]) = [clocks[a] EXCEPT !.pending = order]
        BY DEF Waiting
    <3> HIDE DEF order
    <3>5. Waiting(clocks[a], session, i, wt[a]).pending = order
          /\ Waiting(clocks[a], session, i, wt[a]).raised = "no"
        BY <3>1, <3>4 DEF Clocks
    <3> QED BY <3>3, <3>5 DEF order
  <2>5. \A a \in Assets \ T : cs[a] = clocks[a]
      BY <2>3
  <2>6. Raised(cs) = {}
      BY <1>2, <2>4, <2>5 DEF Raised
  <2>7. {a \in Assets : cs[a].pending # clocks[a].pending} = T
    <3>0. T \subseteq Assets
        BY <2>1
    <3> HIDE DEF cs, T, wt, Want
    <3>1. \A a \in T : cs[a].pending # clocks[a].pending /\ a \in Assets
      <4> SUFFICES ASSUME NEW a \in T PROVE cs[a].pending # clocks[a].pending /\ a \in Assets
          OBVIOUS
      <4>1. cs[a].pending # NoTarget
          BY <2>4
      <4>2. a \in Assets
          BY <3>0
      <4>3. clocks[a].pending = NoTarget
          BY <1>2, <4>2
      <4> QED BY <4>1, <4>2, <4>3
    <3>2. \A a \in Assets \ T : cs[a].pending = clocks[a].pending
        BY <2>5
    <3> QED BY <3>1, <3>2
  <2> DEFINE issued == {TargetOf(a, cs[a].pending) : a \in T}
  <2>8. DecideAll(Locals, id, signal) = [Locals EXCEPT !.clocks = cs, !.targets = @ \union issued]
    <3>1. Locals.clocks = clocks /\ Locals.targets = targets /\ Locals.error = "no"
        BY <1>3
    <3> HIDE DEF Locals, T
    <3>2. cs = [a \in Assets |-> IF a \in active
                  THEN Decide(Locals.clocks[a], delay, id.session, id.base, id.delayed,
                              id.index, signal[a])
                  ELSE Locals.clocks[a]]
        BY <1>1, <3>1
    <3>3. {a \in Assets : cs[a].pending # Locals.clocks[a].pending} = T
        BY <2>7, <3>1
    <3> HIDE DEF cs
    <3> QED BY <2>6, <3>1, <3>2, <3>3 DEF DecideAll
  <2>9. issued = Issued(T, wt, session, i)
    <3> DEFINE g(a) == TargetOf(a, cs[a].pending)
               h(a) == [asset |-> a, session |-> session, index |-> i, time |-> session + 1,
                        weight |-> wt[a]]
    <3>1. \A a \in T : g(a) = h(a)
      <4> SUFFICES ASSUME NEW a \in T PROVE g(a) = h(a)
          OBVIOUS
      <4> DEFINE order == [session |-> session, index |-> i, time |-> session + 1, weight |-> wt[a]]
      <4>1. cs[a].pending = order
          BY <2>4
      <4>2. TargetOf(a, order) = h(a)
          BY DEF TargetOf
      <4> HIDE DEF order, cs, h
      <4> QED BY <4>1, <4>2
    <3>2. issued = {g(a) : a \in T} /\ Issued(T, wt, session, i) = {h(a) : a \in T}
        BY DEF Issued
    <3> HIDE DEF g, h, issued, wt, T
    <3> QED BY <3>1, <3>2
  <2> HIDE DEF cs, issued
  <2> DEFINE ts == targets \union issued
  <2>10. decided = [clocks |-> cs, targets |-> ts, settled |-> settled, book |-> book,
                    error |-> "no"]
    <3>1. decided = [Locals EXCEPT !.clocks = cs, !.targets = ts]
        BY <1>3, <1>9, <2>8
    <3> HIDE DEF decided, ts
    <3> QED BY <1>3, <3>1
  <2>11. Trades(T, wt, Account(FillBase(decided, id, last), id, last))
    <3> HIDE DEF decided, last, wt, T
    <3>1. T \in SUBSET Assets
        BY <2>1 DEF T
    <3> QED BY <1>7, <2>3, <2>9, <2>10, <3>1
  <2>12. MayTrade(T, wt)
    <3>1. session # TerminalSession(market)
        BY <1>1, <1>9
    <3>2. ASSUME NEW a \in Assets \ T, clocks[a].actual = Long
          PROVE  i < clocks[a].entry + MaxHold
      <4>1. a \in active
          BY <3>2 DEF ClocksMatch, OpenSince
      <4>2. Want(a) = {}
          BY <3>2, <4>1
      <4>3. ~(i >= clocks[a].entry + MaxHold)
          BY <1>1, <1>2, <3>2, <4>2, DesiredIsOpposite
      <4> QED BY <1>1, <1>2, <4>3, HoldAssumption
    <3> HIDE DEF wt
    <3> QED BY <1>6, <2>1, <3>1, <3>2 DEF MayTrade, id
  <2> QED BY <1>1, <1>5, <1>6, <2>1, <2>11, <2>12 DEF PathTypes, id
<1> QED BY <1>8, <1>9

(* A path that has failed stays as it is.                                   *)
LEMMA FailureStays ==
    ASSUME NEW p, p.error # "no", NEW id, NEW last, NEW signal
    PROVE  /\ Terminate(p, id) = p /\ DecideAll(p, id, signal) = p
           /\ FillBase(p, id, last) = p /\ Account(p, id, last) = p
<1>1. Terminate(p, id) = p
    BY Zenon DEF Terminate
<1>2. DecideAll(p, id, signal) = p
    BY Zenon DEF DecideAll
<1>3. FillBase(p, id, last) = p
    BY Zenon DEF FillBase, FillAt
<1>4. Account(p, id, last) = p
    BY Zenon DEF Account
<1> QED BY <1>1, <1>2, <1>3, <1>4

(* The state of a path that goes on.                                        *)
Going(cs, ts, bk) == [clocks |-> cs, targets |-> ts, settled |-> {}, book |-> bk, error |-> "no"]

(* The vector of a session in which nothing is long.                        *)
FlatEntry(time) ==
    [session |-> session, index |-> Identity[session].index,
     segment |-> Identity[session].segment, time |-> time, weight |-> [a \in Assets |-> Flat]]

(* Accounting while nothing is long.                                        *)
LEMMA AccountFlat ==
    ASSUME PathTypes, session \in Fills, NEW cs, NEW ts, NEW last,
           \A a \in Assets : cs[a].actual = Flat
    PROVE  LET p == Account(Going(cs, ts, book), Identity[session], last)
               time == IF delay = 0 \/ last THEN Identity[session].base
                       ELSE Identity[session].delayed
           IN  /\ time = NoTime => p.error = "missing_accounting_vector" /\ p.book = book
               /\ time # NoTime => p = Going(cs, ts, Append(book, FlatEntry(time)))
<1> DEFINE g == Going(cs, ts, book)
           id == Identity[session]
           time == IF delay = 0 \/ last THEN id.base ELSE id.delayed
           entry == [session |-> id.session, index |-> id.index, segment |-> id.segment,
                     time |-> time, weight |-> [a \in Assets |-> g.clocks[a].actual]]
<1>1. /\ g.error = "no" /\ g.clocks = cs /\ g.book = book
      /\ g = [clocks |-> cs, targets |-> ts, settled |-> {}, book |-> book, error |-> "no"]
    BY DEF Going
<1>2. id.session = session
    BY IdentityFacts
<1>3. entry = FlatEntry(time)
    BY <1>1, <1>2 DEF FlatEntry
<1>4. Account(g, id, last) = IF time = NoTime THEN Fail(g, "missing_accounting_vector")
                             ELSE [g EXCEPT !.book = Append(@, entry)]
  <2> HIDE DEF g, id
  <2> QED BY <1>1, Zenon DEF Account
<1> HIDE DEF g, id, time, entry
<1>5. [g EXCEPT !.book = Append(@, entry)] = Going(cs, ts, Append(book, entry))
  <2> DEFINE bk == Append(book, entry)
  <2>1. [g EXCEPT !.book = Append(@, entry)] = [g EXCEPT !.book = bk]
      BY <1>1
  <2> HIDE DEF bk
  <2>2. [g EXCEPT !.book = bk] = Going(cs, ts, bk)
      BY <1>1 DEF Going
  <2> QED BY <2>1, <2>2 DEF bk
<1>6. Fail(g, "missing_accounting_vector").error = "missing_accounting_vector"
      /\ Fail(g, "missing_accounting_vector").book = book
    BY <1>1 DEF Fail
<1> QED BY <1>3, <1>4, <1>5, <1>6 DEF g, id, time

LateOutcome(p) ==
    \/ p.error \notin {"no", "trace_rejected", "not_cash"} /\ p.book = book
    \/ session < first /\ p = Locals /\ \A a \in Assets : clocks[a].pending = NoTarget
    \/ /\ first <= session /\ p.error = "no" /\ p.settled = {}
       /\ \E time \in Nat : p.book = Append(book, FlatEntry(time))
       /\ p.clocks \in [Assets -> Clocks]
       /\ \A a \in Assets : /\ p.clocks[a].actual = Flat
                            /\ p.clocks[a].pending # NoTarget =>
                                  /\ session + 1 \in Fills
                                  /\ p.clocks[a].pending.index = Identity[session + 1].index
                                  /\ p.clocks[a].pending.time = session + 2
       /\ p.targets # {} => \E a \in Assets : p.clocks[a].pending # NoTarget

(* A target that waits is never filled: its session looks for the fill of   *)
(* the one after.                                                           *)
LEMMA LateTargetFails ==
    ASSUME PathTypes, ClocksMatch, Late, delay = 1, error = "no", session \in Fills,
           NEW b \in Assets, clocks[b].pending # NoTarget
    PROVE  LET p == FillEarlier(Locals, Identity[session])
           IN  p.error \in {"missing_delayed_fill", "forward_scan"} /\ p.book = book
<1> DEFINE id == Identity[session]
           i == id.index
           due == Due(Locals, id)
           cs == [a \in Assets |-> IF a \in due THEN ApplyFill(Locals.clocks[a], id.delayed, i)
                                                ELSE Locals.clocks[a]]
<1>1. Locals = [clocks |-> clocks, targets |-> targets, settled |-> settled, book |-> book,
                error |-> "no"]
    BY DEF Locals
<1>2. Locals.clocks = clocks /\ Locals.error = "no" /\ Locals.book = book
    BY <1>1
<1> HIDE DEF Locals
<1>3. due = {a \in Assets : clocks[a].pending # NoTarget /\ clocks[a].pending.index = i}
    BY <1>2 DEF Due
<1>4. b \in due
    BY <1>3 DEF Late, Waits
<1>5. /\ session \in Nat /\ i \in Nat
      /\ id.delayed = IF session + 1 \in Fills THEN session + 2 ELSE NoTime
    BY IdentityFacts
<1>6. \A why : Fail(Locals, why).error = why /\ Fail(Locals, why).book = book
    BY <1>1 DEF Fail
<1> HIDE DEF due, id
<1>7. CASE id.delayed = NoTime
  <2>1. FillEarlier(Locals, id) = Fail(Locals, "missing_delayed_fill")
      BY <1>4, <1>7 DEF FillEarlier, due
  <2> QED BY <1>6, <2>1 DEF id
<1>8. CASE id.delayed # NoTime
  <2>1. id.delayed = session + 2
      BY <1>5, <1>8
  <2>2. FillEarlier(Locals, id) = FillAt(Locals, due, id.delayed, i)
      BY <1>4, <1>8 DEF FillEarlier, due
  <2>3. \A a \in due : cs[a].raised = "forward_scan"
    <3> SUFFICES ASSUME NEW a \in due
                 PROVE  ApplyFill(clocks[a], id.delayed, i).raised = "forward_scan"
        BY <1>2, <1>3
    <3>1. clocks[a] \in Clocks /\ clocks[a].pending # NoTarget /\ clocks[a].pending.index = i
          /\ clocks[a].pending.time = session + 1
        BY <1>3 DEF Late, Waits, ClocksMatch
    <3>2. ~(i < i) /\ id.delayed # session + 1
      <4> HIDE DEF i
      <4>1. ~(i < i)
          BY <1>5
      <4>2. session + 2 # session + 1
          BY <1>5
      <4> QED BY <2>1, <4>1, <4>2
    <3>3. ApplyFill(clocks[a], id.delayed, i) = [clocks[a] EXCEPT !.raised = "forward_scan"]
        BY <3>1, <3>2 DEF ApplyFill
    <3> QED BY <3>1, <3>3 DEF Clocks
  <2>4. \A a \in Assets \ due : cs[a].raised = "no"
      BY <1>2 DEF ClocksMatch, Clocks
  <2>5. b \in Raised(cs)
      BY <1>4, <2>3 DEF Raised
  <2>6. \A a \in Raised(cs) : cs[a].raised = "forward_scan"
      BY <2>3, <2>4 DEF Raised
  <2>7. FillAt(Locals, due, id.delayed, i) = Fail(Locals, cs[CHOOSE a \in Raised(cs) : TRUE].raised)
    <3>1. Raised(cs) # {}
        BY <2>5
    <3> QED BY <1>2, <3>1 DEF FillAt
  <2>8. cs[CHOOSE a \in Raised(cs) : TRUE].raised = "forward_scan"
    <3> HIDE DEF cs
    <3> QED BY <2>5, <2>6
  <2> QED BY <1>6, <2>2, <2>7, <2>8 DEF id
<1> QED BY <1>7, <1>8 DEF id

(* With nothing long and nothing waiting the last fill changes nothing.     *)
LEMMA NothingToEnd ==
    ASSUME NEW id, Locals = Going(clocks, {}, book), clocks \in [Assets -> Clocks],
           \A a \in Assets : clocks[a].actual = Flat /\ clocks[a].pending = NoTarget
    PROVE  Terminate(Locals, id) = Locals
<1> DEFINE p == Locals
           w == {a \in Assets : p.clocks[a].pending # NoTarget}
           lg == {a \in Assets : p.clocks[a].actual = Long}
           fo == [session |-> id.session, index |-> id.index, time |-> id.base, weight |-> Flat]
           lt == {a \in lg : Decide(p.clocks[a], delay, id.session, id.base, NoTime, id.index,
                                    "none").raised # "no"}
           cs == [a \in Assets |-> [p.clocks[a] EXCEPT !.pending = IF a \in lg THEN fo
                                                                   ELSE NoTarget]]
           shut == {TargetOf(a, fo) : a \in lg}
           off == {[asset |-> a, session |-> p.clocks[a].pending.session,
                    kind |-> "terminal_cancel", index |-> NoIndex, time |-> id.base] : a \in w}
<1>1. /\ p = [clocks |-> clocks, targets |-> {}, settled |-> {}, book |-> book, error |-> "no"]
      /\ p.clocks = clocks /\ p.error = "no"
    BY DEF Going
<1> HIDE DEF p
<1>2. Terminate(p, id) =
        IF p.error # "no" THEN p
        ELSE IF \E a \in w : p.clocks[a].pending.weight = Flat
             THEN Fail(p, "pending_exit_at_terminal")
        ELSE IF lt # {} THEN Fail(p, "no_delayed_identity")
        ELSE [p EXCEPT !.clocks = [a \in Assets |-> [@[a] EXCEPT !.pending =
                                      IF a \in lg THEN fo ELSE NoTarget]],
                       !.targets = @ \union shut, !.settled = @ \union off]
    BY Zenon DEF Terminate
<1>3. w = {} /\ lg = {}
    BY <1>1 DEF Flat, Long
<1> HIDE DEF w, lg
<1>4. lt = {} /\ shut = {} /\ off = {}
    BY <1>3
<1>5. cs = clocks
  <2>1. \A a \in Assets : [p.clocks[a] EXCEPT !.pending = IF a \in lg THEN fo ELSE NoTarget]
                            = clocks[a]
    <3> SUFFICES ASSUME NEW a \in Assets PROVE [clocks[a] EXCEPT !.pending = NoTarget] = clocks[a]
        BY <1>1, <1>3
    <3>1. clocks[a] \in Clocks /\ clocks[a].pending = NoTarget
        OBVIOUS
    <3> QED BY <3>1 DEF Clocks
  <2> QED BY <2>1
<1> HIDE DEF lt, shut, off, fo
<1>6. Terminate(p, id)
        = [p EXCEPT !.clocks = cs, !.targets = @ \union shut, !.settled = @ \union off]
    BY <1>1, <1>2, <1>3, <1>4
<1> HIDE DEF cs
<1>7. Terminate(p, id) = [p EXCEPT !.clocks = clocks, !.targets = {}, !.settled = {}]
    BY <1>1, <1>4, <1>5, <1>6
<1>8. [p EXCEPT !.clocks = clocks, !.targets = {}, !.settled = {}]
        = [[[p EXCEPT !.clocks = clocks] EXCEPT !.targets = {}] EXCEPT !.settled = {}]
    BY Zenon
<1>9. [p EXCEPT !.clocks = clocks] = p /\ [p EXCEPT !.targets = {}] = p
      /\ [p EXCEPT !.settled = {}] = p
  <2> DEFINE none == {}
  <2>1. p = [clocks |-> clocks, targets |-> none, settled |-> none, book |-> book, error |-> "no"]
      BY <1>1
  <2> HIDE DEF none
  <2>2. [p EXCEPT !.clocks = clocks] = p
      BY <2>1
  <2>3. [p EXCEPT !.targets = none] = p
      BY <2>1
  <2>4. [p EXCEPT !.settled = none] = p
      BY <2>1
  <2> QED BY <2>2, <2>3, <2>4 DEF none
<1> QED BY <1>7, <1>8, <1>9 DEF p

(* Nor does a fill that nothing waits for.                                  *)
LEMMA NothingDue ==
    ASSUME NEW id, NEW last, Locals = Going(clocks, {}, book), clocks \in [Assets -> Clocks],
           \A a \in Assets : clocks[a].pending = NoTarget
    PROVE  FillBase(Locals, id, last) = Locals
<1> DEFINE p == Locals
           cs == [a \in Assets |-> IF a \in {} THEN ApplyFill(p.clocks[a], id.base, id.index)
                                               ELSE p.clocks[a]]
           off == {[asset |-> a, session |-> p.clocks[a].pending.session, kind |-> "fill",
                    index |-> id.index, time |-> id.base] : a \in {}}
<1>1. /\ p = [clocks |-> clocks, targets |-> {}, settled |-> {}, book |-> book, error |-> "no"]
      /\ p.clocks = clocks /\ p.error = "no"
    BY DEF Going
<1> HIDE DEF p
<1>2. Due(p, id) = {}
    BY <1>1 DEF Due
<1>3. cs = clocks /\ off = {}
    BY <1>1
<1>4. Raised(cs) = {}
    BY <1>3 DEF Raised, Clocks
<1>5. FillAt(p, {}, id.base, id.index) = [p EXCEPT !.clocks = cs, !.settled = @ \union off]
    BY <1>1, <1>4, Zenon DEF FillAt
<1> HIDE DEF cs, off
<1>6. [p EXCEPT !.clocks = cs, !.settled = @ \union off] = p
    BY <1>1, <1>3
<1> QED BY <1>2, <1>5, <1>6, Zenon DEF FillBase, p

(* A decision of a path with the delay is for the next fill.                *)
LEMMA LateDecision ==
    ASSUME NEW signal, NEW cs, session \in Nat, delay = 1,
           Identity[session].index \in Nat, Identity[session].delayed \in {NoTime, session + 2},
           Identity[session].delayed # NoTime => session + 1 \in Fills,
           clocks \in [Assets -> Clocks], \A a \in Assets : clocks[a].pending = NoTarget,
           Raised(cs) = {},
           cs = [a \in Assets |-> IF a \in active
                   THEN Decide(clocks[a], delay, session, session + 1,
                               Identity[session].delayed, Identity[session].index, signal[a])
                   ELSE clocks[a]]
    PROVE  \A a \in Assets :
              /\ cs[a] \in Clocks /\ cs[a].actual = clocks[a].actual
              /\ cs[a].pending # NoTarget =>
                    /\ session + 1 \in Fills /\ cs[a].pending.index = Identity[session].index + 1
                    /\ cs[a].pending.time = session + 2
<1> SUFFICES ASSUME NEW a \in Assets, a \in active, cs[a] # clocks[a]
             PROVE  /\ session + 1 \in Fills /\ cs[a] \in Clocks /\ cs[a].actual = clocks[a].actual
                    /\ cs[a].pending.index = Identity[session].index + 1
                    /\ cs[a].pending.time = session + 2
    OBVIOUS
<1> DEFINE D == Desired(clocks[a], Identity[session].index, signal[a])
<1>1. cs[a] = Decide(clocks[a], delay, session, session + 1, Identity[session].delayed,
                     Identity[session].index, signal[a])
    OBVIOUS
<1>2. cs[a].raised = "no"
    BY DEF Raised
<1>3. clocks[a] \in Clocks /\ clocks[a].pending = NoTarget
    OBVIOUS
<1>4. D # {}
    BY <1>1, <1>3 DEF Decide
<1>5. (CHOOSE w \in D : TRUE) \in {Flat, Long}
    BY <1>4 DEF Desired
<1> DEFINE w == CHOOSE x \in D : TRUE
<1>6. Identity[session].delayed # NoTime
  <2> SUFFICES ASSUME Identity[session].delayed = NoTime PROVE FALSE
      OBVIOUS
  <2>1. cs[a] = [clocks[a] EXCEPT !.raised = "no_delayed_identity"]
      BY <1>1, <1>3, <1>4 DEF Decide, NoTime
  <2> QED BY <1>2, <1>3, <2>1 DEF Clocks
<1>7. Identity[session].delayed # 0 /\ ~(delay = 0)
    BY <1>6 DEF NoTime
<1>8. cs[a] = [clocks[a] EXCEPT !.pending =
                 [session |-> session, index |-> Identity[session].index + 1,
                  time |-> Identity[session].delayed, weight |-> w]]
    BY <1>1, <1>3, <1>4, <1>7 DEF Decide
<1> DEFINE order == [session |-> session, index |-> Identity[session].index + 1,
                     time |-> session + 2, weight |-> w]
<1> HIDE DEF w
<1>9. order \in PendingTargets
    BY <1>5 DEF PendingTargets, w
<1>10. order.index = Identity[session].index + 1 /\ order.time = session + 2
    OBVIOUS
<1>11. cs[a] = [clocks[a] EXCEPT !.pending = order]
    BY <1>6, <1>8
<1> HIDE DEF order
<1> QED BY <1>3, <1>6, <1>9, <1>10, <1>11 DEF Clocks

(* A session with the delay: nothing long, at most new targets.             *)
LEMMA EvaluateLate ==
    ASSUME PathTypes, ClocksMatch, Late, delay = 1, error = "no", session \in Fills,
           NEW signal \in [Assets -> Signals]
    PROVE  LateOutcome(Evaluate(Identity[session], signal))
<1> DEFINE id == Identity[session]
           i == id.index
           last == id.session = TerminalSession(market)
           earlier == FillEarlier(Locals, id)
           decided == IF last THEN Terminate(earlier, id) ELSE DecideAll(earlier, id, signal)
           result == Evaluate(id, signal)
<1>1. /\ id.session = session /\ id.base = session + 1 /\ i \in Nat /\ session \in Nat
      /\ id.delayed = IF session + 1 \in Fills THEN session + 2 ELSE NoTime
      /\ session + 1 \in Fills => Identity[session + 1].index = i + 1
    BY IdentityFacts
<1>2. \A a \in Assets : /\ clocks[a] \in Clocks /\ clocks[a].actual = Flat
                        /\ clocks[a].raised = "no"
    BY DEF ClocksMatch, Late, Clocks
<1>7. clocks \in [Assets -> Clocks]
    BY DEF ClocksMatch
<1> HIDE DEF id
<1>3. result = IF session < first THEN earlier ELSE Account(FillBase(decided, id, last), id, last)
  <2> HIDE DEF Locals
  <2> QED BY <1>1, Zenon DEF Evaluate
<1>4. session \in Nat /\ first \in Nat
    BY <1>1 DEF PathTypes
<1>5. CASE \E b \in Assets : clocks[b].pending # NoTarget
  <2>1. earlier.error \in {"missing_delayed_fill", "forward_scan"} /\ earlier.book = book
      BY <1>5, LateTargetFails DEF id
  <2> HIDE DEF earlier
  <2>2. decided = earlier
      BY <2>1, FailureStays
  <2>3. Account(FillBase(decided, id, last), id, last) = earlier
      BY <2>1, <2>2, FailureStays
  <2>4. result = earlier
      BY <1>3, <2>3
  <2> HIDE DEF result
  <2> QED BY <2>1, <2>4 DEF LateOutcome, id, result
<1>6. CASE \A a \in Assets : clocks[a].pending = NoTarget
  <2>1. targets = {} /\ settled = {}
      BY <1>6 DEF Late
  <2>2. Locals = Going(clocks, {}, book) /\ Locals.clocks = clocks /\ Locals.error = "no"
      BY <2>1 DEF Locals, Going
  <2>3. earlier = Locals
    <3>1. Due(Locals, id) = {}
        BY <1>6, <2>2 DEF Due
    <3> QED BY <3>1 DEF FillEarlier
  <2>4. CASE session < first
    <3>1. result = Locals
        BY <1>3, <2>3, <2>4
    <3> HIDE DEF result
    <3> QED BY <1>6, <2>4, <3>1 DEF LateOutcome, result, id
  <2>5. CASE first <= session /\ last
    <3>1. decided = Locals
      <4>1. Terminate(Locals, id) = Locals
          BY <1>2, <1>6, <1>7, <2>2, NothingToEnd
      <4> QED BY <2>3, <2>5, <4>1
    <3>2. FillBase(Locals, id, last) = Locals
        BY <1>6, <1>7, <2>2, NothingDue
    <3>3. ~(session < first)
        BY <1>4, <2>5
    <3>4. result = Account(Locals, id, last)
        BY <1>3, <3>1, <3>2, <3>3
    <3>5. session + 1 # NoTime /\ session + 1 \in Nat
        BY <1>1 DEF NoTime
    <3>6. Account(Locals, id, last) = Going(clocks, {}, Append(book, FlatEntry(session + 1)))
        BY <1>1, <1>2, <2>2, <2>5, <3>5, AccountFlat DEF id
    <3>7. /\ result.error = "no" /\ result.settled = {} /\ result.clocks = clocks
          /\ result.book = Append(book, FlatEntry(session + 1)) /\ result.targets = {}
        BY <3>4, <3>6 DEF Going
    <3>8. clocks \in [Assets -> Clocks]
        BY DEF ClocksMatch
    <3> HIDE DEF result
    <3> QED BY <1>2, <1>6, <2>5, <3>5, <3>7, <3>8 DEF LateOutcome, result, id
  <2>6. CASE first <= session /\ ~last
    <3> DEFINE cs == [a \in Assets |-> IF a \in active
                         THEN Decide(clocks[a], delay, session, session + 1, id.delayed, i,
                                     signal[a])
                         ELSE clocks[a]]
               new == {a \in Assets : cs[a].pending # clocks[a].pending}
               ts == {TargetOf(a, cs[a].pending) : a \in new}
    <3>0. ~(session < first)
        BY <1>4, <2>6
    <3>1. DecideAll(Locals, id, signal)
            = IF Raised(cs) # {} THEN Fail(Locals, "no_delayed_identity")
              ELSE Going(cs, ts, book)
      <4>1. DecideAll(Locals, id, signal)
              = IF Raised(cs) # {} THEN Fail(Locals, "no_delayed_identity")
                ELSE [Locals EXCEPT !.clocks = cs, !.targets = @ \union ts]
        <5> HIDE DEF Locals
        <5> QED BY <1>1, <2>2, ZenonT(60) DEF DecideAll
      <4>2. [Locals EXCEPT !.clocks = cs, !.targets = @ \union ts] = Going(cs, ts, book)
        <5>1. {} \union ts = ts
            OBVIOUS
        <5>2. Locals = [clocks |-> clocks, targets |-> {}, settled |-> {}, book |-> book,
                        error |-> "no"]
            BY <2>2 DEF Going
        <5> HIDE DEF Locals, cs
        <5>3. [Locals EXCEPT !.clocks = cs, !.targets = @ \union ts]
                = [[Locals EXCEPT !.clocks = cs] EXCEPT !.targets = ts]
          <6> HIDE DEF ts
          <6> QED BY <5>1, <5>2
        <5> HIDE DEF ts
        <5> DEFINE l1 == [clocks |-> cs, targets |-> {}, settled |-> {}, book |-> book,
                          error |-> "no"]
        <5>4. [Locals EXCEPT !.clocks = cs] = l1
            BY <5>2
        <5>5. [l1 EXCEPT !.targets = ts] = Going(cs, ts, book)
            BY DEF Going
        <5> QED BY <5>3, <5>4, <5>5, Zenon
      <4> QED BY <4>1, <4>2
    <3>2. \A why : Fail(Locals, why).error = why /\ Fail(Locals, why).book = book
        BY <2>2 DEF Fail, Going
    <3>3. CASE Raised(cs) # {}
      <4>1. decided = Fail(Locals, "no_delayed_identity")
          BY <2>3, <2>6, <3>1, <3>3
      <4> DEFINE p == Fail(Locals, "no_delayed_identity")
      <4>2. p.error = "no_delayed_identity" /\ p.book = book
          BY <3>2
      <4> HIDE DEF p
      <4>3. result = p
          BY <1>3, <3>0, <4>1, <4>2, FailureStays DEF p
      <4> HIDE DEF result
      <4> QED BY <4>2, <4>3 DEF LateOutcome, result, id
    <3>4. CASE Raised(cs) = {}
      <4>1. decided = Going(cs, ts, book)
          BY <2>3, <2>6, <3>1, <3>4
      <4>2. FillBase(decided, id, last) = decided
          BY <2>6 DEF FillBase
      <4>4. \A a \in Assets : /\ cs[a] \in Clocks /\ cs[a].actual = Flat
                              /\ cs[a].pending # NoTarget =>
                                    /\ session + 1 \in Fills /\ cs[a].pending.index = i + 1
                                    /\ cs[a].pending.time = session + 2
        <5>1. id.delayed \in {NoTime, session + 2} /\ (id.delayed # NoTime => session + 1 \in Fills)
            BY <1>1
        <5>2. cs = [a \in Assets |-> IF a \in active
                      THEN Decide(clocks[a], delay, session, session + 1, id.delayed, id.index,
                                  signal[a])
                      ELSE clocks[a]]
            OBVIOUS
        <5> HIDE DEF cs
        <5>3. \A a \in Assets :
                 /\ cs[a] \in Clocks /\ cs[a].actual = clocks[a].actual
                 /\ cs[a].pending # NoTarget =>
                       /\ session + 1 \in Fills /\ cs[a].pending.index = id.index + 1
                       /\ cs[a].pending.time = session + 2
          <6>1. session \in Nat /\ delay = 1 /\ id.index \in Nat
              BY <1>1
          <6>2. \A a \in Assets : clocks[a].pending = NoTarget
              BY <1>6
          <6>3. Raised(cs) = {}
              BY <3>4
          <6> HIDE DEF last, earlier, decided, result, i
          <6>4. /\ Identity[session].index \in Nat
                /\ Identity[session].delayed \in {NoTime, session + 2}
                /\ Identity[session].delayed # NoTime => session + 1 \in Fills
                /\ cs = [a \in Assets |-> IF a \in active
                           THEN Decide(clocks[a], delay, session, session + 1,
                                       Identity[session].delayed, Identity[session].index,
                                       signal[a])
                           ELSE clocks[a]]
              BY <6>1, <5>1, <5>2 DEF id
          <6>5. \A a \in Assets :
                   /\ cs[a] \in Clocks /\ cs[a].actual = clocks[a].actual
                   /\ cs[a].pending # NoTarget =>
                         /\ session + 1 \in Fills
                         /\ cs[a].pending.index = Identity[session].index + 1
                         /\ cs[a].pending.time = session + 2
            <7> HIDE DEF id
            <7> QED BY <6>1, <6>2, <6>3, <6>4, <1>7, LateDecision
          <6> QED BY <6>5 DEF id
        <5> QED BY <1>2, <5>3
      <4> HIDE DEF cs
      <4>5. ts # {} => \E a \in Assets : cs[a].pending # NoTarget
          BY <1>6
      <4> HIDE DEF ts, decided
      <4> DEFINE time == id.delayed
                 p == Account(Going(cs, ts, book), id, last)
      <4>6. /\ time = NoTime => p.error = "missing_accounting_vector" /\ p.book = book
            /\ time # NoTime => p = Going(cs, ts, Append(book, FlatEntry(time)))
        <5>1. (IF delay = 0 \/ last THEN id.base ELSE id.delayed) = time
            BY <2>6
        <5> HIDE DEF last
        <5> QED BY <4>4, <5>1, AccountFlat DEF id
      <4>7. result = p
          BY <1>3, <3>0, <4>1, <4>2
      <4>8. time \in Nat
          BY <1>1 DEF NoTime
      <4>9. cs = [a \in Assets |-> cs[a]]
          BY DEF cs
      <4> HIDE DEF p, time
      <4>10. CASE time = NoTime
        <5>1. result.error = "missing_accounting_vector" /\ result.book = book
            BY <4>6, <4>7, <4>10
        <5> HIDE DEF result
        <5> QED BY <5>1 DEF LateOutcome, result, id
      <4>11. CASE time # NoTime
        <5>1. /\ result.error = "no" /\ result.settled = {} /\ result.clocks = cs
              /\ result.book = Append(book, FlatEntry(time)) /\ result.targets = ts
            BY <4>6, <4>7, <4>11 DEF Going
        <5>2. cs \in [Assets -> Clocks]
            BY <4>4, <4>9
        <5>3. session + 1 \in Fills => Identity[session + 1].index = i + 1
            BY <1>1
        <5> HIDE DEF result, i
        <5> QED BY <2>6, <4>4, <4>5, <4>8, <5>1, <5>2, <5>3 DEF LateOutcome, result, id
      <4> QED BY <4>10, <4>11
    <3> QED BY <3>3, <3>4
  <2> QED BY <1>4, <2>4, <2>5, <2>6
<1> QED BY <1>5, <1>6

(* A segment is named by a number.                                          *)
LEMMA SegmentType == \A s \in Fills : Identity[s].segment \in Int
<1> SUFFICES ASSUME NEW s \in FillSessions(market)
             PROVE  FillIdentities(market)[s].segment \in Int
    BY DEF Fills, Identity
<1>1. s \in Sessions
    BY FillFacts
<1>2. FillIdentities(market)[s].segment = GapSegments(market)[s]
    BY DEF FillIdentities
<1>3. GapSegments(market)[s] \in {Cardinality(Breaks(market, s)), NoSegment}
    BY <1>1 DEF GapSegments, Breaks
<1>4. Cardinality(Breaks(market, s)) \in Nat
    BY <1>1, SegmentsStay
<1> QED BY <1>2, <1>3, <1>4 DEF NoSegment

(* The calendar of a path never changes.                                    *)
LEMMA MarketStays ==
    market' = market => /\ Fills' = Fills /\ Identity' = Identity
                        /\ TerminalSession(market)' = TerminalSession(market)
BY DEF Fills, Identity

(* A vector of a session added to the book: positions still end in time and *)
(* stay in their segment.                                                   *)
NextEntry(time, cs) ==
    [session |-> session, index |-> Identity[session].index,
     segment |-> Identity[session].segment, time |-> time,
     weight |-> [a \in Assets |-> cs[a].actual]]

Kept(a) ==
    /\ clocks[a].actual = Long /\ clocks'[a].entry = clocks[a].entry
    /\ Identity[session].index < clocks[a].entry + MaxHold
Opened(a) ==
    /\ clocks[a].actual = Flat /\ clocks'[a].entry = Identity[session].index /\ a \in active

(* The vector of such a session keeps what the book promises.               *)
LEMMA BookGrows ==
    ASSUME PathTypes, ExposureStaysInSegment, ClocksMatch, session \in Fills, first <= session,
           \A a \in Assets : \A i \in 1 .. Len(book) : i + MaxHold <= Len(book) =>
              \E j \in i .. i + MaxHold : book[j].weight[a] = Flat,
           clocks' \in [Assets -> Clocks], session' = session + 1,
           UNCHANGED <<market, delay, first, active>>,
           NEW time \in Nat, book' = Append(book, NextEntry(time, clocks')),
           \A a \in Assets : clocks'[a].actual = Long =>
              (Kept(a) \/ Opened(a)) /\ session # TerminalSession(market)
    PROVE  /\ PathTypes' /\ ExposureStaysInSegment' /\ ClocksMatch'
           /\ \A a \in Assets : \A i \in 1 .. Len(book') : i + MaxHold <= Len(book') =>
                 \E j \in i .. i + MaxHold : book'[j].weight[a] = Flat
<1> DEFINE n == Len(book)
           entry == NextEntry(time, clocks')
           index == Identity[session].index
<1>1. /\ session \in Nat /\ session < Days /\ Days \in Nat /\ session \in Sessions
      /\ index \in Nat
    BY IdentityFacts
<1>2. /\ entry.session = session /\ entry.index = index
      /\ entry.segment = Identity[session].segment
      /\ \A a \in Assets : entry.weight[a] = clocks'[a].actual
    BY DEF NextEntry
<1>3. entry \in Entries
  <2>1. Identity[session].segment \in Int
      BY SegmentType
  <2>2. \A a \in Assets : clocks'[a].actual \in {Flat, Long}
      BY DEF Clocks
  <2>3. [a \in Assets |-> clocks'[a].actual] \in [Assets -> {Flat, Long}]
      BY <2>2
  <2> QED BY <1>1, <2>1, <2>3 DEF Entries, NextEntry
<1> HIDE DEF entry
<1>4. /\ book' \in Seq(Entries) /\ Len(book') = n + 1 /\ n \in Nat /\ book'[n + 1] = entry
      /\ \A i \in 1 .. n : book'[i] = book[i]
  <2>1. book \in Seq(Entries) /\ book' = Append(book, entry)
      BY DEF PathTypes, entry
  <2> HIDE DEF Entries
  <2> QED BY <1>3, <2>1
<1>5. LastEntry' = entry /\ book' # <<>>
    BY <1>4 DEF LastEntry
<1>6. Fills' = Fills /\ Identity' = Identity /\ TerminalSession(market)' = TerminalSession(market)
    BY MarketStays
<1>7. PathTypes'
    BY <1>1, <1>4, <1>6 DEF PathTypes
<1>8. \A a \in Assets : clocks[a].actual = Long => OpenSince(a)
    BY DEF ClocksMatch
<1>9. book # <<>> => LastEntry = book[n] /\ n >= 1 /\ LastEntry \in Entries
                     /\ \A a \in Assets : LastEntry.weight[a] = clocks[a].actual
    BY <1>4 DEF LastEntry, ClocksMatch, PathTypes
<1>10. ASSUME NEW a \in Assets, clocks[a].actual = Long
       PROVE  /\ book # <<>> /\ LastEntry.session + 1 = session
              /\ LastEntry.segment = Identity[session].segment
              /\ LastEntry.index + 1 = index /\ LastEntry.index \in Nat
              /\ clocks[a].entry <= LastEntry.index /\ clocks[a].entry \in Int
              /\ n - (LastEntry.index - clocks[a].entry) >= 1
              /\ \/ n - (LastEntry.index - clocks[a].entry) = 1
                 \/ book[n - (LastEntry.index - clocks[a].entry) - 1].weight[a] = Flat
  <2>1. OpenSince(a)
      BY <1>8, <1>10
  <2>2. session - 1 \in Fills /\ (session - 1) + 1 = session
      BY <1>1, <2>1 DEF OpenSince
  <2>3. /\ Identity[session].index = Identity[session - 1].index + 1
        /\ Identity[session].segment = Identity[session - 1].segment
        /\ Identity[session - 1].index \in Nat
      BY <2>2, IdentityFacts
  <2>4. clocks[a].entry \in Int
      BY DEF ClocksMatch, Clocks
  <2> QED BY <2>1, <2>2, <2>3, <2>4 DEF OpenSince
<1>11. ExposureStaysInSegment'
  <2> SUFFICES ASSUME NEW i \in 1 .. Len(book') - 1, NEW a \in Assets, book'[i].weight[a] = Long
               PROVE  /\ book'[i].segment = book'[i + 1].segment
                      /\ book'[i + 1].session = book'[i].session + 1
      BY DEF ExposureStaysInSegment
  <2>1. CASE i = n
    <3>1. book'[i] = LastEntry /\ book # <<>> /\ book'[i + 1] = entry
        BY <1>4, <1>9, <2>1
    <3>2. clocks[a].actual = Long
        BY <1>9, <3>1
    <3> QED BY <1>2, <1>10, <3>1, <3>2
  <2>2. CASE i # n
    <3>1. i \in 1 .. n - 1 /\ i \in 1 .. n /\ i + 1 \in 1 .. n
        BY <1>4, <2>2
    <3>2. book'[i] = book[i] /\ book'[i + 1] = book[i + 1]
        BY <1>4, <3>1
    <3> QED BY <3>1, <3>2 DEF ExposureStaysInSegment
  <2> QED BY <2>1, <2>2
<1>12. ASSUME NEW a \in Assets, NEW i \in 1 .. Len(book'), i + MaxHold <= Len(book')
       PROVE  \E j \in i .. i + MaxHold : book'[j].weight[a] = Flat
  <2>0. MaxHold \in Nat /\ MaxHold >= 1
      BY HoldAssumption
  <2>1. CASE i + MaxHold <= n
    <3>1. i \in 1 .. n
        BY <1>4, <2>0, <2>1
    <3>2. PICK j \in i .. i + MaxHold : book[j].weight[a] = Flat
        BY <2>1, <3>1
    <3>3. book'[j] = book[j]
        BY <1>4, <2>0, <2>1, <3>1
    <3> QED BY <3>2, <3>3
  <2>2. CASE i + MaxHold = n + 1 /\ clocks'[a].actual # Long
    <3>1. entry.weight[a] = Flat
        BY <1>2, <2>2 DEF Clocks
    <3>2. n + 1 \in i .. i + MaxHold
        BY <1>4, <2>0, <2>2
    <3> QED BY <1>4, <3>1, <3>2
  <2>3. CASE i + MaxHold = n + 1 /\ clocks'[a].actual = Long
    <3>1. CASE Opened(a)
      <4>1. n >= 1 /\ n \in i .. i + MaxHold /\ n \in 1 .. n
          BY <1>4, <2>0, <2>3
      <4>2. book # <<>>
          BY <4>1
      <4>3. book'[n].weight[a] = Flat
          BY <1>4, <1>9, <3>1, <4>1, <4>2 DEF Opened
      <4> QED BY <4>1, <4>3
    <3>2. CASE Kept(a)
      <4> DEFINE e == clocks[a].entry
                 l == LastEntry.index
                 k == n - (l - e)
      <4>1. l + 1 = index /\ l \in Nat /\ e \in Int /\ e <= l /\ k >= 1
            /\ (k = 1 \/ book[k - 1].weight[a] = Flat)
          BY <1>10, <3>2 DEF Kept
      <4>2. index < e + MaxHold
          BY <3>2 DEF Kept
      <4> HIDE DEF e, l, index
      <4>3. k - 1 \in i .. i + MaxHold /\ k # 1 /\ k - 1 \in 1 .. n
          BY <1>4, <2>0, <2>3, <4>1, <4>2
      <4> QED BY <1>4, <4>1, <4>3
    <3> QED BY <2>3, <3>1, <3>2
  <2>4. i + MaxHold <= n \/ i + MaxHold = n + 1
    <3>1. i \in Int /\ MaxHold \in Int /\ n \in Int /\ i + MaxHold <= n + 1
        BY <1>4, <1>12, <2>0
    <3> HIDE DEF n
    <3> QED BY <3>1
  <2> QED BY <2>1, <2>2, <2>3, <2>4
<1>13. ASSUME NEW a \in Assets, clocks'[a].actual = Long PROVE OpenSince(a)'
  <2>1. session # TerminalSession(market) /\ (Kept(a) \/ Opened(a))
      BY <1>13
  <2> DEFINE e == clocks'[a].entry
             k == Len(book') - (index - e)
  <2>2. e <= index /\ index < e + MaxHold /\ k >= 1 /\ (k = 1 \/ book'[k - 1].weight[a] = Flat)
        /\ a \in active
    <3>1. CASE Opened(a)
      <4>1. e = index /\ k = n + 1 /\ k - 1 = n
          BY <1>1, <1>4, <3>1 DEF Opened
      <4>2. n # 0 => book'[n].weight[a] = Flat
          BY <1>4, <1>9, <3>1 DEF Opened
      <4> HIDE DEF e, index
      <4>3. e <= index /\ index < e + MaxHold /\ k >= 1
          BY <1>1, <1>4, <4>1, HoldAssumption
      <4> HIDE DEF k, n
      <4>4. n \in Nat /\ (k = 1 \/ n # 0)
          BY <1>4, <4>1
      <4>5. k = 1 \/ book'[k - 1].weight[a] = Flat
          BY <4>1, <4>2, <4>4
      <4> QED BY <3>1, <4>3, <4>5 DEF Opened
    <3>2. CASE Kept(a)
      <4> DEFINE l == LastEntry.index
                 f == clocks[a].entry
                 m == n - (l - f)
      <4>1. l + 1 = index /\ l \in Nat /\ f \in Int /\ f <= l /\ m >= 1
            /\ (m = 1 \/ book[m - 1].weight[a] = Flat)
          BY <1>10, <3>2 DEF Kept
      <4>2. e = f /\ index < e + MaxHold
          BY <3>2 DEF Kept
      <4> HIDE DEF e, l, f, index
      <4>3. k = m
          BY <1>4, <4>1, <4>2
      <4>4. m # 1 => m - 1 \in 1 .. n
          BY <1>4, <4>1
      <4>5. e <= index
          BY <4>1, <4>2
      <4>6. k = 1 \/ book'[k - 1].weight[a] = Flat
          BY <1>4, <4>1, <4>3, <4>4
      <4>7. a \in active
          BY <1>8, <3>2 DEF Kept, OpenSince
      <4> HIDE DEF k, m
      <4> QED BY <4>1, <4>2, <4>3, <4>5, <4>6, <4>7
    <3> QED BY <2>1, <3>1, <3>2
  <2>3. (session + 1) - 1 = session
      BY <1>1
  <2>4. first < session + 1
      BY <1>1 DEF PathTypes
  <2> QED BY <1>2, <1>5, <1>6, <2>1, <2>2, <2>3, <2>4 DEF OpenSince
<1>14. ClocksMatch'
    BY <1>2, <1>5, <1>13 DEF ClocksMatch
<1> QED BY <1>7, <1>11, <1>12, <1>14

(* A path that ends in an exception keeps what it booked.                   *)
LEMMA FailingStep ==
    ASSUME PathInv, PathRunning, NEW p, Become(p), p.book = book,
           p.error \notin {"no", "trace_rejected", "not_cash"}
    PROVE  PathInv'
<1>1. PathTypes /\ PathSound /\ session <= Days /\ Days \in Nat
    BY CalendarAssumption DEF PathInv, PathRunning
<1>2. /\ book' = book /\ error' = p.error /\ session' = session + 1
      /\ UNCHANGED <<market, delay, first, active>>
    BY DEF Become
<1>3. Fills' = Fills
    BY <1>2, MarketStays
<1>4. PathTypes'
    BY <1>1, <1>2, <1>3 DEF PathTypes
<1>5. PathSound'
    BY <1>1, <1>2 DEF PathSound, ExposureStaysInSegment, HoldsEnd
<1> QED BY <1>2, <1>4, <1>5 DEF PathInv

(* A session without a vector, with nothing long and nothing waiting.       *)
LEMMA QuietStep ==
    ASSUME PathInv, PathRunning, \A a \in Assets : clocks[a].actual = Flat,
           error' = "no", session' = session + 1, delay = 1 => targets = {},
           UNCHANGED <<market, delay, first, active, targets, settled, book>>,
           clocks' \in [Assets -> Clocks],
           \A a \in Assets : clocks'[a].actual = Flat /\ clocks'[a].pending = NoTarget
    PROVE  PathInv'
<1>1. /\ PathTypes /\ PathSound /\ session <= Days /\ Days \in Nat /\ ClocksMatch
      /\ (delay = 0 => Prompt) /\ (delay = 1 => Late)
    BY CalendarAssumption DEF PathInv, PathRunning
<1>2. Fills' = Fills /\ session \in Nat
    BY <1>1, MarketStays DEF PathTypes
<1>3. PathTypes'
    BY <1>1, <1>2 DEF PathTypes
<1>4. PathSound'
    BY <1>1 DEF PathSound, ExposureStaysInSegment, HoldsEnd
<1>5. ClocksMatch'
  <2>1. \A a \in Assets : clocks'[a].actual # Long
      BY DEF Flat, Long
  <2> QED BY <1>1, <2>1 DEF ClocksMatch, LastEntry
<1>6. delay' = 0 => Prompt'
  <2> SUFFICES ASSUME delay = 0 PROVE Prompt'
      OBVIOUS
  <2>1. \A t \in targets : t.session \in Nat /\ t.session < session + 1
      BY <1>1, <1>2 DEF Prompt
  <2> QED BY <1>1, <2>1 DEF Prompt, Disposed
<1>7. delay' = 1 => Late'
    BY <1>1 DEF Late
<1> QED BY <1>3, <1>4, <1>5, <1>6, <1>7 DEF PathInv

(* Where the calendar has no fill nothing waits, and nothing is long unless *)
(* the session is incomplete.                                               *)
LEMMA NothingCrosses ==
    ASSUME PathInv, error = "no", session \notin Fills
    PROVE  /\ \A a \in Assets : clocks[a].pending = NoTarget
           /\ session = Days + 1 \/ Complete(market, session) =>
                 \A a \in Assets : clocks[a].actual = Flat
           /\ delay = 1 => targets = {}
<1>1. /\ PathTypes /\ ClocksMatch /\ (delay = 0 => Prompt) /\ (delay = 1 => Late)
      /\ delay \in {0, 1} /\ session \in 1 .. Days + 1 /\ Days \in Nat
    BY CalendarAssumption DEF PathInv, PathTypes
<1>2. \A a \in Assets : clocks[a].pending = NoTarget
    BY <1>1 DEF Prompt, Late, Waits
<1>3. ASSUME session = Days + 1 \/ Complete(market, session), NEW a \in Assets,
             clocks[a].actual = Long
      PROVE  FALSE
  <2>1. session - 1 \in Fills /\ session - 1 # TerminalSession(market)
      BY <1>1, <1>3 DEF ClocksMatch, OpenSince
  <2>2. session - 1 < Days /\ session - 1 \in Nat /\ session - 1 \in Sessions
        /\ session - 1 <= TerminalSession(market)
      BY <1>1, <2>1, IdentityFacts
  <2>3. session <= Days /\ Complete(market, session) /\ session \in Sessions
      BY <1>1, <1>3, <2>2 DEF Sessions
  <2>4. ~(session < Days)
    <3>1. (session - 1) + 1 = session
        BY <1>1
    <3>2. session - 1 \in FillSessions(market)
        BY <2>1 DEF Fills
    <3>3. (session - 1) + 1 \in Sessions /\ Complete(market, (session - 1) + 1)
             /\ (session - 1) + 1 < Days => (session - 1) + 1 \in FillSessions(market)
        BY <3>2, FillFacts
    <3>4. ~(session < Days /\ session \in FillSessions(market))
        BY DEF Fills
    <3> QED BY <2>3, <3>1, <3>3, <3>4
  <2>5. TerminalSession(market) \in Fills
      BY <1>1, TerminalIsLast DEF PathTypes, Fills
  <2>6. TerminalSession(market) < Days /\ TerminalSession(market) \in Nat
      BY <1>1, <2>5, IdentityFacts
  <2> QED BY <1>1, <2>1, <2>2, <2>4, <2>6
<1>4. \A a \in Assets : clocks[a].actual \in {Flat, Long}
    BY <1>1 DEF ClocksMatch, Clocks
<1> QED BY <1>1, <1>2, <1>3, <1>4 DEF Late

(* A session that is complete but has no fill.                              *)
LEMMA SkipStep == PathInv /\ SkipSession => PathInv'
<1> SUFFICES ASSUME PathInv, SkipSession PROVE PathInv'
    OBVIOUS
<1>1. PathRunning /\ error = "no" /\ Complete(market, session) /\ session \notin Fills
    BY DEF SkipSession, PathRunning, HasIdentity, Fills
<1>2. /\ clocks' = clocks /\ error' = "no" /\ session' = session + 1
      /\ UNCHANGED <<market, delay, first, active, targets, settled, book>>
    BY DEF SkipSession, Become, Locals
<1>3. clocks \in [Assets -> Clocks]
    BY <1>1 DEF PathInv, ClocksMatch
<1> QED BY <1>1, <1>2, <1>3, NothingCrosses, QuietStep

(* A gap: the path fails over an open position and forgets nothing else.    *)
LEMMA GapStep == PathInv /\ GapSession => PathInv'
<1> SUFFICES ASSUME PathInv, GapSession PROVE PathInv'
    OBVIOUS
<1> DEFINE cs == [a \in Assets |-> QuarantineClock(clocks[a])]
<1>1. PathRunning /\ error = "no" /\ ~Complete(market, session) /\ Become(QuarantineAll)
    BY DEF GapSession, PathRunning
<1>2. session \notin Fills
  <2>1. \A s \in Fills : Complete(market, s)
      BY IdentityFacts DEF PathInv
  <2> QED BY <1>1, <2>1
<1>3. clocks \in [Assets -> Clocks]
    BY <1>1 DEF PathInv, ClocksMatch
<1>4. /\ Locals = [clocks |-> clocks, targets |-> targets, settled |-> settled, book |-> book,
                   error |-> "no"]
      /\ Locals.error = "no"
    BY DEF Locals
<1>5. CASE Raised(cs) # {}
  <2> DEFINE p == Fail(Locals, "risky_quarantine")
  <2>1. QuarantineAll = p
      BY <1>5 DEF QuarantineAll
  <2>2. p.error = "risky_quarantine" /\ p.book = book
      BY <1>4 DEF Fail
  <2> HIDE DEF p
  <2> QED BY <1>1, <2>1, <2>2, FailingStep
<1>6. CASE Raised(cs) = {}
  <2>1. QuarantineAll = [Locals EXCEPT !.clocks = cs]
      BY <1>6 DEF QuarantineAll
  <2>2. \A a \in Assets : /\ clocks[a].actual = Flat
                          /\ cs[a] = [clocks[a] EXCEPT !.pending = NoTarget, !.entry = NoIndex]
    <3> SUFFICES ASSUME NEW a \in Assets
                 PROVE  /\ clocks[a].actual = Flat
                        /\ QuarantineClock(clocks[a])
                              = [clocks[a] EXCEPT !.pending = NoTarget, !.entry = NoIndex]
        OBVIOUS
    <3>1. QuarantineClock(clocks[a]).raised = "no" /\ clocks[a] \in Clocks
        BY <1>3, <1>6 DEF Raised
    <3>2. [clocks[a] EXCEPT !.raised = "risky_quarantine"].raised = "risky_quarantine"
        BY <3>1 DEF Clocks
    <3>3. ~(clocks[a].actual = Long \/ (clocks[a].pending # NoTarget
                                         /\ clocks[a].pending.weight = Flat))
        BY <3>1, <3>2 DEF QuarantineClock
    <3> QED BY <3>1, <3>3 DEF QuarantineClock, Clocks
  <2>3. NoTarget \in PendingTargets /\ NoIndex \in Int
      BY DEF PendingTargets, NoTarget, NoIndex
  <2>4. \A a \in Assets : cs[a] \in Clocks /\ cs[a].actual = Flat /\ cs[a].pending = NoTarget
    <3> SUFFICES ASSUME NEW a \in Assets
                 PROVE  cs[a] \in Clocks /\ cs[a].actual = Flat /\ cs[a].pending = NoTarget
        OBVIOUS
    <3> DEFINE c == clocks[a]
               d == cs[a]
    <3>0. c \in Clocks /\ c.actual = Flat
          /\ d = [c EXCEPT !.pending = NoTarget, !.entry = NoIndex]
        BY <1>3, <2>2
    <3> HIDE DEF c, d
    <3> DEFINE none == NoTarget
               no == NoIndex
    <3>1. none \in PendingTargets /\ no \in Int
        BY <2>3
    <3> HIDE DEF none, no
    <3>2. d = [c EXCEPT !.pending = none, !.entry = no]
        BY <3>0 DEF none, no
    <3>3. d \in Clocks /\ d.actual = Flat /\ d.pending = none
        BY <3>0, <3>1, <3>2 DEF Clocks
    <3> QED BY <3>3 DEF none, d
  <2>5. cs \in [Assets -> Clocks]
      BY <2>4
  <2> HIDE DEF cs
  <2>6. /\ clocks' = cs /\ error' = "no" /\ session' = session + 1
        /\ UNCHANGED <<market, delay, first, active, targets, settled, book>>
      BY <1>1, <1>4, <2>1 DEF Become
  <2> QED BY <1>1, <1>2, <2>2, <2>4, <2>5, <2>6, NothingCrosses, QuietStep
<1> QED BY <1>5, <1>6

(* The clocks and the settled targets of a session without the delay.       *)
LEMMA TradesKeepTypes ==
    ASSUME PathTypes, ClocksMatch, Prompt, session \in Fills,
           NEW T \in SUBSET Assets, NEW wt \in [Assets -> {Flat, Long}], MayTrade(T, wt),
           clocks' = After(T, wt)
    PROVE  /\ clocks' \in [Assets -> Clocks]
           /\ \A a \in Assets : clocks'[a].pending = NoTarget
           /\ \A a \in Assets : clocks'[a].actual = Long =>
                 (Kept(a) \/ Opened(a)) /\ session # TerminalSession(market)
<1> DEFINE index == Identity[session].index
<1>1. index \in Nat
    BY IdentityFacts
<1>2. \A a \in Assets : clocks[a] \in Clocks /\ clocks[a].pending = NoTarget
    BY DEF ClocksMatch, Prompt
<1>3. NoTarget \in PendingTargets /\ NoIndex \in Int
    BY DEF PendingTargets, NoTarget, NoIndex
<1>4. \A a \in T : /\ clocks'[a].actual = wt[a] /\ clocks'[a].pending = NoTarget
                   /\ clocks'[a].entry = (IF wt[a] = Long THEN index ELSE NoIndex)
                   /\ clocks'[a] \in Clocks
  <2> SUFFICES ASSUME NEW a \in T
               PROVE  LET c == Executed(clocks[a], wt[a], index)
                      IN  /\ c.actual = wt[a] /\ c.pending = NoTarget
                          /\ c.entry = (IF wt[a] = Long THEN index ELSE NoIndex)
                          /\ c \in Clocks
      BY DEF After
  <2>1. wt[a] \in {Flat, Long}
      OBVIOUS
  <2> HIDE DEF index
  <2> QED BY <1>1, <1>3, <2>1 DEF Executed, Clocks
<1>5. \A a \in Assets \ T : clocks'[a] = clocks[a]
    BY DEF After
<1>6. clocks' \in [Assets -> Clocks]
  <2>1. clocks' = [a \in Assets |-> clocks'[a]]
      BY DEF After
  <2> QED BY <1>2, <1>4, <1>5, <2>1
<1>7. ASSUME NEW a \in Assets, clocks'[a].actual = Long
      PROVE  (Kept(a) \/ Opened(a)) /\ session # TerminalSession(market)
  <2>1. CASE a \in T
    <3>1. wt[a] = Long /\ clocks'[a].entry = index
        BY <1>4, <1>7, <2>1
    <3>2. clocks[a].actual # Long /\ a \in active /\ session # TerminalSession(market)
        BY <2>1, <3>1 DEF MayTrade
    <3>3. clocks[a].actual = Flat
        BY <1>2, <3>2 DEF Clocks
    <3> QED BY <3>1, <3>2, <3>3 DEF Opened
  <2>2. CASE a \notin T
    <3>1. clocks'[a] = clocks[a] /\ a \in Assets \ T
        BY <1>5, <2>2
    <3> QED BY <1>7, <3>1 DEF MayTrade, Kept
  <2> QED BY <2>1, <2>2
<1> QED BY <1>2, <1>4, <1>5, <1>6, <1>7

(* A trade is settled in its session, once.                                 *)
LEMMA TradesSettle ==
    ASSUME PathTypes, Prompt, NEW T \in SUBSET Assets, NEW wt, NEW index, session' = session + 1,
           targets' = targets \union Issued(T, wt, session, index),
           settled' = settled \union {Disposed(t) : t \in Issued(T, wt, session, index)},
           \A a \in Assets : clocks'[a].pending = NoTarget
    PROVE  Prompt'
<1> DEFINE new == Issued(T, wt, session, index)
<1>1. session \in Nat
    BY CalendarAssumption DEF PathTypes
<1>2. /\ \A t \in targets : t.session \in Nat /\ t.session < session
      /\ \A t, u \in targets : t.asset = u.asset /\ t.session = u.session => t = u
      /\ settled = {Disposed(t) : t \in targets}
    BY DEF Prompt
<1>3. \A t \in new : t.session = session
    BY DEF Issued
<1>4. \A t, u \in new : t.asset = u.asset => t = u
    BY DEF Issued
<1>5. targets' = targets \union new /\ settled' = settled \union {Disposed(t) : t \in new}
    OBVIOUS
<1> HIDE DEF new
<1>6. settled' = {Disposed(t) : t \in targets'}
    BY <1>2, <1>5
<1>7. \A t \in targets' : t.session \in Nat /\ t.session < session + 1
    BY <1>1, <1>2, <1>3, <1>5
<1>8. \A t, u \in targets' : t.asset = u.asset /\ t.session = u.session => t = u
  <2> SUFFICES ASSUME NEW t \in targets', NEW u \in targets', t.asset = u.asset,
                      t.session = u.session
               PROVE  t = u
      OBVIOUS
  <2>1. \A x \in targets, y \in new : x.session # y.session
    <3>1. \A i \in Nat : i < session => i # session
        BY <1>1
    <3> QED BY <1>2, <1>3, <3>1
  <2> QED BY <1>2, <1>4, <1>5, <2>1
<1> QED BY <1>6, <1>7, <1>8 DEF Prompt, Disposed

(* Evaluation without the delay.                                            *)
LEMMA PromptStep == PathInv /\ EvaluateSession /\ delay = 0 => PathInv'
<1> SUFFICES ASSUME PathInv, EvaluateSession, delay = 0 PROVE PathInv'
    OBVIOUS
<1>1. PathRunning /\ error = "no" /\ session \in Fills
    BY DEF EvaluateSession, PathRunning, HasIdentity, Fills
<1>2. PathTypes /\ PathSound /\ ClocksMatch /\ Prompt
    BY <1>1 DEF PathInv
<1>3. PICK signal \in [Assets -> Signals] : Become(Evaluate(Identity[session], signal))
    BY DEF EvaluateSession
<1> DEFINE p == Evaluate(Identity[session], signal)
<1>4. \/ session < first /\ p = Locals
      \/ /\ first <= session
         /\ \E T \in SUBSET Assets, wt \in [Assets -> {Flat, Long}] :
               MayTrade(T, wt) /\ Trades(T, wt, p)
    BY <1>1, <1>2, EvaluatePrompt
<1> HIDE DEF p
<1>5. /\ clocks' = p.clocks /\ targets' = p.targets /\ settled' = p.settled /\ book' = p.book
      /\ error' = p.error /\ session' = session + 1
      /\ UNCHANGED <<market, delay, first, active>>
    BY <1>3 DEF Become, p
<1>6. CASE session < first /\ p = Locals
  <2>1. /\ clocks' = clocks /\ error' = "no" /\ UNCHANGED <<targets, settled, book>>
      BY <1>5, <1>6 DEF Locals
  <2>2. session \in Nat /\ first \in Nat /\ ~(first < session)
      BY <1>2, <1>6, CalendarAssumption DEF PathTypes
  <2>3. clocks \in [Assets -> Clocks] /\ \A a \in Assets : clocks[a].actual = Flat
      BY <1>2, <2>2 DEF ClocksMatch, OpenSince, Clocks
  <2>4. \A a \in Assets : clocks[a].pending = NoTarget
      BY <1>2 DEF Prompt
  <2> QED BY <1>1, <1>5, <2>1, <2>3, <2>4, QuietStep
<1>7. CASE first <= session /\ \E T \in SUBSET Assets, wt \in [Assets -> {Flat, Long}] :
              MayTrade(T, wt) /\ Trades(T, wt, p)
  <2>1. PICK T \in SUBSET Assets, wt \in [Assets -> {Flat, Long}] :
           MayTrade(T, wt) /\ Trades(T, wt, p)
      BY <1>7
  <2> DEFINE new == Issued(T, wt, session, Identity[session].index)
  <2>2. /\ error' = "no" /\ clocks' = After(T, wt) /\ targets' = targets \union new
        /\ settled' = settled \union {Disposed(t) : t \in new}
        /\ book' = Append(book, NextEntry(session + 1, After(T, wt)))
      BY <1>5, <2>1 DEF Trades, NextEntry
  <2>3. /\ clocks' \in [Assets -> Clocks]
        /\ \A a \in Assets : clocks'[a].pending = NoTarget
        /\ \A a \in Assets : clocks'[a].actual = Long =>
              (Kept(a) \/ Opened(a)) /\ session # TerminalSession(market)
      BY <1>1, <1>2, <2>1, <2>2, TradesKeepTypes
  <2>4. Prompt'
      BY <1>2, <1>5, <2>2, <2>3, TradesSettle
  <2> HIDE DEF new
  <2>5. session + 1 \in Nat /\ book' = Append(book, NextEntry(session + 1, clocks'))
      BY <1>2, <2>2, CalendarAssumption DEF PathTypes
  <2>6. ExposureStaysInSegment /\ \A a \in Assets : \A i \in 1 .. Len(book) :
            i + MaxHold <= Len(book) => \E j \in i .. i + MaxHold : book[j].weight[a] = Flat
      BY <1>2 DEF PathSound, HoldsEnd
  <2>7. /\ PathTypes' /\ ExposureStaysInSegment' /\ ClocksMatch'
        /\ \A a \in Assets : \A i \in 1 .. Len(book') : i + MaxHold <= Len(book') =>
              \E j \in i .. i + MaxHold : book'[j].weight[a] = Flat
      BY <1>1, <1>2, <1>5, <1>7, <2>3, <2>5, <2>6, BookGrows
  <2>8. PathSound'
      BY <2>2, <2>7 DEF PathSound, HoldsEnd
  <2> QED BY <1>5, <2>4, <2>7, <2>8 DEF PathInv
<1> QED BY <1>4, <1>6, <1>7

(* Evaluation with the delay.                                               *)
LEMMA LateStep == PathInv /\ EvaluateSession /\ delay = 1 => PathInv'
<1> SUFFICES ASSUME PathInv, EvaluateSession, delay = 1 PROVE PathInv'
    OBVIOUS
<1>1. PathRunning /\ error = "no" /\ session \in Fills
    BY DEF EvaluateSession, PathRunning, HasIdentity, Fills
<1>2. PathTypes /\ PathSound /\ ClocksMatch /\ Late
    BY <1>1 DEF PathInv
<1>3. PICK signal \in [Assets -> Signals] : Become(Evaluate(Identity[session], signal))
    BY DEF EvaluateSession
<1> DEFINE p == Evaluate(Identity[session], signal)
<1>4. LateOutcome(p)
    BY <1>1, <1>2, EvaluateLate
<1>5. Become(p)
    BY <1>3
<1> HIDE DEF p
<1>6. /\ clocks' = p.clocks /\ targets' = p.targets /\ settled' = p.settled /\ book' = p.book
      /\ error' = p.error /\ session' = session + 1
      /\ UNCHANGED <<market, delay, first, active>>
    BY <1>5 DEF Become
<1>7. \A a \in Assets : clocks[a].actual = Flat
    BY <1>2 DEF Late
<1>8. CASE p.error \notin {"no", "trace_rejected", "not_cash"} /\ p.book = book
    BY <1>1, <1>5, <1>8, FailingStep
<1>9. CASE p = Locals /\ \A a \in Assets : clocks[a].pending = NoTarget
  <2>1. /\ clocks' = clocks /\ error' = "no" /\ UNCHANGED <<targets, settled, book>>
      BY <1>6, <1>9 DEF Locals
  <2>2. clocks \in [Assets -> Clocks] /\ targets = {}
      BY <1>2, <1>9 DEF ClocksMatch, Late
  <2> QED BY <1>1, <1>6, <1>7, <1>9, <2>1, <2>2, QuietStep
<1>10. CASE /\ first <= session /\ p.error = "no" /\ p.settled = {}
            /\ \E time \in Nat : p.book = Append(book, FlatEntry(time))
            /\ p.clocks \in [Assets -> Clocks]
            /\ \A a \in Assets : /\ p.clocks[a].actual = Flat
                                 /\ p.clocks[a].pending # NoTarget =>
                                       /\ session + 1 \in Fills
                                       /\ p.clocks[a].pending.index = Identity[session + 1].index
                                       /\ p.clocks[a].pending.time = session + 2
            /\ p.targets # {} => \E a \in Assets : p.clocks[a].pending # NoTarget
  <2>1. PICK time \in Nat : book' = Append(book, FlatEntry(time))
      BY <1>6, <1>10
  <2>2. clocks' \in [Assets -> Clocks] /\ \A a \in Assets : clocks'[a].actual = Flat
      BY <1>6, <1>10
  <2>3. FlatEntry(time) = NextEntry(time, clocks')
    <3>1. [a \in Assets |-> Flat] = [a \in Assets |-> clocks'[a].actual]
        BY <2>2
    <3> QED BY <3>1 DEF FlatEntry, NextEntry
  <2>4. \A a \in Assets : clocks'[a].actual # Long
      BY <2>2 DEF Flat, Long
  <2>5. ExposureStaysInSegment /\ \A a \in Assets : \A i \in 1 .. Len(book) :
            i + MaxHold <= Len(book) => \E j \in i .. i + MaxHold : book[j].weight[a] = Flat
      BY <1>2 DEF PathSound, HoldsEnd
  <2>6. book' = Append(book, NextEntry(time, clocks'))
      BY <2>1, <2>3
  <2>7. /\ PathTypes' /\ ExposureStaysInSegment' /\ ClocksMatch'
        /\ \A a \in Assets : \A i \in 1 .. Len(book') : i + MaxHold <= Len(book') =>
              \E j \in i .. i + MaxHold : book'[j].weight[a] = Flat
      BY <1>1, <1>2, <1>6, <1>10, <2>2, <2>4, <2>5, <2>6, BookGrows
  <2>8. PathSound'
      BY <1>6, <1>10, <2>7 DEF PathSound, HoldsEnd
  <2>9. Late'
    <3>1. Fills' = Fills /\ Identity' = Identity
        BY <1>6, MarketStays
    <3>2. (session + 1) + 1 = session + 2
        BY <1>2, CalendarAssumption DEF PathTypes
    <3> QED BY <1>6, <1>10, <3>1, <3>2 DEF Late, Waits
  <2> QED BY <1>6, <2>7, <2>8, <2>9 DEF PathInv
<1> QED BY <1>4, <1>8, <1>9, <1>10 DEF LateOutcome

(* The end of the loop: all is cash and every target has its disposition.   *)
LEMMA FinishStep == PathInv /\ FinishPath => PathInv'
<1> SUFFICES ASSUME PathInv, FinishPath PROVE PathInv'
    OBVIOUS
<1>1. /\ error = "no" /\ session = Days + 1 /\ error' = Verdict /\ Days \in Nat
      /\ UNCHANGED <<market, delay, first, active, session, clocks, targets, settled, book>>
    BY CalendarAssumption DEF FinishPath
<1>2. /\ PathTypes /\ PathSound /\ ClocksMatch /\ (delay = 0 => Prompt) /\ (delay = 1 => Late)
      /\ delay \in {0, 1}
    BY <1>1 DEF PathInv, PathTypes
<1>3. session \notin Fills
  <2>1. \A s \in Fills : s \in Nat /\ s < Days
      BY <1>2, IdentityFacts
  <2> QED BY <1>1, <2>1
<1>4. /\ \A a \in Assets : clocks[a].pending = NoTarget /\ clocks[a].actual = Flat
      /\ delay = 1 => targets = {}
    BY <1>1, <1>3, NothingCrosses
<1>5. Reconciled
  <2>1. CASE delay = 0
    <3>0. Prompt
        BY <1>2, <2>1
    <3>1. ASSUME NEW t \in targets
          PROVE  {d \in settled : d.asset = t.asset /\ d.session = t.session} = {Disposed(t)}
      <4>1. \A u \in targets : Disposed(u).asset = u.asset /\ Disposed(u).session = u.session
          BY DEF Disposed
      <4>2. settled = {Disposed(u) : u \in targets}
          BY <3>0 DEF Prompt
      <4>3. \A u \in targets : u.asset = t.asset /\ u.session = t.session => u = t
          BY <3>0 DEF Prompt
      <4> QED BY <4>1, <4>2, <4>3
    <3>2. \A t \in targets : Disposed(t).index = t.index /\ Disposed(t).time = t.time
        BY DEF Disposed
    <3>3. \A t \in targets : Cardinality({Disposed(t)}) = 1
        BY FS_Singleton
    <3>4. \A d \in settled : \E t \in targets : t.asset = d.asset /\ t.session = d.session
        BY <3>0 DEF Prompt, Disposed
    <3> QED BY <3>1, <3>2, <3>3, <3>4 DEF Reconciled
  <2>2. CASE delay = 1
    <3>1. targets = {} /\ settled = {}
        BY <1>2, <1>4, <2>2 DEF Late
    <3> QED BY <3>1 DEF Reconciled
  <2> QED BY <1>2, <2>1, <2>2
<1>6. error' \notin {"no", "trace_rejected"} /\ (error' = "not_cash" => book = <<>>)
  <2>1. \A a \in Assets : clocks[a].actual # Long
      BY <1>4 DEF Flat, Long
  <2> QED BY <1>1, <1>4, <1>5, <2>1 DEF Verdict
<1>7. Fills' = Fills
    BY <1>1, MarketStays
<1>8. PathTypes'
    BY <1>1, <1>2, <1>7 DEF PathTypes
<1>9. PathSound'
    BY <1>1, <1>2, <1>6 DEF PathSound, ExposureStaysInSegment, HoldsEnd
<1> QED BY <1>6, <1>8, <1>9 DEF PathInv

(* Every market, window and set of active assets starts in the invariant.   *)
LEMMA PathStart == PathInit([Sessions -> SUBSET Assets], SUBSET Assets, Nat) => PathInv
<1> SUFFICES ASSUME PathInit([Sessions -> SUBSET Assets], SUBSET Assets, Nat) PROVE PathInv
    OBVIOUS
<1>1. /\ market \in [Sessions -> SUBSET Assets] /\ Fills # {}
      /\ delay \in {0, 1} /\ first \in Nat /\ active \in SUBSET Assets /\ session = 1
      /\ clocks = [a \in Assets |-> NewClock] /\ targets = {} /\ settled = {}
      /\ book = <<>> /\ error = "no"
    BY DEF PathInit, Fills
<1>2. PathTypes
    BY <1>1, CalendarAssumption DEF PathTypes
<1>3. PathSound
    BY <1>1 DEF PathSound, ExposureStaysInSegment, HoldsEnd
<1>4. \A a \in Assets : clocks[a].actual = Flat /\ clocks[a].pending = NoTarget
    BY <1>1 DEF NewClock
<1>5. NewClock \in Clocks
    BY DEF NewClock, Clocks, PendingTargets, NoTarget, NoIndex
<1>6. ClocksMatch
  <2>1. \A a \in Assets : clocks[a].actual # Long
      BY <1>4 DEF Flat, Long
  <2> QED BY <1>1, <1>5, <2>1 DEF ClocksMatch
<1>7. Prompt /\ Late
    BY <1>1, <1>4 DEF Prompt, Late, Disposed
<1> QED BY <1>2, <1>3, <1>6, <1>7 DEF PathInv

(* A path of the standardized-shock strategy is never exposed over a gap,   *)
(* holds nothing over more than MaxHold accounting intervals, and comes to  *)
(* the end of its loop in cash with a trace that reconciles.                *)
THEOREM PathStaysSound == PathSpec => []PathSound
<1>1. PathInit([Sessions -> SUBSET Assets], SUBSET Assets, Nat) => PathInv
    BY PathStart
<1>2. PathInv /\ [PathNext]_pathVars => PathInv'
  <2> SUFFICES ASSUME PathInv, [PathNext]_pathVars PROVE PathInv'
      OBVIOUS
  <2>1. CASE UNCHANGED pathVars
    <3>1. UNCHANGED <<market, delay, first, active, session, clocks, targets, settled, book, error>>
        BY <2>1 DEF pathVars
    <3>2. Fills' = Fills /\ Identity' = Identity
          /\ TerminalSession(market)' = TerminalSession(market)
        BY <3>1, MarketStays
    <3> QED BY <3>1, <3>2 DEF PathInv, PathTypes, PathSound, ExposureStaysInSegment, HoldsEnd,
               ClocksMatch, OpenSince, LastEntry, Prompt, Disposed, Late, Waits
  <2>2. delay \in {0, 1}
      BY DEF PathInv, PathTypes
  <2> QED BY <2>1, <2>2, SkipStep, GapStep, PromptStep, LateStep, FinishStep DEF PathNext
<1>3. PathInv => PathSound
    BY DEF PathInv
<1> QED BY <1>1, <1>2, <1>3, PTL DEF PathSpec

-----------------------------------------------------------------------------
(*****************************************************************************)
(* The clean-room evaluator and its reference.  Orders of an account are for *)
(* a session to come, the next one without the delay (InTime), so none misses *)
(* its session, which is where the two loops would differ; over complete     *)
(* sessions the two accounts are then equal.                                 *)
(*****************************************************************************)

Dues == [at : Nat, weight : {0, 1}]
States == {"running", "risky_gap", "no_exact_row", "skipped_index", "not_cash", "completed"}
Accounts ==
    [closes : Nat, weight : [CleanAssets -> {0, 1}], entry : [CleanAssets -> Nat],
     due : [CleanAssets -> Dues], recovering : BOOLEAN, count : Nat, valued : BOOLEAN,
     fills : Nat, returns : Nat, state : States]

(* Orders of an account after n sessions are for sessions to come, the next *)
(* one without the delay; none is made before the start.                    *)
InTime(p, n) ==
    \A a \in CleanAssets : p.due[a] # NoDue =>
        /\ a \in traders
        /\ p.due[a].at \in n + 1 .. Last /\ (postponed = 0 => p.due[a].at = n + 1)
        /\ n > 0 /\ roll[n].date >= sinceDate

NeverLate(p) == p.state \notin {"skipped_index", "not_cash"}

CleanInv ==
    /\ roll \in SessionLists /\ postponed \in {0, 1} /\ sinceDate \in {0, 2}
    /\ traders \subseteq CleanAssets /\ passed \in 0 .. Last /\ account \in Accounts
    /\ account.state = "running" => InTime(account, passed)
    /\ NeverLate(account)
    /\ Comparable /\ (\A i \in 1 .. passed : roll[i].complete) =>
          account = mirror /\ account.recovering = FALSE

(* The number of some of the assets.                                        *)
LEMMA AssetCount == ASSUME NEW S \in SUBSET CleanAssets PROVE Cardinality(S) \in Nat
BY CleanReversionAssumption, FS_Subset, FS_CardinalityType

(* The order that is none is an order.                                      *)
LEMMA NoDueType == NoDue \in Dues
BY DEF NoDue, Dues

(* What filling, selling and ordering leave of an account.                  *)
LEMMA FilledAccount ==
    ASSUME NEW p \in Accounts, NEW filled \in SUBSET CleanAssets, NEW i \in Nat
    PROVE  LET r == Filled(p, filled, i)
           IN  /\ r \in Accounts /\ r.state = p.state /\ r.recovering = p.recovering
               /\ \A a \in CleanAssets : /\ a \in filled => r.due[a] = NoDue
                                         /\ a \notin filled => r.due[a] = p.due[a]
<1> DEFINE w == [a \in CleanAssets |-> IF a \in filled THEN p.due[a].weight ELSE p.weight[a]]
           e == [a \in CleanAssets |-> IF a \notin filled THEN p.entry[a]
                                      ELSE IF p.due[a].weight = 1 THEN i ELSE NoEntry]
           d == [a \in CleanAssets |-> IF a \in filled THEN NoDue ELSE p.due[a]]
           f == p.fills + Cardinality(filled)
<1>1. w \in [CleanAssets -> {0, 1}] /\ e \in [CleanAssets -> Nat]
    BY DEF Accounts, Dues, NoEntry
<1>2. d \in [CleanAssets -> Dues]
    BY NoDueType DEF Accounts
<1>3. f \in Nat
    BY AssetCount DEF Accounts
<1>4. \A a \in CleanAssets : /\ a \in filled => d[a] = NoDue
                             /\ a \notin filled => d[a] = p.due[a]
    OBVIOUS
<1>5. Filled(p, filled, i) = [p EXCEPT !.weight = w, !.entry = e, !.due = d, !.fills = f]
    BY DEF Filled, Accounts
<1> DEFINE r == Filled(p, filled, i)
<1> HIDE DEF w, e, d, f
<1>6. r \in Accounts /\ r.due = d /\ r.state = p.state /\ r.recovering = p.recovering
    BY <1>1, <1>2, <1>3, <1>5 DEF Accounts
<1>7. \A a \in CleanAssets : /\ a \in filled => r.due[a] = NoDue
                             /\ a \notin filled => r.due[a] = p.due[a]
    BY <1>4, <1>6
<1> QED BY <1>6, <1>7

(* What a sale does to an account.                                          *)
LEMMA SoldAccount ==
    ASSUME NEW p \in Accounts, NEW sold \in SUBSET CleanAssets
    PROVE  LET r == SoldNow(p, sold)
           IN  /\ r \in Accounts /\ r.state = p.state /\ r.recovering = p.recovering
               /\ r.due = p.due
<1> DEFINE w == [a \in CleanAssets |-> IF a \in sold THEN 0 ELSE p.weight[a]]
           e == [a \in CleanAssets |-> IF a \in sold THEN NoEntry ELSE p.entry[a]]
           f == p.fills + Cardinality(sold)
<1>1. w \in [CleanAssets -> {0, 1}] /\ e \in [CleanAssets -> Nat]
    BY DEF Accounts, NoEntry
<1>2. f \in Nat
    BY AssetCount DEF Accounts
<1>3. SoldNow(p, sold) = [p EXCEPT !.weight = w, !.entry = e, !.fills = f]
    BY DEF SoldNow, Accounts
<1> HIDE DEF w, e, f
<1> QED BY <1>1, <1>2, <1>3 DEF Accounts

(* What an order does to an account.                                        *)
LEMMA OrderedAccount ==
    ASSUME NEW p \in Accounts, NEW into \in SUBSET CleanAssets, NEW out \in SUBSET CleanAssets,
           NEW at \in Nat, Last \in Nat
    PROVE  LET r == Order(p, into, out, at)
           IN  /\ r \in Accounts /\ r.recovering = p.recovering
               /\ r.state = p.state \/ r.state = "no_exact_row"
               /\ r.state = p.state => \A a \in CleanAssets :
                     \/ r.due[a] = p.due[a]
                     \/ r.due[a].at = at /\ at <= Last /\ a \in into \union out
                     \/ p.state = "no_exact_row"
<1> DEFINE d == [a \in CleanAssets |-> IF a \in into THEN [at |-> at, weight |-> 1]
                                      ELSE IF a \in out THEN [at |-> at, weight |-> 0]
                                      ELSE p.due[a]]
<1>1. d \in [CleanAssets -> Dues]
    BY DEF Accounts, Dues
<1>2. \A a \in CleanAssets : d[a] = p.due[a] \/ (d[a].at = at /\ a \in into \union out)
    OBVIOUS
<1>3. CASE into \union out = {}
    BY <1>3 DEF Order
<1>4. CASE into \union out # {} /\ (at > Last \/ ~roll[at].complete)
    BY <1>4 DEF Order, Reject, Accounts, States
<1>5. CASE into \union out # {} /\ ~(at > Last \/ ~roll[at].complete)
  <2>1. Order(p, into, out, at) = [p EXCEPT !.due = d]
      BY <1>5 DEF Order, Accounts
  <2> HIDE DEF d
  <2>2. /\ Order(p, into, out, at) \in Accounts /\ Order(p, into, out, at).due = d
        /\ Order(p, into, out, at).recovering = p.recovering
        /\ Order(p, into, out, at).state = p.state
      BY <1>1, <2>1 DEF Accounts
  <2> QED BY <1>2, <1>5, <2>2
<1> QED BY <1>3, <1>4, <1>5

(* What a count of a session does to an account.                            *)
LEMMA CountedAccount ==
    ASSUME NEW p \in Accounts
    PROVE  LET r == CountRecovery(p)
           IN  r \in Accounts /\ r.state = p.state /\ r.due = p.due /\ r.valued = p.valued
               /\ (p.recovering = FALSE => r = p)
<1>1. CASE p.recovering
  <2> DEFINE n == p.count + 1
             more == p.count + 1 < CleanRecovery
  <2>1. CountRecovery(p) = [p EXCEPT !.count = n, !.recovering = more]
      BY <1>1 DEF CountRecovery, Accounts
  <2>2. n \in Nat /\ more \in BOOLEAN
      BY DEF Accounts
  <2> HIDE DEF n, more
  <2> QED BY <1>1, <2>1, <2>2 DEF Accounts
<1>2. CASE ~p.recovering
    BY <1>2 DEF CountRecovery
<1> QED BY <1>1, <1>2 DEF Accounts

(* Orders are filled in time, and none is left behind.                      *)
LEMMA FillsInTime ==
    ASSUME NEW p \in Accounts, NEW i \in 1 .. Last, Last \in Nat, traders \subseteq CleanAssets,
           p.state = "running", InTime(p, i - 1)
    PROVE  LET filled == {a \in traders : p.due[a] # NoDue /\ p.due[a].at = i}
               r == FillDue(p, i)
           IN  /\ r = Filled(p, filled, i) /\ r \in Accounts /\ r.state = "running"
               /\ r.recovering = p.recovering
               /\ \A a \in CleanAssets : r.due[a] # NoDue =>
                     a \in traders /\ r.due[a].at \in i + 1 .. Last /\ postponed # 0
<1> DEFINE filled == {a \in traders : p.due[a] # NoDue /\ p.due[a].at = i}
<1>1. \A a \in CleanAssets : p.due[a] # NoDue =>
        /\ p.due[a].at \in Nat /\ p.due[a].at >= i /\ p.due[a].at <= Last
        /\ a \in traders /\ (postponed = 0 => p.due[a].at = i)
    BY DEF InTime
<1>2. FillDue(p, i) = Filled(p, filled, i)
    BY <1>1 DEF FillDue
<1>3. filled \in SUBSET CleanAssets /\ i \in Nat
    OBVIOUS
<1>4. \A a \in CleanAssets : a \notin filled /\ p.due[a] # NoDue =>
        a \in traders /\ p.due[a].at \in i + 1 .. Last /\ postponed # 0
    BY <1>1
<1> HIDE DEF filled
<1>5. LET r == Filled(p, filled, i)
      IN  /\ r \in Accounts /\ r.state = p.state /\ r.recovering = p.recovering
          /\ \A a \in CleanAssets : /\ a \in filled => r.due[a] = NoDue
                                    /\ a \notin filled => r.due[a] = p.due[a]
    BY <1>3, FilledAccount
<1> QED BY <1>2, <1>4, <1>5 DEF filled

(* The evaluator orders for the session after next at most.                 *)
LEMMA DecidesInTime ==
    ASSUME NEW p \in Accounts, NEW i \in 1 .. Last, Last \in Nat, traders \subseteq CleanAssets,
           postponed \in {0, 1}, p.state = "running", roll[i].date >= sinceDate,
           \A a \in CleanAssets : p.due[a] # NoDue =>
               a \in traders /\ p.due[a].at \in i + 1 .. Last /\ postponed # 0,
           NEW seen
    PROVE  LET r == DecideTargets(p, i, seen)
           IN  /\ r \in Accounts /\ r.recovering = p.recovering
               /\ r.state = "running" \/ r.state = "no_exact_row"
               /\ r.state = "running" => InTime(r, i)
<1> DEFINE into == {a \in traders : Entering(p, a, i, seen)}
           out == {a \in traders : Leaving(p, a, i, seen)}
           sold == IF i = Last THEN out ELSE {}
           kept == out \ sold
           q == SoldNow(p, sold)
           at == i + 1 + postponed
           r == DecideTargets(p, i, seen)
<1>1. into \in SUBSET traders /\ kept \in SUBSET traders /\ sold \in SUBSET CleanAssets
    OBVIOUS
<1>2. into \in SUBSET CleanAssets /\ kept \in SUBSET CleanAssets /\ at \in Nat
    BY <1>1
<1>3. r = Order(q, into, kept, at)
    BY DEF DecideTargets
<1> HIDE DEF into, out, sold, kept, q, r
<1>4. q \in Accounts /\ q.state = p.state /\ q.recovering = p.recovering /\ q.due = p.due
    BY <1>1, SoldAccount DEF q
<1> HIDE DEF at
<1>5. /\ r \in Accounts /\ r.recovering = q.recovering
      /\ r.state = q.state \/ r.state = "no_exact_row"
      /\ r.state = q.state => \A a \in CleanAssets :
            \/ r.due[a] = q.due[a]
            \/ r.due[a].at = at /\ at <= Last /\ a \in into \union kept
            \/ q.state = "no_exact_row"
  <2> DEFINE x == Order(q, into, kept, at)
  <2>2. q \in Accounts
      BY <1>4
  <2>3. into \in SUBSET CleanAssets
      BY <1>2
  <2>4. kept \in SUBSET CleanAssets
      BY <1>2
  <2>5. at \in Nat
      BY <1>2
  <2>1. /\ x \in Accounts /\ x.recovering = q.recovering
        /\ x.state = q.state \/ x.state = "no_exact_row"
        /\ x.state = q.state => \A a \in CleanAssets :
              \/ x.due[a] = q.due[a]
              \/ x.due[a].at = at /\ at <= Last /\ a \in into \union kept
              \/ q.state = "no_exact_row"
      BY <2>2, <2>3, <2>4, <2>5, OrderedAccount, ZenonT(60)
  <2> QED BY <1>3, <2>1
<1>6. ASSUME r.state = "running" PROVE InTime(r, i)
  <2> SUFFICES ASSUME NEW a \in CleanAssets, r.due[a] # NoDue
               PROVE  /\ a \in traders /\ i > 0 /\ roll[i].date >= sinceDate
                      /\ r.due[a].at \in i + 1 .. Last /\ (postponed = 0 => r.due[a].at = i + 1)
      BY DEF InTime
  <2>1. \/ r.due[a] = p.due[a]
        \/ r.due[a].at = at /\ at <= Last /\ a \in traders
      BY <1>1, <1>4, <1>5, <1>6
  <2>2. CASE r.due[a] = p.due[a]
      BY <2>2
  <2>3. CASE r.due[a].at = at /\ at <= Last /\ a \in traders
      BY <2>3 DEF at
  <2> QED BY <2>1, <2>2, <2>3
<1> QED BY <1>4, <1>5, <1>6 DEF r

(* Dates of the sessions are in order.                                      *)
LEMMA DatesInOrder ==
    ASSUME roll \in SessionLists
    PROVE  /\ Last \in Nat /\ \A i \in 1 .. Last : roll[i].date \in Nat /\ roll[i].date > 0
           /\ \A i, j \in 1 .. Last : i < j => roll[i].date < roll[j].date
<1>1. roll \in Seq(DailySession) /\ Last \in Nat
    BY DEF SessionLists, Last
<1>2. \A i \in 1 .. Last : roll[i] \in DailySession
    BY <1>1 DEF Last
<1>3. \A d \in DailySession : d.date \in Nat /\ d.date > 0
    BY CleanAssumption DEF DailySession
<1> QED BY <1>1, <1>2, <1>3 DEF SessionLists, Last

(* A gap leaves no order.                                                   *)
LEMMA GapInTime ==
    ASSUME NEW p \in Accounts, NEW i, p.state = "running"
    PROVE  LET r == CrossIncomplete(p)
           IN  r \in Accounts /\ NeverLate(r) /\ (r.state = "running" => InTime(r, i))
<1> DEFINE d == [a \in CleanAssets |-> NoDue]
           yes == TRUE
           no == FALSE
<1>1. d \in [CleanAssets -> Dues] /\ \A a \in CleanAssets : d[a] = NoDue
    BY NoDueType
<1> HIDE DEF d
<1>0. yes \in BOOLEAN /\ no \in BOOLEAN
    OBVIOUS
<1>2. \/ CrossIncomplete(p) = Reject(p, "risky_gap")
      \/ CrossIncomplete(p) = [p EXCEPT !.closes = 0, !.due = d, !.valued = no,
                                       !.recovering = yes, !.count = 0]
    BY Zenon DEF CrossIncomplete, d
<1> HIDE DEF yes, no
<1>3. CASE CrossIncomplete(p) = Reject(p, "risky_gap")
    BY <1>3 DEF Reject, Accounts, States, NeverLate
<1>4. CASE CrossIncomplete(p) = [p EXCEPT !.closes = 0, !.due = d, !.valued = no,
                                         !.recovering = yes, !.count = 0]
  <2> DEFINE x == [p EXCEPT !.closes = 0, !.due = d]
             y == [x EXCEPT !.valued = no, !.recovering = yes, !.count = 0]
  <2>0. CrossIncomplete(p) = y
      BY <1>4
  <2>2. x \in Accounts /\ x.state = "running" /\ x.due = d
      BY <1>1 DEF Accounts
  <2> HIDE DEF x
  <2>3. y \in Accounts /\ y.state = "running" /\ y.due = d
      BY <1>0, <2>2 DEF Accounts
  <2>1. /\ CrossIncomplete(p) \in Accounts /\ CrossIncomplete(p).state = "running"
        /\ CrossIncomplete(p).due = d
      BY <2>0, <2>3
  <2> QED BY <1>1, <2>1 DEF NeverLate, InTime
<1> QED BY <1>2, <1>3, <1>4

(* A complete session fills, then decides for a later one.                  *)
LEMMA CompleteInTime ==
    ASSUME NEW p \in Accounts, NEW i \in 1 .. Last, roll \in SessionLists,
           traders \subseteq CleanAssets, postponed \in {0, 1}, sinceDate \in {0, 2},
           p.state = "running", InTime(p, i - 1), NEW seen
    PROVE  LET r == EvaluateComplete(p, i, seen)
           IN  r \in Accounts /\ NeverLate(r) /\ (r.state = "running" => InTime(r, i))
<1> DEFINE q == CountRecovery(p)
           reset == [q EXCEPT !.weight = [a \in CleanAssets |-> 0],
                              !.due = [a \in CleanAssets |-> NoDue]]
           start == IF sinceDate # 0 /\ ~q.valued THEN reset ELSE q
           filled == FillDue(start, i)
           marked == [filled EXCEPT !.closes = @ + 1]
           decided == DecideTargets(marked, i, seen)
           r == EvaluateComplete(p, i, seen)
<1>1. Last \in Nat /\ roll[i].date \in Nat
      /\ \A j, k \in 1 .. Last : j < k => roll[j].date < roll[k].date
    BY DatesInOrder
<1>2. r = IF roll[i].date < sinceDate THEN [q EXCEPT !.closes = @ + 1]
          ELSE IF filled.state # "running" THEN filled
          ELSE IF decided.state # "running" THEN decided
          ELSE [decided EXCEPT !.returns = IF q.valued THEN @ + 1 ELSE @, !.valued = TRUE]
    BY DEF EvaluateComplete
<1> HIDE DEF q, r
<1>3. q \in Accounts /\ q.state = "running" /\ q.due = p.due
    BY CountedAccount DEF q
<1>4. start \in Accounts /\ start.state = "running" /\ InTime(start, i - 1)
  <2> DEFINE w == [a \in CleanAssets |-> 0]
             d == [a \in CleanAssets |-> NoDue]
  <2>1. /\ w \in [CleanAssets -> {0, 1}] /\ d \in [CleanAssets -> Dues]
        /\ \A a \in CleanAssets : d[a] = NoDue
      BY NoDueType
  <2>2. reset = [q EXCEPT !.weight = w, !.due = d]
      OBVIOUS
  <2> HIDE DEF w, d, reset
  <2>3. reset \in Accounts /\ reset.state = "running" /\ reset.due = d
      BY <1>3, <2>1, <2>2 DEF Accounts
  <2>4. InTime(reset, i - 1)
      BY <2>1, <2>3 DEF InTime
  <2>5. InTime(q, i - 1)
      BY <1>3 DEF InTime
  <2> QED BY <1>3, <2>3, <2>4, <2>5
<1> HIDE DEF start
<1>5. CASE roll[i].date < sinceDate
  <2>1. r = [q EXCEPT !.closes = @ + 1]
      BY <1>2, <1>5
  <2>2. r \in Accounts /\ r.state = "running" /\ r.due = p.due
      BY <1>3, <2>1 DEF Accounts
  <2>3. ASSUME NEW a \in CleanAssets, p.due[a] # NoDue PROVE FALSE
    <3>1. i - 1 \in 1 .. Last /\ roll[i - 1].date >= sinceDate
        BY <1>1, <2>3 DEF InTime
    <3>2. roll[i - 1].date < roll[i].date /\ roll[i - 1].date \in Nat
        BY <1>1, <3>1, DatesInOrder
    <3> QED BY <1>1, <1>5, <3>1, <3>2
  <2> QED BY <2>2, <2>3 DEF r, NeverLate, InTime
<1>6. CASE ~(roll[i].date < sinceDate)
  <2>1. /\ filled \in Accounts /\ filled.state = "running"
        /\ \A a \in CleanAssets : filled.due[a] # NoDue =>
              a \in traders /\ filled.due[a].at \in i + 1 .. Last /\ postponed # 0
      BY <1>1, <1>4, FillsInTime
  <2> HIDE DEF filled
  <2>2. marked \in Accounts /\ marked.state = "running" /\ marked.due = filled.due
      BY <2>1 DEF Accounts
  <2> HIDE DEF marked
  <2>3. roll[i].date >= sinceDate
      BY <1>1, <1>6
  <2>4. /\ decided \in Accounts
        /\ decided.state = "running" \/ decided.state = "no_exact_row"
        /\ decided.state = "running" => InTime(decided, i)
      BY <1>1, <2>1, <2>2, <2>3, DecidesInTime
  <2> HIDE DEF decided
  <2>5. CASE decided.state # "running"
    <3>1. r = decided
        BY <1>2, <1>6, <2>1, <2>5
    <3> QED BY <2>4, <2>5, <3>1 DEF r, NeverLate
  <2>6. CASE decided.state = "running"
    <3> DEFINE n == IF q.valued THEN decided.returns + 1 ELSE decided.returns
               yes == TRUE
    <3>0. decided.returns \in Nat /\ yes \in BOOLEAN
        BY <2>4 DEF Accounts
    <3>1. n \in Nat
        BY <3>0
    <3>2. r = [decided EXCEPT !.returns = n, !.valued = yes]
        BY <1>2, <1>6, <2>1, <2>4, <2>6, Zenon
    <3> HIDE DEF n, yes
    <3>3. r \in Accounts /\ r.state = "running" /\ r.due = decided.due
        BY <2>4, <2>6, <3>0, <3>1, <3>2 DEF Accounts
    <3> QED BY <2>4, <2>6, <3>3 DEF r, NeverLate, InTime
  <2> QED BY <2>5, <2>6
<1> QED BY <1>5, <1>6

(* The session of the evaluator leaves only orders in time.                 *)
LEMMA EvaluatorInTime ==
    ASSUME NEW p \in Accounts, NEW i \in 1 .. Last, roll \in SessionLists,
           traders \subseteq CleanAssets, postponed \in {0, 1}, sinceDate \in {0, 2},
           NeverLate(p), p.state = "running" => InTime(p, i - 1), NEW seen
    PROVE  LET r == EvaluatorSession(p, i, seen)
           IN  r \in Accounts /\ NeverLate(r) /\ (r.state = "running" => InTime(r, i))
<1>1. CASE p.state # "running"
    BY <1>1 DEF EvaluatorSession
<1>2. CASE p.state = "running" /\ roll[i].complete
    BY <1>2, CompleteInTime DEF EvaluatorSession
<1>3. CASE p.state = "running" /\ ~roll[i].complete
    BY <1>3, GapInTime DEF EvaluatorSession
<1> QED BY <1>1, <1>2, <1>3

(* Without a gap behind, both loops decide alike.                           *)
LEMMA SameDecision ==
    ASSUME NEW p \in Accounts, NEW i \in 1 .. Last, Comparable, p.recovering = FALSE,
           \A a \in CleanAssets : p.due[a] = NoDue, NEW seen
    PROVE  DecideTargets(p, i, seen) = ReferenceTargets(p, i, seen)
<1> DEFINE into == {a \in traders : Entering(p, a, i, seen)}
           out == {a \in traders : Leaving(p, a, i, seen)}
           ready == p.closes > CleanWindow
           entering == {a \in CleanAssets : p.weight[a] = 0 /\ ready /\ seen[a] = "entry"}
           leaving == {a \in CleanAssets :
                         /\ p.weight[a] = 1
                         /\ i - p.entry[a] >= CleanHold \/ (ready /\ seen[a] = "exit")}
<1>1. \A a \in CleanAssets : /\ Entering(p, a, i, seen) <=> a \in entering
                             /\ Leaving(p, a, i, seen) <=> a \in leaving
    BY Zenon DEF Entering, Leaving
<1>2. into = entering /\ out = leaving
  <2> HIDE DEF entering, leaving
  <2>1. entering \subseteq CleanAssets /\ leaving \subseteq CleanAssets
      BY DEF entering, leaving
  <2> QED BY <1>1, <2>1 DEF Comparable
<1>3. i + 1 + postponed = i + 1
    BY DEF Comparable
<1>4. DecideTargets(p, i, seen)
         = Order(SoldNow(p, IF i = Last THEN out ELSE {}), into,
                 out \ (IF i = Last THEN out ELSE {}), i + 1 + postponed)
    BY DEF DecideTargets
<1>5. ReferenceTargets(p, i, seen)
         = Order(SoldNow(p, IF i = Last THEN leaving ELSE {}), entering,
                 leaving \ (IF i = Last THEN leaving ELSE {}), i + 1)
    BY DEF ReferenceTargets
<1> HIDE DEF into, out, entering, leaving
<1> QED BY <1>2, <1>3, <1>4, <1>5

(* With its orders in time the evaluator does what the reference does.      *)
LEMMA SameSession ==
    ASSUME NEW p \in Accounts, NEW i \in 1 .. Last, roll \in SessionLists, Comparable,
           p.state = "running", InTime(p, i - 1), p.recovering = FALSE, NEW seen
    PROVE  /\ EvaluateComplete(p, i, seen) = ReferenceComplete(p, i, seen)
           /\ EvaluateComplete(p, i, seen).recovering = FALSE
<1> DEFINE due == {a \in CleanAssets : p.due[a] # NoDue}
           filled == Filled(p, due, i)
           marked == [filled EXCEPT !.closes = @ + 1]
           decided == DecideTargets(marked, i, seen)
           tally == IF p.valued THEN decided.returns + 1 ELSE decided.returns
           no == FALSE
<1> HIDE DEF no
<1>0. p.recovering = no
    BY DEF no
<1>1. Last \in Nat /\ roll[i].date \in Nat /\ ~(roll[i].date < sinceDate) /\ roll[i].date >= sinceDate
    BY DatesInOrder DEF Comparable
<1>2. CountRecovery(p) = p
    BY DEF CountRecovery
<1>3. \A a \in due : p.due[a].at = i
    BY DEF InTime, Comparable
<1>4. /\ FillDue(p, i) = filled /\ filled \in Accounts /\ filled.state = "running"
      /\ filled.recovering = no
      /\ \A a \in CleanAssets : filled.due[a] = NoDue
  <2> DEFINE now == {a \in traders : p.due[a] # NoDue /\ p.due[a].at = i}
             r == FillDue(p, i)
  <2>1. now = due
      BY <1>3 DEF Comparable
  <2>2. /\ r = Filled(p, now, i) /\ r \in Accounts /\ r.state = "running"
        /\ r.recovering = p.recovering
        /\ \A a \in CleanAssets : r.due[a] # NoDue =>
              a \in traders /\ r.due[a].at \in i + 1 .. Last /\ postponed # 0
      BY <1>1, FillsInTime DEF Comparable
  <2> HIDE DEF now, r, due
  <2>3. r = filled
      BY <2>1, <2>2
  <2>4. r = FillDue(p, i)
      BY DEF r
  <2> HIDE DEF filled
  <2> QED BY <1>0, <2>2, <2>3, <2>4 DEF Comparable
<1> HIDE DEF filled, due
<1>5. /\ marked \in Accounts /\ marked.state = "running" /\ marked.recovering = no
      /\ marked.due = filled.due
    BY <1>4 DEF Accounts
<1> HIDE DEF marked
<1>6. decided = ReferenceTargets(marked, i, seen)
    BY <1>4, <1>5, SameDecision DEF no
<1>7. decided \in Accounts /\ decided.recovering = no
    BY <1>1, <1>4, <1>5, DecidesInTime DEF Comparable
<1> HIDE DEF decided
<1>8. EvaluateComplete(p, i, seen)
        = IF decided.state # "running" THEN decided
          ELSE [decided EXCEPT !.returns = tally, !.valued = TRUE]
  <2>1. sinceDate = 0
      BY DEF Comparable
  <2>2. EvaluateComplete(p, i, seen)
          = IF roll[i].date < sinceDate THEN [p EXCEPT !.closes = @ + 1]
            ELSE IF FillDue(p, i).state # "running" THEN FillDue(p, i)
            ELSE IF DecideTargets([FillDue(p, i) EXCEPT !.closes = @ + 1], i, seen).state # "running"
            THEN DecideTargets([FillDue(p, i) EXCEPT !.closes = @ + 1], i, seen)
            ELSE [DecideTargets([FillDue(p, i) EXCEPT !.closes = @ + 1], i, seen)
                    EXCEPT !.returns = IF p.valued THEN @ + 1 ELSE @, !.valued = TRUE]
      BY <1>2, <2>1, Zenon DEF EvaluateComplete
  <2>3. DecideTargets([FillDue(p, i) EXCEPT !.closes = @ + 1], i, seen) = decided
      BY <1>4 DEF decided, marked
  <2>4. FillDue(p, i).state = "running"
      BY <1>4
  <2> QED BY <1>1, <2>2, <2>3, <2>4, Zenon
<1>9. ReferenceComplete(p, i, seen)
        = IF decided.state # "running" THEN decided
          ELSE [decided EXCEPT !.returns = tally, !.valued = TRUE]
  <2>1. ReferenceComplete(p, i, seen)
          = IF \E a \in due : p.due[a].at # i THEN Reject(p, "skipped_index")
            ELSE IF ReferenceTargets(marked, i, seen).state # "running"
            THEN ReferenceTargets(marked, i, seen)
            ELSE [ReferenceTargets(marked, i, seen)
                    EXCEPT !.returns = IF p.valued THEN @ + 1 ELSE @, !.valued = TRUE]
      BY DEF ReferenceComplete, due, filled, marked
  <2> QED BY <1>3, <1>6, <2>1, Zenon
<1>10. (IF decided.state # "running" THEN decided
        ELSE [decided EXCEPT !.returns = tally, !.valued = TRUE]).recovering = no
  <2> DEFINE yes == TRUE
  <2> HIDE DEF tally, yes
  <2>1. decided.recovering = no
      BY <1>7
  <2>2. [decided EXCEPT !.returns = tally, !.valued = yes].recovering = no
      BY <1>7 DEF Accounts
  <2> QED BY <2>1, <2>2, Zenon DEF yes
<1> QED BY <1>8, <1>9, <1>10 DEF no

(* Both accounts start without an order.                                    *)
LEMMA CleanInvInit == CleanInit(SessionLists, SUBSET CleanAssets) => CleanInv
<1> SUFFICES ASSUME CleanInit(SessionLists, SUBSET CleanAssets) PROVE CleanInv
    OBVIOUS
<1> DEFINE w == [a \in CleanAssets |-> 0]
           e == [a \in CleanAssets |-> NoEntry]
           d == [a \in CleanAssets |-> NoDue]
           no == FALSE
<1>1. /\ w \in [CleanAssets -> {0, 1}] /\ e \in [CleanAssets -> Nat]
      /\ d \in [CleanAssets -> Dues] /\ no \in BOOLEAN
      /\ \A a \in CleanAssets : d[a] = NoDue
    BY NoDueType DEF NoEntry
<1>2. NewAccount = [closes |-> 0, weight |-> w, entry |-> e, due |-> d, recovering |-> no,
                    count |-> 0, valued |-> no, fills |-> 0, returns |-> 0, state |-> "running"]
    BY DEF NewAccount
<1> HIDE DEF w, e, d, no
<1>3. /\ NewAccount \in Accounts /\ NewAccount.due = d /\ NewAccount.recovering = no
      /\ NewAccount.state = "running"
    BY <1>1, <1>2 DEF Accounts, States
<1>4. /\ roll \in SessionLists /\ postponed \in {0, 1} /\ sinceDate \in {0, 2}
      /\ traders \subseteq CleanAssets /\ passed = 0 /\ account = NewAccount
      /\ mirror = NewAccount
    BY DEF CleanInit
<1>5. passed \in 0 .. Last
    BY <1>4, DatesInOrder
<1>6. InTime(account, passed) /\ NeverLate(account)
    BY <1>1, <1>3, <1>4 DEF InTime, NeverLate
<1> QED BY <1>3, <1>4, <1>5, <1>6 DEF CleanInv, no

(* A session of both loops keeps them together.                             *)
LEMMA CleanSessionStep == CleanInv /\ CleanSession => CleanInv'
<1> SUFFICES ASSUME CleanInv, CleanSession PROVE CleanInv'
    OBVIOUS
<1> DEFINE i == passed + 1
<1>1. PICK seen \in Crossings :
        /\ account' = EvaluatorSession(account, i, seen)
        /\ mirror' = IF Comparable THEN ReferenceSession(mirror, i, seen) ELSE mirror
    BY DEF CleanSession
<1>2. /\ roll' = roll /\ postponed' = postponed /\ sinceDate' = sinceDate
      /\ traders' = traders /\ passed' = i /\ passed < Last
    BY DEF CleanSession
<1>3. /\ roll \in SessionLists /\ postponed \in {0, 1} /\ sinceDate \in {0, 2}
      /\ traders \subseteq CleanAssets /\ passed \in 0 .. Last /\ account \in Accounts
      /\ (account.state = "running" => InTime(account, passed)) /\ NeverLate(account)
    BY DEF CleanInv
<1>4. Last \in Nat /\ i \in 1 .. Last /\ i - 1 = passed /\ i \in 0 .. Last
    BY <1>2, <1>3, DatesInOrder
<1> HIDE DEF i
<1>5. account' \in Accounts /\ NeverLate(account') /\ (account'.state = "running" => InTime(account', i))
    BY <1>1, <1>3, <1>4, EvaluatorInTime
<1>6. account'.state = "running" => InTime(account, passed)'
    BY <1>2, <1>5 DEF InTime, Last
<1>7. ASSUME Comparable', \A j \in 1 .. passed' : roll'[j].complete
      PROVE  account' = mirror' /\ account'.recovering = FALSE
  <2>1. Comparable
      BY <1>2, <1>7 DEF Comparable
  <2>2. roll[i].complete /\ \A j \in 1 .. passed : roll[j].complete
      BY <1>2, <1>3, <1>4, <1>7
  <2>3. account = mirror /\ account.recovering = FALSE
      BY <2>1, <2>2 DEF CleanInv
  <2>4. CASE account.state # "running"
      BY <1>1, <2>1, <2>3, <2>4 DEF EvaluatorSession, ReferenceSession
  <2>5. CASE account.state = "running"
    <3>1. InTime(account, i - 1)
        BY <1>3, <1>4, <2>5
    <3>2. /\ EvaluateComplete(account, i, seen) = ReferenceComplete(account, i, seen)
          /\ EvaluateComplete(account, i, seen).recovering = FALSE
        BY <1>3, <1>4, <2>1, <2>3, <2>5, <3>1, SameSession
    <3>3. account' = EvaluateComplete(account, i, seen)
        BY <1>1, <2>2, <2>5 DEF EvaluatorSession
    <3>4. mirror' = ReferenceComplete(account, i, seen)
        BY <1>1, <2>1, <2>2, <2>3, <2>5 DEF ReferenceSession
    <3> QED BY <3>2, <3>3, <3>4
  <2> QED BY <2>4, <2>5
<1>8. passed' \in 0 .. Last'
    BY <1>2, <1>4 DEF Last
<1>9. NeverLate(account)'
    BY <1>5 DEF NeverLate
<1> QED BY <1>2, <1>3, <1>5, <1>6, <1>7, <1>8, <1>9 DEF CleanInv

(* At the end no order is under way.                                        *)
LEMMA CleanCloseStep == CleanInv /\ CleanClose => CleanInv'
<1> SUFFICES ASSUME CleanInv, CleanClose PROVE CleanInv'
    OBVIOUS
<1> DEFINE longs == {a \in CleanAssets : account.weight[a] = 1}
           sold == SoldNow(account, longs)
           more == IF longs = {} THEN sold.returns ELSE sold.returns + 1
<1>1. /\ roll' = roll /\ postponed' = postponed /\ sinceDate' = sinceDate
      /\ traders' = traders /\ passed' = passed /\ passed = Last
      /\ account' = LiquidateClean(account)
      /\ Comparable => mirror' = ReferenceEnd(mirror)
    BY DEF CleanClose
<1>2. /\ roll \in SessionLists /\ postponed \in {0, 1} /\ sinceDate \in {0, 2}
      /\ traders \subseteq CleanAssets /\ passed \in 0 .. Last /\ account \in Accounts
      /\ (account.state = "running" => InTime(account, passed)) /\ NeverLate(account)
    BY DEF CleanInv
<1>3. Last' = Last /\ (Comparable' <=> Comparable)
    BY <1>1 DEF Last, Comparable
<1>4. ASSUME Comparable, \A j \in 1 .. passed : roll[j].complete
      PROVE  account = mirror /\ account.recovering = FALSE
    BY <1>4 DEF CleanInv
<1>5. CASE account.state # "running"
  <2>1. account' = account
      BY <1>1, <1>5 DEF LiquidateClean
  <2>2. Comparable /\ (\A j \in 1 .. passed : roll[j].complete) =>
          account' = mirror' /\ account'.recovering = FALSE
      BY <1>1, <1>4, <1>5, <2>1 DEF ReferenceEnd
  <2>3. NeverLate(account)' /\ account'.state # "running"
      BY <1>2, <1>5, <2>1 DEF NeverLate
  <2> QED BY <1>1, <1>2, <1>3, <2>1, <2>2, <2>3 DEF CleanInv
<1>6. CASE account.state = "running"
  <2> DEFINE closed == [sold EXCEPT !.returns = more, !.state = "completed"]
  <2>1. \A a \in traders : account.due[a] = NoDue
      BY <1>1, <1>2, <1>6, DatesInOrder DEF InTime
  <2>2. sold \in Accounts /\ sold.recovering = account.recovering
      BY <1>2, SoldAccount
  <2>3. account' = closed
      BY <1>1, <1>6, <2>1 DEF LiquidateClean
  <2>4. Comparable /\ account = mirror => mirror' = closed
      BY <1>1, <1>6 DEF ReferenceEnd
  <2>5. sold.returns \in Nat
      BY <2>2 DEF Accounts
  <2>6. more \in Nat
      BY <2>5
  <2> HIDE DEF sold, more, longs
  <2>7. closed \in Accounts /\ closed.state = "completed" /\ closed.recovering = account.recovering
      BY <2>2, <2>6 DEF Accounts, States
  <2> HIDE DEF closed
  <2>8. Comparable /\ (\A j \in 1 .. passed : roll[j].complete) =>
          account' = mirror' /\ account'.recovering = FALSE
      BY <1>4, <2>3, <2>4, <2>7
  <2>9. NeverLate(account)' /\ account'.state # "running" /\ account' \in Accounts
      BY <2>3, <2>7 DEF NeverLate
  <2> QED BY <1>1, <1>2, <1>3, <2>8, <2>9 DEF CleanInv
<1> QED BY <1>5, <1>6

(* Evaluator and reference agree as long as no session is incomplete, and   *)
(* no order misses its session, in every run: CleanAgreesWithReference.     *)
THEOREM EvaluatorAgrees == CleanSpec => []CleanAgreesWithReference
<1>1. CleanInv /\ [CleanNext]_cleanVars => CleanInv'
  <2>1. CleanInv /\ CleanNext => CleanInv'
      BY CleanSessionStep, CleanCloseStep DEF CleanNext
  <2>2. CleanInv /\ UNCHANGED cleanVars => CleanInv'
      BY DEF CleanInv, cleanVars, InTime, NeverLate, Comparable, Last
  <2> QED BY <2>1, <2>2
<1>2. CleanInv => CleanAgreesWithReference
    BY DEF CleanInv, CleanAgreesWithReference, NeverLate
<1> QED BY <1>1, <1>2, CleanInvInit, PTL DEF CleanSpec

-----------------------------------------------------------------------------
(*****************************************************************************)
(* The clean-room rotation.  Whatever is held or ordered rests on a run of   *)
(* complete sessions long enough for recovery and scores, and an order is    *)
(* filled within delay_sessions + 1 sessions of its decision (Backed).       *)
(*****************************************************************************)

CleanRotationTypes ==
    /\ agenda \in SessionLists
    /\ slack \in {0, 1} /\ origin \in {0, 2} /\ spec \in CleanTrials
    /\ turn \in 0 .. Len(agenda) /\ owned \in Positions
    /\ awaited \in [at : Nat, target : Positions] /\ causal \in 0 .. turn

AtWork == owned # Cash \/ awaited # NoneAwaited

ObservedRun == \A i \in turn - causal + 1 .. turn : agenda[i].complete

Backed ==
    finish = "running" /\ AtWork =>
        /\ causal >= CleanRecovery /\ causal > ScoreWindow
        /\ turn < Len(agenda) /\ turn > 0 /\ agenda[turn].date >= origin
        /\ awaited # NoneAwaited => awaited.at \in turn + 1 .. turn + 1 + slack

CleanRotationInv ==
    /\ CleanRotationTypes /\ ObservedRun /\ Backed /\ finish # "terminal_cash"

(* A decision is one of the positions.                                      *)
LEMMA CleanDecideTargets ==
    ASSUME NEW t, NEW s, NEW u, NEW p \in Positions PROVE CleanDecide(t, s, u, p) \in Positions
BY RotationAssumption DEF CleanDecide, Positions

(* The invariant holds before the first session.                            *)
LEMMA CleanRotationInvInit == CleanRotationInit(SessionLists) => CleanRotationInv
<1> SUFFICES ASSUME CleanRotationInit(SessionLists) PROVE CleanRotationInv
    OBVIOUS
<1>1. /\ agenda \in SessionLists /\ slack \in {0, 1} /\ origin \in {0, 2}
      /\ spec \in CleanTrials /\ turn = 0 /\ owned = Cash /\ awaited = NoneAwaited
      /\ causal = 0 /\ finish = "running"
    BY DEF CleanRotationInit
<1>2. Len(agenda) \in Nat
    BY <1>1 DEF SessionLists
<1>3. CleanRotationTypes
    BY <1>1, <1>2 DEF CleanRotationTypes, NoneAwaited, Positions
<1>4. ObservedRun /\ Backed
    BY <1>1 DEF ObservedRun, Backed, AtWork
<1> QED BY <1>1, <1>3, <1>4 DEF CleanRotationInv

(* An incomplete session sells what is held.                                *)
LEMMA MeetIncompleteStep == CleanRotationInv /\ MeetIncomplete => CleanRotationInv'
<1> SUFFICES ASSUME CleanRotationInv, MeetIncomplete PROVE CleanRotationInv'
    OBVIOUS
<1>1. Len(agenda) \in Nat
    BY DEF CleanRotationInv, CleanRotationTypes, SessionLists
<1>2. CASE AtWork
    BY <1>2 DEF MeetIncomplete, AtWork, Ended, CleanRotationInv, CleanRotationTypes, ObservedRun,
              Backed
<1>3. CASE ~AtWork
    BY <1>1, <1>3 DEF MeetIncomplete, AtTurn, AtWork, TurnTo, CleanRotationInv, CleanRotationTypes,
              ObservedRun, Backed
<1> QED BY <1>2, <1>3

(* A complete session lengthens the observed run.                          *)
LEMMA RunLengthens ==
    ASSUME CleanRotationInv, AtTurn, agenda[Upcoming].complete,
           causal' = causal + 1, turn' = turn + 1, agenda' = agenda
    PROVE  /\ ObservedRun' /\ turn' \in 0 .. Len(agenda') /\ causal' \in 0 .. turn'
           /\ turn \in Nat /\ causal \in Nat /\ Len(agenda) \in Nat /\ turn' \in 1 .. Len(agenda)
<1>1. /\ Len(agenda) \in Nat /\ turn \in 0 .. Len(agenda) /\ turn < Len(agenda)
      /\ causal \in 0 .. turn
    BY DEF CleanRotationInv, CleanRotationTypes, SessionLists, AtTurn
<1>2. ObservedRun'
    BY <1>1 DEF CleanRotationInv, ObservedRun, Upcoming
<1> QED BY <1>1, <1>2

(* A session before the lookback is full orders nothing.                    *)
LEMMA WarmUpStep == CleanRotationInv /\ WarmUp => CleanRotationInv'
<1> SUFFICES ASSUME CleanRotationInv, WarmUp PROVE CleanRotationInv'
    OBVIOUS
<1>1. /\ AtTurn /\ agenda[Upcoming].complete /\ agenda[Upcoming].date < origin
      /\ TurnTo(owned, awaited, causal + 1, priced)
    BY DEF WarmUp
<1>2. /\ UNCHANGED <<agenda, slack, origin, spec, owned, awaited, finish>>
      /\ turn' = turn + 1 /\ causal' = causal + 1
    BY <1>1 DEF TurnTo
<1>3. /\ ObservedRun' /\ turn' \in 0 .. Len(agenda') /\ causal' \in 0 .. turn'
      /\ turn \in Nat /\ causal \in Nat /\ Len(agenda) \in Nat /\ turn' \in 1 .. Len(agenda)
    BY <1>1, <1>2, RunLengthens
<1>4. ~AtWork
  <2> SUFFICES ASSUME AtWork PROVE FALSE
      OBVIOUS
  <2>1. turn \in 1 .. Len(agenda) /\ Upcoming \in 1 .. Len(agenda) /\ agenda[turn].date >= origin
      BY <1>1, <1>3 DEF AtTurn, Upcoming, CleanRotationInv, Backed
  <2>2. agenda[turn].date < agenda[Upcoming].date
      BY <2>1 DEF Upcoming, CleanRotationInv, CleanRotationTypes, SessionLists
  <2>3. agenda[turn].date \in Int /\ agenda[Upcoming].date \in Int /\ origin \in Int
    <3>1. agenda \in Seq(DailySession) /\ origin \in Int
        BY DEF CleanRotationInv, CleanRotationTypes, SessionLists
    <3>2. agenda[turn] \in DailySession /\ agenda[Upcoming] \in DailySession
        BY <2>1, <3>1
    <3> QED BY <3>1, <3>2 DEF DailySession
  <2> QED BY <1>1, <2>1, <2>2, <2>3
<1> QED BY <1>2, <1>3, <1>4 DEF CleanRotationInv, CleanRotationTypes, Backed, AtWork

(* A complete session fills what is awaited, then decides.                  *)
LEMMA MeetSessionStep == CleanRotationInv /\ MeetSession => CleanRotationInv'
<1> SUFFICES ASSUME CleanRotationInv, MeetSession PROVE CleanRotationInv'
    OBVIOUS
<1> DEFINE actual == OwnedNow
           left == AwaitedNow
           decides == causal + 1 > ScoreWindow /\ causal + 1 >= CleanRecovery
<1>1. /\ AtTurn /\ agenda[Upcoming].complete /\ agenda[Upcoming].date >= origin
      /\ \/ Upcoming = Len(agenda) /\ TurnTo(Cash, NoneAwaited, causal + 1, TRUE)
         \/ /\ Upcoming # Len(agenda)
            /\ TurnTo(actual, left, causal + 1, TRUE)
         \/ /\ Upcoming # Len(agenda) /\ decides
            /\ \E s \in Scores, u \in Medians :
                  TurnTo(actual, [at |-> Upcoming + 1 + slack,
                                   target |-> CleanDecide(spec, s, u, actual)],
                          causal + 1, TRUE)
    BY DEF MeetSession, TradedSession, DecisionDue
<1>2. /\ UNCHANGED <<agenda, slack, origin, spec, finish>>
      /\ turn' = turn + 1 /\ causal' = causal + 1 /\ finish = "running"
    BY <1>1 DEF TurnTo, AtTurn
<1>3. /\ ObservedRun' /\ turn' \in 0 .. Len(agenda') /\ causal' \in 0 .. turn'
      /\ turn \in Nat /\ causal \in Nat /\ Len(agenda) \in Nat /\ turn' \in 1 .. Len(agenda)
    BY <1>1, <1>2, RunLengthens
<1>4. /\ awaited \in [at : Nat, target : Positions] /\ owned \in Positions
      /\ actual \in Positions /\ Cash \in Positions /\ slack \in {0, 1}
      /\ NoneAwaited \in [at : Nat, target : Positions]
    BY DEF CleanRotationInv, CleanRotationTypes, NoneAwaited, Positions, OwnedNow
<1>5. Upcoming = turn + 1 /\ CleanRecovery \in Nat /\ ScoreWindow \in Nat
    BY CleanAssumption, RotationAssumption DEF Upcoming
<1>6. agenda'[turn'].date >= origin'
    BY <1>1, <1>2, <1>5
<1>7. CASE TurnTo(Cash, NoneAwaited, causal + 1, TRUE)
  <2>1. owned' = Cash /\ awaited' = NoneAwaited
      BY <1>7 DEF TurnTo
  <2> QED BY <1>2, <1>3, <1>4, <2>1 DEF CleanRotationInv, CleanRotationTypes, Backed, AtWork
<1>8. CASE /\ Upcoming # Len(agenda)
           /\ TurnTo(actual, left, causal + 1, TRUE)
  <2>1. owned' = actual /\ awaited' = left
      BY <1>8 DEF TurnTo
  <2>2. left \in [at : Nat, target : Positions]
      BY <1>4 DEF AwaitedNow
  <2>3. turn' < Len(agenda')
      BY <1>2, <1>3, <1>5, <1>8
  <2>4. actual # Cash \/ left # NoneAwaited => AtWork
      BY <1>5, <1>3 DEF AtWork, NoneAwaited, OwnedNow, AwaitedNow, OrderDue
  <2>5. left # NoneAwaited => left.at \in turn' + 1 .. turn' + 1 + slack
    <3> SUFFICES ASSUME left # NoneAwaited
                 PROVE  awaited.at \in turn + 2 .. turn + 2 + slack
        BY <1>2, <1>3, <1>4 DEF AwaitedNow
    <3>1. awaited # NoneAwaited /\ awaited.at # turn + 1
        BY <1>5 DEF AwaitedNow, OrderDue
    <3> QED BY <1>2, <1>3, <1>4, <3>1 DEF CleanRotationInv, Backed, AtWork
  <2> HIDE DEF actual, left
  <2>6. CleanRotationTypes'
      BY <1>2, <1>3, <1>4, <2>1, <2>2 DEF CleanRotationInv, CleanRotationTypes
  <2>7. Backed'
      BY <1>2, <1>3, <1>5, <1>6, <2>1, <2>3, <2>4, <2>5 DEF CleanRotationInv, Backed, AtWork
  <2> QED BY <1>2, <1>3, <2>6, <2>7 DEF CleanRotationInv
<1>9. ASSUME Upcoming # Len(agenda), decides, NEW s \in Scores, NEW u \in Medians,
             TurnTo(actual, [at |-> Upcoming + 1 + slack,
                              target |-> CleanDecide(spec, s, u, actual)],
                     causal + 1, TRUE)
      PROVE  CleanRotationInv'
  <2> DEFINE next == CleanDecide(spec, s, u, actual)
  <2>1. owned' = actual /\ awaited' = [at |-> Upcoming + 1 + slack, target |-> next]
      BY <1>9 DEF TurnTo
  <2>2. next \in Positions
      BY <1>4, CleanDecideTargets
  <2> HIDE DEF next, actual
  <2>3. /\ awaited' \in [at : Nat, target : Positions]
        /\ awaited'.at \in turn' + 1 .. turn' + 1 + slack
      BY <1>2, <1>3, <1>4, <1>5, <2>1, <2>2
  <2>4. turn' < Len(agenda')
      BY <1>2, <1>3, <1>5, <1>9
  <2>5. CleanRotationTypes'
      BY <1>2, <1>3, <1>4, <2>1, <2>3 DEF CleanRotationInv, CleanRotationTypes
  <2>6. Backed'
      BY <1>2, <1>3, <1>5, <1>6, <1>9, <2>3, <2>4 DEF Backed
  <2> QED BY <1>2, <1>3, <2>5, <2>6 DEF CleanRotationInv
<1> QED BY <1>1, <1>7, <1>8, <1>9

(* The end of the sessions closes what is held.                             *)
LEMMA CloseAgendaStep == CleanRotationInv /\ CloseAgenda => CleanRotationInv'
BY DEF CloseAgenda, Ended, CleanRotationInv, CleanRotationTypes, ObservedRun, Backed, AtWork,
       SessionLists

(* Every step keeps the invariant.                                          *)
LEMMA CleanRotationInvStep ==
    CleanRotationInv /\ [CleanRotationNext]_cleanRotationVars => CleanRotationInv'
<1> SUFFICES ASSUME CleanRotationInv, [CleanRotationNext]_cleanRotationVars
             PROVE  CleanRotationInv'
    OBVIOUS
<1>1. CASE UNCHANGED cleanRotationVars
    BY <1>1 DEF cleanRotationVars, CleanRotationInv, CleanRotationTypes, ObservedRun, Backed, AtWork
<1> QED BY <1>1, MeetIncompleteStep, WarmUpStep, MeetSessionStep, CloseAgendaStep
        DEF CleanRotationNext

(* Over any list of sessions the clean-room rotation is exposed only after  *)
(* CleanRecovery complete sessions, its order is filled within              *)
(* delay_sessions + 1 sessions, and it never refuses its own end.           *)
THEOREM CleanRotationStaysSound == CleanRotationSpec => []CleanRotationSound
<1>1. CleanRotationInv => CleanRotationSound
  <2> SUFFICES ASSUME CleanRotationInv PROVE CleanRotationSound
      OBVIOUS
  <2>1. ASSUME finish = "running", AtWork
        PROVE  /\ causal >= CleanRecovery /\ causal > ScoreWindow
               /\ \A i \in turn - CleanRecovery + 1 .. turn : agenda[i].complete
      BY <2>1, CleanAssumption
      DEF CleanRotationInv, CleanRotationTypes, Backed, ObservedRun
  <2> QED BY <2>1 DEF CleanRotationInv, CleanRotationSound, Backed, AtWork
<1> QED BY CleanRotationInvInit, CleanRotationInvStep, <1>1, PTL DEF CleanRotationSpec
=============================================================================
