---------------------------- MODULE MinuteProofs ----------------------------
(*****************************************************************************)
(* The paths over joint minutes.  One section for each module.               *)
(*****************************************************************************)
EXTENDS MinuteMarket, ParityPath, ManagedPath, TrendPath, CalendarPath,
        TLAPS, FiniteSetTheorems, WellFoundedInduction

(* A set of naturals has a least element.                                   *)
LEMMA LeastNatural ==
    ASSUME NEW T \in SUBSET Nat, T # {} PROVE \E x \in T : \A y \in T : x <= y
<1> DEFINE R == {pair \in Nat \X Nat : pair[1] < pair[2]}
<1>1. IsWellFoundedOn(R, Nat)
    BY NatLessThanWellFounded, Zenon DEF OpToRel
<1>2. \E x \in T : \A y \in T : ~ (<<y, x>> \in R)
    BY <1>1, WFMin, Zenon
<1>3. \A x, y \in T : ~ (<<y, x>> \in R) => x <= y
    OBVIOUS
<1> QED BY <1>2, <1>3

(* A set of integers with a bound has a largest element.                    *)
LEMMA LargestInteger ==
    ASSUME NEW T \in SUBSET Int, T # {}, NEW n \in Int, \A y \in T : y <= n
    PROVE  \E x \in T : \A y \in T : y <= x
<1> DEFINE U == {n - y : y \in T}
<1>0. \A y \in T : n - y \in Nat
    OBVIOUS
<1>1. U \in SUBSET Nat /\ U # {}
    BY <1>0
<1>2. PICK u \in U : \A v \in U : u <= v
    BY <1>1, LeastNatural
<1>3. PICK x \in T : u = n - x
    OBVIOUS
<1>4. \A y \in T : u <= n - y
    BY <1>2
<1>5. \A y \in T : y <= x
    BY <1>3, <1>4
<1> QED BY <1>5

-----------------------------------------------------------------------------
(*****************************************************************************)
(* Minutes and sessions.  Where a session begins and ends, what the next moment *)
(* of a set is, and when a recursive function over an interval exists.       *)
(*****************************************************************************)

(* Sessions lie one after the other.                                        *)
LEMMA SessionBounds ==
    /\ \A d \in Int : d * Minutes \in Int /\ (d + 1) * Minutes = d * Minutes + Minutes
    /\ \A d, e \in Int : d < e => d * Minutes + Minutes <= e * Minutes
<1>1. Minutes \in Nat
    BY MinuteMarketAssumption
<1>2. \A d \in Int : d * Minutes \in Int /\ (d + 1) * Minutes = d * Minutes + Minutes
    BY <1>1
<1>3. ASSUME NEW d \in Int, NEW e \in Int, d < e PROVE d * Minutes + Minutes <= e * Minutes
  <2> DEFINE k == e - d - 1
  <2>1. k \in Nat /\ e = d + 1 + k
      BY <1>3
  <2>2. \A m, n \in Nat : m * n >= 0
      OBVIOUS
  <2>3. k * Minutes >= 0
      BY <1>1, <2>1, <2>2
  <2>4. e * Minutes = d * Minutes + Minutes + k * Minutes
      BY <1>1, <2>1
  <2>5. d * Minutes \in Int /\ k * Minutes \in Int
      BY <1>1, <2>1
  <2> HIDE DEF k
  <2> QED BY <1>1, <2>3, <2>4, <2>5
<1> QED BY <1>2, <1>3

(* NextOf is the smallest of the later times, if there is one.              *)
LEMMA NextOfLater ==
    ASSUME NEW times \in SUBSET Nat, NEW t \in Nat
    PROVE  LET n == NextOf(times, t)
           IN  /\ n # NoMoment => /\ n \in times /\ n > t
                                 /\ \A v \in times : v > t => n <= v
               /\ (\E v \in times : v > t) => n # NoMoment
<1> DEFINE later == {v \in times : v > t}
           n == NextOf(times, t)
<1>1. n = IF later = {} THEN NoMoment ELSE SmallestOf(later)
    BY DEF NextOf
<1>2. CASE later = {}
    BY <1>1, <1>2
<1>3. CASE later # {}
  <2>1. \E x \in later : \A y \in later : x <= y
      BY <1>3, LeastNatural
  <2>2. SmallestOf(later) \in later /\ \A y \in later : SmallestOf(later) <= y
      BY <2>1, Zenon DEF SmallestOf
  <2> QED BY <1>1, <1>3, <2>2 DEF NoMoment
<1> QED BY <1>2, <1>3

(* A recursive function over an interval exists when every value is given   *)
(* or one more than that of an earlier place.                               *)
Descends(lo, hi, Fixed, Value, Before) ==
    \A d \in lo .. hi : IF d \in Fixed THEN Value[d] \in Nat ELSE Before[d] \in lo .. d - 1
Counts(run, lo, hi, Fixed, Value, Before) ==
    /\ run \in [lo .. hi -> Nat]
    /\ \A d \in lo .. hi : run[d] = IF d \in Fixed THEN Value[d] ELSE run[Before[d]] + 1

(* The function is built place by place, from the first one.                *)
LEMMA RecursionExists ==
    ASSUME NEW lo \in Int, NEW hi \in Int, lo <= hi, NEW Fixed, NEW Value, NEW Before,
           Descends(lo, hi, Fixed, Value, Before)
    PROVE  \E run : Counts(run, lo, hi, Fixed, Value, Before)
<1>0. \A d \in lo .. hi : IF d \in Fixed THEN Value[d] \in Nat ELSE Before[d] \in lo .. d - 1
    BY DEF Descends
<1> DEFINE D(k) == lo .. lo + k - 1
           F(run, d) == IF d \in Fixed THEN Value[d] ELSE run[Before[d]] + 1
           Solves(run, k) == run \in [D(k) -> Nat] /\ \A d \in D(k) : run[d] = F(run, d)
           Open == {k \in Nat : lo + k - 1 <= hi /\ ~\E run : Solves(run, k)}
<1>1. ASSUME NEW k \in Nat, lo + k - 1 <= hi PROVE \E run : Solves(run, k)
  <2> SUFFICES ASSUME Open # {} PROVE FALSE
      BY <1>1
  <2>1. PICK n \in Open : \A y \in Open : n <= y
    <3>1. Open \in SUBSET Nat
        OBVIOUS
    <3> HIDE DEF Open
    <3> QED BY <3>1, LeastNatural
  <2>2. n \in Nat /\ lo + n - 1 <= hi /\ ~\E run : Solves(run, n)
      BY <2>1
  <2>3. CASE n = 0
    <3>1. D(n) = {}
        BY <2>3
    <3>2. Solves([d \in {} |-> 0], n)
      <4> HIDE DEF F, D
      <4> QED BY <3>1
    <3> QED BY <2>2, <3>2
  <2>4. CASE n # 0
    <3>0. n - 1 \notin Open
      <4> HIDE DEF Open
      <4>1. ~(n <= n - 1)
          BY <2>2
      <4> QED BY <2>1, <4>1
    <3>1. n - 1 \in Nat /\ lo + (n - 1) - 1 <= hi
        BY <2>2, <2>4
    <3>2. PICK f : Solves(f, n - 1)
      <4> HIDE DEF Solves
      <4> QED BY <3>0, <3>1
    <3> DEFINE g == [d \in D(n) |-> F(f, d)]
    <3>3. \A d \in D(n) : d \notin Fixed => Before[d] \in D(n - 1)
        BY <1>0, <2>2
    <3>4. \A d \in D(n - 1) : d \in D(n) /\ f[d] = F(f, d) /\ f[d] \in Nat
      <4>1. \A d \in D(n - 1) : d \in D(n)
          OBVIOUS
      <4> HIDE DEF D, F
      <4> QED BY <3>2, <4>1
    <3>5. \A d \in D(n) : F(f, d) \in Nat
        BY <1>0, <2>2, <3>3, <3>4
    <3> HIDE DEF D
    <3>6. \A d \in D(n - 1) : g[d] = f[d]
      <4> HIDE DEF F
      <4> QED BY <3>4
    <3>7. \A d \in D(n) : F(g, d) = F(f, d)
        BY <3>3, <3>6
    <3>8. Solves(g, n)
      <4> HIDE DEF F
      <4> QED BY <3>5, <3>7
    <3> QED BY <2>2, <3>8
  <2> QED BY <2>3, <2>4
<1> DEFINE k == hi - lo + 1
<1>2. k \in Nat /\ lo + k - 1 = hi
    OBVIOUS
<1> HIDE DEF k
<1>3. PICK run : Solves(run, k)
  <2> HIDE DEF Solves
  <2> QED BY <1>1, <1>2
<1>4. run \in [lo .. hi -> Nat] /\ \A d \in lo .. hi : run[d] = F(run, d)
    BY <1>2, <1>3
<1> QED BY <1>4 DEF Counts

Times == Nat \union {NoMoment}

(* Fills of a plan lie after their signals and in the order of them.        *)
PlanFacts(plan) ==
    /\ \A f \in plan : f.time \in Nat /\ f.signal \in Nat /\ f.signal <= f.time
    /\ \A f, g \in plan : f.time = g.time => f = g
    /\ \A f, g \in plan : f.time < g.time => f.signal < g.signal

(* A plan that executes the target of a session after a session that only   *)
(* goes forward.                                                            *)
LEMMA PlanOfSessions ==
    ASSUME NEW S \in SUBSET Dates, NEW T \in [S -> Int], \A d \in S : d <= T[d],
           \A d, e \in S : d < e => T[d] < T[e],
           NEW plan,
           plan \subseteq {[time |-> ExpectedOpen(T[d]), signal |-> (d + 1) * Minutes] : d \in S}
    PROVE  PlanFacts(plan)
<1> DEFINE fill(d) == [time |-> ExpectedOpen(T[d]), signal |-> (d + 1) * Minutes]
<1>0. Minutes \in Nat /\ Minutes > 0 /\ MarketDays \in Nat
    BY MinuteMarketAssumption
<1>1. \A d \in S : d \in Nat /\ d \in Int /\ T[d] \in Int
    BY <1>0 DEF Dates
<1>2. \A d, e \in Int : d < e => (d + 1) * Minutes < (e + 1) * Minutes
  <2> SUFFICES ASSUME NEW d \in Int, NEW e \in Int, d < e
               PROVE  (d + 1) * Minutes < (e + 1) * Minutes
      OBVIOUS
  <2> DEFINE a == d + 1
             b == e + 1
  <2>1. a \in Int /\ b \in Int /\ a < b
      OBVIOUS
  <2> HIDE DEF a, b
  <2>2. a * Minutes \in Int /\ b * Minutes \in Int /\ a * Minutes + Minutes <= b * Minutes
      BY <2>1, SessionBounds
  <2>3. a * Minutes < b * Minutes
      BY <1>0, <2>2
  <2> QED BY <2>3 DEF a, b
<1>3. \A d \in Int : (d + 1) * Minutes \in Int /\ (d \in Nat => (d + 1) * Minutes \in Nat)
    BY <1>0
<1>4. \A d, e \in S : d < e => /\ fill(d).time < fill(e).time
                               /\ fill(d).signal < fill(e).signal
    BY <1>1, <1>2, <1>3 DEF ExpectedOpen
<1>5. \A d \in S : fill(d).signal \in Nat /\ fill(d).time \in Nat /\ fill(d).signal <= fill(d).time
  <2> SUFFICES ASSUME NEW d \in S
               PROVE  (d + 1) * Minutes \in Nat /\ (T[d] + 1) * Minutes + 1 \in Nat
                      /\ (d + 1) * Minutes <= (T[d] + 1) * Minutes + 1
      BY DEF ExpectedOpen
  <2>1. d \in Nat /\ T[d] \in Nat /\ (d = T[d] \/ d < T[d])
      BY <1>1
  <2>2. (d + 1) * Minutes \in Nat /\ (T[d] + 1) * Minutes \in Nat
      BY <1>0, <2>1
  <2>3. (d + 1) * Minutes <= (T[d] + 1) * Minutes
      BY <1>2, <2>1, <2>2
  <2> QED BY <2>2, <2>3
<1>6. \A f \in plan : \E d \in S : f = fill(d)
    OBVIOUS
<1> HIDE DEF fill
<1>7. \A d, e \in S : d < e \/ d = e \/ e < d
    BY <1>1
<1>8. \A i, j \in Nat : i < j => ~(j < i) /\ i # j
    OBVIOUS
<1>9. \A f \in plan : f.time \in Nat /\ f.signal \in Nat /\ f.signal <= f.time
    BY <1>5, <1>6
<1>10. ASSUME NEW f \in plan, NEW g \in plan
       PROVE  (f.time = g.time => f = g) /\ (f.time < g.time => f.signal < g.signal)
  <2>1. PICK d \in S : f = fill(d)
      BY <1>6
  <2>2. PICK e \in S : g = fill(e)
      BY <1>6
  <2> QED BY <1>4, <1>5, <1>7, <1>8, <2>1, <2>2
<1> QED BY <1>9, <1>10 DEF PlanFacts

(* The next complete session after one goes forward with it.                *)
LEMMA NextGoesForward ==
    ASSUME NEW C \in SUBSET Dates, NEW d \in Dates
    PROVE  /\ NextOf(C, d) # NoMoment => NextOf(C, d) \in C /\ d < NextOf(C, d)
           /\ \A e \in C : d < e /\ NextOf(C, e) # NoMoment =>
                 NextOf(C, d) # NoMoment /\ NextOf(C, d) < NextOf(C, e)
<1>1. C \in SUBSET Nat /\ d \in Nat /\ \A e \in C : e \in Nat
    BY MinuteMarketAssumption DEF Dates
<1>2. \A t \in Nat : LET n == NextOf(C, t)
                     IN  /\ n # NoMoment => /\ n \in C /\ n > t /\ n \in Nat
                                           /\ \A v \in C : v > t => n <= v
                         /\ (\E v \in C : v > t) => n # NoMoment
    BY <1>1, NextOfLater
<1>3. ASSUME NEW e \in C, d < e, NextOf(C, e) # NoMoment
      PROVE  NextOf(C, d) # NoMoment /\ NextOf(C, d) < NextOf(C, e)
  <2>1. e \in Nat /\ e > d
      BY <1>1, <1>3
  <2>2. NextOf(C, e) > e /\ NextOf(C, e) \in Nat
      BY <1>2, <1>3, <2>1
  <2>3. NextOf(C, d) # NoMoment /\ NextOf(C, d) <= e /\ NextOf(C, d) \in Nat
      BY <1>1, <1>2, <2>1
  <2> QED BY <2>1, <2>2, <2>3
<1> QED BY <1>1, <1>2, <1>3

-----------------------------------------------------------------------------
(*****************************************************************************)
(* The parity study.  Every detection passed is remembered by the trigger or *)
(* too old for the fills to come (Covered), and one the position was held over *)
(* owes a sale at the next joint vector (Owing), which is a moment of the path; *)
(* each stage of an event (detection, sale, fill, endpoint) has its own version *)
(* of the invariant.  The recovery run counts down to a contiguous window.   *)
(*****************************************************************************)

(* Recovery counts what it should: enough of it is a contiguous window.     *)
LEMMA RecoveryRunEquation ==
    ASSUME NEW rows
    PROVE  LET run == RecoveryRun(rows)
           IN  \A d \in Dates :
                 /\ run[d] \in Nat
                 /\ run[d] > 0 => SessionComplete(rows, d)
                 /\ run[d] > 1 => d - 1 \in Dates /\ run[d] = run[d - 1] + 1
<1> DEFINE Last(d) == CHOOSE e \in SeenBefore(rows, d) : \A f \in SeenBefore(rows, d) : f <= e
           G(run, d) == IF ~SessionComplete(rows, d) THEN 0
                        ELSE IF SeenBefore(rows, d) = {} THEN 1
                        ELSE IF SessionComplete(rows, Last(d)) /\ Last(d) # d - 1 THEN 0
                        ELSE run[Last(d)] + 1
           Fixed == {d \in Dates : \/ ~SessionComplete(rows, d) \/ SeenBefore(rows, d) = {}
                                   \/ SessionComplete(rows, Last(d)) /\ Last(d) # d - 1}
           Value == [d \in Dates |-> IF ~SessionComplete(rows, d) THEN 0
                                     ELSE IF SeenBefore(rows, d) = {} THEN 1 ELSE 0]
           Prior == [d \in Dates |-> Last(d)]
           run == RecoveryRun(rows)
<1>0. MarketDays \in Nat /\ MarketDays > 0 /\ Dates = 0 .. MarketDays - 1
    BY MinuteMarketAssumption DEF Dates
<1>1. \A d \in Dates : SeenBefore(rows, d) # {} => Last(d) \in 0 .. d - 1
  <2> SUFFICES ASSUME NEW d \in Dates, SeenBefore(rows, d) # {} PROVE Last(d) \in 0 .. d - 1
      OBVIOUS
  <2>1. SeenBefore(rows, d) \in SUBSET Int /\ d \in Int /\ \A e \in SeenBefore(rows, d) : e <= d
      BY <1>0 DEF SeenBefore
  <2>2. \E e \in SeenBefore(rows, d) : \A f \in SeenBefore(rows, d) : f <= e
      BY <2>1, LargestInteger
  <2>3. Last(d) \in SeenBefore(rows, d)
      BY <2>2, Zenon
  <2> HIDE DEF Last
  <2> QED BY <1>0, <2>3 DEF SeenBefore
<1>2. \A r, d : d \in Dates => G(r, d) = IF d \in Fixed THEN Value[d] ELSE r[Prior[d]] + 1
  <2> HIDE DEF Last
  <2> QED OBVIOUS
<1>3. \A d \in Dates : IF d \in Fixed THEN Value[d] \in Nat ELSE Prior[d] \in 0 .. d - 1
  <2> HIDE DEF Last
  <2> QED BY <1>1
<1>4. PICK r : r = [d \in Dates |-> G(r, d)]
  <2> DEFINE hi == MarketDays - 1
  <2>1. 0 \in Int /\ hi \in Int /\ Dates = 0 .. hi
      BY <1>0
  <2> HIDE DEF hi
  <2>2. PICK r \in [0 .. hi -> Nat] :
           \A d \in 0 .. hi : r[d] = IF d \in Fixed THEN Value[d] ELSE r[Prior[d]] + 1
    <3> HIDE DEF Fixed, Value, Prior
    <3>1. Descends(0, hi, Fixed, Value, Prior)
        BY <1>3, <2>1 DEF Descends
    <3>2. 0 <= hi
        BY <1>0 DEF hi
    <3> QED BY <2>1, <3>1, <3>2, RecursionExists DEF Counts
  <2> HIDE DEF G, Fixed, Value, Prior
  <2>3. \A d \in Dates : r[d] = G(r, d)
      BY <1>2, <2>1, <2>2
  <2> QED BY <2>1, <2>2, <2>3
<1>5. run = CHOOSE h : h = [d \in Dates |-> G(h, d)]
    BY DEF RecoveryRun
<1>6. run = [d \in Dates |-> G(run, d)]
  <2> HIDE DEF G
  <2> QED BY <1>4, <1>5, Zenon
<1> HIDE DEF run
<1>7. \A d \in Dates : run[d] = G(run, d)
  <2> HIDE DEF G
  <2> QED BY <1>6
<1> HIDE DEF Last
<1>8. \A d \in Dates : run[d] \in Nat
  <2> DEFINE Bad == {d \in Dates : run[d] \notin Nat}
  <2> SUFFICES ASSUME Bad # {} PROVE FALSE
      OBVIOUS
  <2>1. PICK d \in Bad : \A e \in Bad : d <= e
    <3>1. Bad \in SUBSET Nat
        BY <1>0
    <3> HIDE DEF Bad
    <3> QED BY <3>1, LeastNatural
  <2>2. d \in Dates /\ run[d] \notin Nat
      OBVIOUS
  <2>3. SeenBefore(rows, d) # {} /\ run[d] = run[Last(d)] + 1
      BY <1>7, <2>2
  <2>4. Last(d) \in 0 .. d - 1
      BY <1>1, <2>2, <2>3
  <2>5. Last(d) \in Dates /\ ~(d <= Last(d))
      BY <1>0, <2>2, <2>4
  <2>6. run[Last(d)] \in Nat
      BY <2>1, <2>5
  <2> QED BY <2>2, <2>3, <2>6
<1>9. ASSUME NEW d \in Dates PROVE /\ run[d] > 0 => SessionComplete(rows, d)
                                   /\ run[d] > 1 => d - 1 \in Dates /\ run[d] = run[d - 1] + 1
  <2>1. run[d] > 0 => SessionComplete(rows, d)
      BY <1>7
  <2>2. ASSUME run[d] > 1 PROVE d - 1 \in Dates /\ run[d] = run[d - 1] + 1
    <3>1. SeenBefore(rows, d) # {} /\ run[d] = run[Last(d)] + 1
          /\ ~(SessionComplete(rows, Last(d)) /\ Last(d) # d - 1)
        BY <1>7, <2>2
    <3>2. Last(d) \in Dates
        BY <1>0, <1>1, <3>1
    <3>3. run[Last(d)] \in Nat /\ run[Last(d)] > 0
        BY <1>8, <2>2, <3>1, <3>2
    <3>4. SessionComplete(rows, Last(d))
        BY <1>7, <3>2, <3>3
    <3>5. Last(d) = d - 1
        BY <3>1, <3>4
    <3> QED BY <3>1, <3>2, <3>5
  <2> QED BY <2>1, <2>2
<1> QED BY <1>8, <1>9 DEF run

(* ------------------------------ the account ----------------------------- *)
Fates == {"running", "unpriceable_quarantine", "unpriceable_fill", "missing_terminal_vector",
          "unpriceable_endpoint"}
PathStates == [opened : Times, due : SUBSET Nat, trigger : Times,
               fills : SUBSET [time : Nat, signal : Nat], fate : Fates]

MarketKnown ==
    /\ loaded.vectors \in SUBSET Nat /\ loaded.gaps \in SUBSET Nat /\ PlanFacts(loaded.planned)
    /\ span[1] \in Nat /\ span[2] \in Nat /\ span[1] < span[2]
    /\ \A f \in loaded.planned : span[1] <= f.time /\ f.time < Terminal

FillsObserved(S) == \A f \in S : \A g \in Gaps : ~(f.signal <= g /\ g <= f.time)

(* What is owed is owed to a vector of the path that is still to come.      *)
DueAhead(due, S) == \A v \in due : v \in loaded.vectors /\ span[1] <= v /\ v <= Terminal /\ v \in S

(* Every detection is remembered by the trigger, or too old for the fills S.*)
Covered(trig, t, S) ==
    \A g \in Gaps : g <= t => (trig # NoMoment /\ g <= trig) \/ \A f \in S : f.signal > g

(* A detection the position was held over is owed a sale after "past".      *)
Owing(p, t, past) ==
    p.fate = "running" /\ p.opened # NoMoment =>
        /\ p.opened \notin Gaps
        /\ \A g \in Gaps : p.opened <= g /\ g <= t =>
              NextOf(loaded.vectors, g) \in p.due /\ NextOf(loaded.vectors, g) > past

After(t) == {f \in loaded.planned : f.time > t}
NotBefore(t) == {f \in loaded.planned : f.time >= t}
Ahead(t) == {v \in Nat : v > t \/ v = Terminal}

Good(p, t) ==
    /\ p \in PathStates /\ FillsObserved(p.fills) /\ DueAhead(p.due, Ahead(t))
    /\ Covered(p.trigger, t, After(t)) /\ Owing(p, t, t)
    /\ p.fate = "running" /\ p.opened # NoMoment => p.opened <= t /\ t < Terminal

(* After the detection at t, and after the sale at t.                       *)
Detected(p, t) ==
    /\ p \in PathStates /\ FillsObserved(p.fills) /\ DueAhead(p.due, {v \in Nat : v >= t})
    /\ Covered(p.trigger, t, NotBefore(t)) /\ (t \in Gaps => p.trigger = t) /\ Owing(p, t, t - 1)
    /\ p.fate = "running" /\ p.opened # NoMoment => p.opened <= t
Sold(p, t) ==
    /\ p \in PathStates /\ FillsObserved(p.fills) /\ DueAhead(p.due, Ahead(t))
    /\ Covered(p.trigger, t, NotBefore(t)) /\ (t \in Gaps => p.trigger = t) /\ Owing(p, t, t)
    /\ p.fate = "running" /\ p.opened # NoMoment => p.opened <= t

(* The next vector after a time of the path.                                *)
LEMMA NextVector ==
    ASSUME MarketKnown, NEW t \in Nat
    PROVE  LET n == NextOf(loaded.vectors, t)
           IN  n # NoMoment => n \in loaded.vectors /\ n \in Nat /\ n > t
BY NextOfLater DEF MarketKnown

(* A refusal is recorded, and nothing else.                                 *)
LEMMA RuinedFields ==
    ASSUME NEW p \in PathStates, NEW why \in Fates \ {"running"}
    PROVE  LET q == Ruined(p, why)
           IN  /\ q \in PathStates /\ q.opened = p.opened /\ q.due = p.due
               /\ q.trigger = p.trigger /\ q.fills = p.fills /\ q.fate # "running"
<1> DEFINE q == [p EXCEPT !.fate = why]
<1>1. CASE p.fate = "running"
  <2>1. Ruined(p, why) = q
      BY <1>1 DEF Ruined
  <2>2. /\ q \in PathStates /\ q.opened = p.opened /\ q.due = p.due
        /\ q.trigger = p.trigger /\ q.fills = p.fills /\ q.fate = why
    <3> HIDE DEF Times, Fates
    <3> QED BY DEF PathStates
  <2>3. why # "running"
      OBVIOUS
  <2> HIDE DEF q
  <2> QED BY <2>1, <2>2, <2>3
<1>2. CASE p.fate # "running"
  <2>1. Ruined(p, why) = p
      BY <1>2 DEF Ruined
  <2> QED BY <1>2, <2>1
<1> QED BY <1>1, <1>2

(* Exposure is sold at the next vector of the path, or the path refuses it. *)
LEMMA SellAfterFields ==
    ASSUME MarketKnown, NEW p \in PathStates, NEW t \in Nat, NEW why \in Fates \ {"running"}
    PROVE  LET q == SellAfter(p, t, why)
               n == NextOf(loaded.vectors, t)
           IN  /\ q \in PathStates /\ q.opened = p.opened /\ q.trigger = p.trigger
               /\ q.fills = p.fills /\ (q.fate = "running" => p.fate = "running")
               /\ p.due \subseteq q.due /\ q.due \subseteq p.due \union {n}
               /\ n \in q.due \ p.due => n \in loaded.vectors /\ n > t /\ n <= Terminal
               /\ q.fate = "running" /\ p.opened # NoMoment => n \in q.due /\ n > t
<1> DEFINE n == NextOf(loaded.vectors, t)
           ds == p.due \union {n}
           r == [p EXCEPT !.due = ds]
           q == SellAfter(p, t, why)
<1>1. n # NoMoment => n \in loaded.vectors /\ n \in Nat /\ n > t
    BY NextVector
<1>2. Terminal \in Int
    BY DEF MarketKnown, Terminal, TerminalTimestamp
<1>3. q = IF p.opened = NoMoment THEN p
          ELSE IF n = NoMoment \/ n > Terminal THEN Ruined(p, why) ELSE r
    BY DEF SellAfter
<1>4. CASE p.opened = NoMoment
    BY <1>3, <1>4
<1>5. CASE p.opened # NoMoment /\ (n = NoMoment \/ n > Terminal)
  <2>1. q = Ruined(p, why)
      BY <1>3, <1>5
  <2> HIDE DEF q, n
  <2> QED BY <2>1, RuinedFields DEF q, n
<1>6. CASE p.opened # NoMoment /\ n # NoMoment /\ ~(n > Terminal)
  <2>1. q = r
      BY <1>3, <1>6
  <2>2. p.due \in SUBSET Nat
      BY DEF PathStates
  <2>3. ds \in SUBSET Nat
      BY <1>1, <1>6, <2>2
  <2> HIDE DEF ds
  <2>4. /\ r \in PathStates /\ r.opened = p.opened /\ r.due = ds /\ r.trigger = p.trigger
        /\ r.fills = p.fills /\ r.fate = p.fate
    <3> HIDE DEF Times, Fates
    <3> QED BY <2>3 DEF PathStates
  <2> HIDE DEF r, n, q
  <2> QED BY <1>1, <1>2, <1>6, <2>1, <2>4 DEF ds, n, q
<1> QED BY <1>4, <1>5, <1>6

(* ------------------------------- the steps ------------------------------ *)
(* The moment after c is t: nothing of the market lies between them.        *)
Nearest(c, t) ==
    /\ c \in Int /\ t \in Nat /\ c < t /\ span[1] <= t /\ t <= Terminal
    /\ \A g \in Gaps : g > c => g >= t
    /\ \A v \in loaded.vectors : span[1] <= v /\ v <= Terminal /\ v > c => v >= t
    /\ \A f \in loaded.planned : f.time > c => f.time >= t

(* The path ends at a moment not before its start.                          *)
LEMMA TerminalKnown == MarketKnown => Terminal \in Nat /\ span[1] <= Terminal
BY DEF MarketKnown, Terminal, TerminalTimestamp

(* Detections of the path are moments.                                      *)
LEMMA GapsKnown == MarketKnown => Gaps \in SUBSET Nat
BY DEF MarketKnown, Gaps, WithinPath

(* A detection records itself, and sells what is held.                      *)
LEMMA DetectSound ==
    ASSUME MarketKnown, NEW p, NEW c, NEW t, Nearest(c, t), Good(p, c), p.fate = "running"
    PROVE  Detected(Detect(p, t), t)
<1>0. /\ c \in Int /\ t \in Nat /\ c < t /\ span[1] <= t /\ t <= Terminal /\ Terminal \in Nat
      /\ Gaps \in SUBSET Nat /\ p \in PathStates /\ t \in Times
    BY TerminalKnown, GapsKnown DEF Nearest, Good, Times
<1>1. \A v \in p.due : /\ v \in loaded.vectors /\ v \in Nat /\ span[1] <= v /\ v <= Terminal
                       /\ v > c /\ v >= t
    BY <1>0 DEF Good, DueAhead, Ahead, Nearest, MarketKnown
<1>2. \A g \in Gaps : g <= t => g <= c \/ g = t
    BY <1>0 DEF Nearest
<1>3. \A g \in Gaps : g <= c => (p.trigger # NoMoment /\ g <= p.trigger)
                                \/ \A f \in NotBefore(t) : f.signal > g
  <2>1. NotBefore(t) \subseteq After(c)
      BY <1>0 DEF NotBefore, After, MarketKnown, PlanFacts
  <2> QED BY <2>1 DEF Good, Covered
<1>4. p.opened # NoMoment => /\ p.opened \notin Gaps /\ p.opened \in Nat /\ p.opened <= c
                             /\ \A g \in Gaps : p.opened <= g /\ g <= c =>
                                   NextOf(loaded.vectors, g) \in p.due
    BY DEF Good, Owing, PathStates, Times
<1>5. CASE t \notin Gaps
  <2>1. Detect(p, t) = p
      BY <1>5 DEF Detect
  <2>2. DueAhead(p.due, {v \in Nat : v >= t})
      BY <1>1 DEF DueAhead
  <2>3. Covered(p.trigger, t, NotBefore(t))
      BY <1>2, <1>3, <1>5 DEF Covered
  <2>4. Owing(p, t, t - 1)
    <3>1. ASSUME p.opened # NoMoment, NEW g \in Gaps, p.opened <= g, g <= t
          PROVE  NextOf(loaded.vectors, g) \in p.due /\ NextOf(loaded.vectors, g) > t - 1
      <4>1. NextOf(loaded.vectors, g) \in p.due
          BY <1>2, <1>4, <1>5, <3>1
      <4> QED BY <1>0, <1>1, <4>1
    <3> QED BY <1>4, <3>1 DEF Owing
  <2>5. p.opened # NoMoment => p.opened <= t
      BY <1>0, <1>4
  <2> QED BY <1>0, <1>5, <2>1, <2>2, <2>3, <2>4, <2>5 DEF Detected, Good
<1>6. CASE t \in Gaps
  <2> DEFINE n == NextOf(loaded.vectors, t)
             q == SellAfter(p, t, "unpriceable_quarantine")
             r == [q EXCEPT !.trigger = t]
  <2>1. Detect(p, t) = r
      BY <1>6 DEF Detect
  <2>2. "unpriceable_quarantine" \in Fates \ {"running"}
      BY DEF Fates
  <2>3. /\ q \in PathStates /\ q.opened = p.opened /\ q.fills = p.fills
        /\ (q.fate = "running" => p.fate = "running")
        /\ p.due \subseteq q.due /\ q.due \subseteq p.due \union {n}
        /\ n \in q.due \ p.due => n \in loaded.vectors /\ n > t /\ n <= Terminal
        /\ q.fate = "running" /\ p.opened # NoMoment => n \in q.due /\ n > t
      BY <1>0, <2>2, SellAfterFields
  <2> HIDE DEF q, n
  <2>4. /\ r \in PathStates /\ r.opened = p.opened /\ r.due = q.due /\ r.trigger = t
        /\ r.fills = p.fills /\ r.fate = q.fate
    <3> HIDE DEF Times, Fates
    <3> QED BY <1>0, <2>3 DEF PathStates
  <2> HIDE DEF r
  <2>5. q.due \in SUBSET Nat
      BY <2>3 DEF PathStates
  <2>6. DueAhead(r.due, {v \in Nat : v >= t})
    <3> SUFFICES ASSUME NEW v \in q.due
                 PROVE  v \in loaded.vectors /\ span[1] <= v /\ v <= Terminal /\ v >= t
        BY <2>4, <2>5 DEF DueAhead
    <3>1. CASE v \in p.due
        BY <1>1, <3>1
    <3>2. CASE v \notin p.due
      <4>1. v = n /\ v \in Nat
          BY <2>3, <2>5, <3>2
      <4>2. span[1] \in Nat
          BY DEF MarketKnown
      <4> QED BY <1>0, <2>3, <3>2, <4>1, <4>2
    <3> QED BY <3>1, <3>2
  <2>7. Covered(r.trigger, t, NotBefore(t))
      BY <1>0, <2>4 DEF Covered, NoMoment
  <2>8. ASSUME r.fate = "running", r.opened # NoMoment
        PROVE  /\ r.opened \notin Gaps /\ r.opened <= t
               /\ \A g \in Gaps : r.opened <= g /\ g <= t =>
                     NextOf(loaded.vectors, g) \in r.due /\ NextOf(loaded.vectors, g) > t - 1
    <3>1. r.opened \notin Gaps /\ r.opened <= t
        BY <1>0, <1>4, <2>4, <2>8
    <3>2. n \in r.due /\ n > t - 1
        BY <1>0, <2>3, <2>4, <2>5, <2>8
    <3>3. ASSUME NEW g \in Gaps, r.opened <= g, g <= t
          PROVE  NextOf(loaded.vectors, g) \in r.due /\ NextOf(loaded.vectors, g) > t - 1
      <4>1. CASE g = t
          BY <3>2, <4>1 DEF n
      <4>2. CASE g # t
        <5>1. NextOf(loaded.vectors, g) \in p.due
            BY <1>2, <1>4, <2>4, <2>8, <3>3, <4>2
        <5> QED BY <1>0, <1>1, <2>3, <2>4, <5>1
      <4> QED BY <4>1, <4>2
    <3> QED BY <3>1, <3>3
  <2>9. FillsObserved(r.fills)
      BY <2>4 DEF Good
  <2> QED BY <2>1, <2>4, <2>6, <2>7, <2>8, <2>9 DEF Detected, Owing
<1> QED BY <1>5, <1>6

(* A sale that is owed happens.                                             *)
LEMMA LiquidateSound ==
    ASSUME MarketKnown, NEW p, NEW t \in Nat, Detected(p, t)
    PROVE  Sold(Liquidate(p, t), t)
<1>0. p \in PathStates /\ Gaps \in SUBSET Nat /\ p.due \in SUBSET Nat
    BY GapsKnown DEF Detected, PathStates
<1>1. \A v \in p.due : /\ v \in loaded.vectors /\ v \in Nat /\ span[1] <= v /\ v <= Terminal
                       /\ v >= t
    BY DEF Detected, DueAhead
<1>2. CASE t \notin p.due
  <2>1. Liquidate(p, t) = p
      BY <1>2 DEF Liquidate
  <2>2. \A v \in p.due : v > t
      BY <1>1, <1>2
  <2>3. DueAhead(p.due, Ahead(t))
      BY <1>1, <2>2 DEF DueAhead, Ahead
  <2>4. Owing(p, t, t)
      BY <2>2 DEF Detected, Owing
  <2> QED BY <2>1, <2>3, <2>4 DEF Detected, Sold
<1>3. CASE t \in p.due
  <2> DEFINE left == p.due \ {t}
             q == [p EXCEPT !.opened = NoMoment]
             r == [q EXCEPT !.due = left]
  <2>1. Liquidate(p, t) = r
      BY <1>1, <1>3 DEF Liquidate
  <2>2. left \in SUBSET Nat /\ NoMoment \in Times
      BY <1>0 DEF Times
  <2> HIDE DEF left
  <2>3. /\ q \in PathStates /\ q.opened = NoMoment /\ q.due = p.due /\ q.trigger = p.trigger
        /\ q.fills = p.fills /\ q.fate = p.fate
    <3> HIDE DEF Times, Fates
    <3> QED BY <1>0, <2>2 DEF PathStates
  <2> HIDE DEF q
  <2>4. /\ r \in PathStates /\ r.opened = NoMoment /\ r.due = left /\ r.trigger = p.trigger
        /\ r.fills = p.fills /\ r.fate = p.fate
    <3> HIDE DEF Times, Fates
    <3> QED BY <2>2, <2>3 DEF PathStates
  <2> HIDE DEF r
  <2>5. DueAhead(r.due, Ahead(t))
      BY <1>1, <2>4 DEF DueAhead, Ahead, left
  <2> QED BY <2>1, <2>4, <2>5 DEF Detected, Sold, Owing
<1> QED BY <1>2, <1>3

(* A planned fill only happens on a target no detection has invalidated.    *)
LEMMA ExecuteSound ==
    ASSUME MarketKnown, NEW p, NEW t \in Nat, Sold(p, t), span[1] <= t, t < Terminal
    PROVE  Good(Execute(p, t), t)
<1> DEFINE due == {f \in loaded.planned : f.time = t}
           f == CHOOSE x \in due : TRUE
<1>0. /\ p \in PathStates /\ Gaps \in SUBSET Nat /\ p.due \in SUBSET Nat /\ Terminal \in Nat
      /\ span[1] \in Nat /\ t \in Times
    BY GapsKnown, TerminalKnown DEF Sold, PathStates, MarketKnown, Times
<1>1. After(t) \subseteq NotBefore(t)
    BY DEF After, NotBefore, MarketKnown, PlanFacts
<1>2. p.fate = "running" /\ p.opened # NoMoment => p.opened <= t /\ t < Terminal
    BY DEF Sold
<1>3. Covered(p.trigger, t, After(t))
    BY <1>1 DEF Sold, Covered
<1>4. Good(p, t)
    BY <1>2, <1>3 DEF Sold, Good
<1>5. CASE due = {}
  <2>1. Execute(p, t) = p
      BY <1>5 DEF Execute
  <2> QED BY <1>4, <2>1
<1>6. CASE due # {}
  <2>1. f \in due
      BY <1>6
  <2>2. due = {f}
      BY <2>1 DEF MarketKnown, PlanFacts
  <2>3. Cardinality(due) = 1
      BY <2>2, FS_Singleton
  <2>4. ~(Cardinality(due) > 1)
      BY <2>3
  <2> DEFINE drop == p.trigger # NoMoment /\ f.signal <= p.trigger
             keep == role = "benchmark" /\ p.opened # NoMoment
             sale == SellAfter(p, t, "unpriceable_fill")
             late == [sale EXCEPT !.trigger = t]
             record == [time |-> t, signal |-> f.signal]
             all == p.fills \union {record}
             fresh == [p EXCEPT !.trigger = NoMoment]
             held == [fresh EXCEPT !.opened = t]
             made == [held EXCEPT !.fills = all]
  <2>5. Execute(p, t) = IF t \notin loaded.vectors THEN late
                        ELSE IF drop THEN p ELSE IF keep THEN p
                        ELSE [p EXCEPT !.trigger = NoMoment, !.opened = t, !.fills = all]
      BY <1>6, <2>4 DEF Execute
  <2>6. [p EXCEPT !.trigger = NoMoment, !.opened = t, !.fills = all] = made
    <3> HIDE DEF all
    <3> QED BY <1>0 DEF PathStates
  <2>7. /\ f \in loaded.planned /\ f.time = t /\ f.signal \in Nat /\ f.signal <= t
        /\ \A g \in After(t) : f.signal < g.signal /\ g.signal \in Nat
        /\ f \in NotBefore(t)
    <3>1. f \in loaded.planned /\ f.time = t
        BY <2>1
    <3> HIDE DEF f, due
    <3> QED BY <3>1 DEF MarketKnown, PlanFacts, After, NotBefore
  <2> HIDE DEF f, due
  <2>8. CASE t \notin loaded.vectors
    <3> DEFINE n == NextOf(loaded.vectors, t)
    <3>1. "unpriceable_fill" \in Fates \ {"running"}
        BY DEF Fates
    <3>2. /\ sale \in PathStates /\ sale.opened = p.opened /\ sale.fills = p.fills
          /\ (sale.fate = "running" => p.fate = "running")
          /\ p.due \subseteq sale.due /\ sale.due \subseteq p.due \union {n}
          /\ n \in sale.due \ p.due => n \in loaded.vectors /\ n > t /\ n <= Terminal
        BY <1>0, <3>1, SellAfterFields
    <3> HIDE DEF n, sale
    <3>3. /\ late \in PathStates /\ late.opened = p.opened /\ late.due = sale.due
          /\ late.trigger = t /\ late.fills = p.fills /\ late.fate = sale.fate
      <4> HIDE DEF Times, Fates
      <4> QED BY <1>0, <3>2 DEF PathStates
    <3>4. sale.due \in SUBSET Nat
        BY <3>2 DEF PathStates
    <3> HIDE DEF late
    <3>5. DueAhead(late.due, Ahead(t))
      <4> SUFFICES ASSUME NEW v \in sale.due
                   PROVE  /\ v \in loaded.vectors /\ span[1] <= v /\ v <= Terminal
                          /\ v \in Ahead(t)
          BY <3>3 DEF DueAhead
      <4>1. CASE v \in p.due
          BY <4>1 DEF Sold, DueAhead
      <4>2. CASE v \notin p.due
        <5>1. v = n /\ v \in Nat
            BY <3>2, <3>4, <4>2
        <5> QED BY <1>0, <3>2, <4>2, <5>1 DEF Ahead
      <4> QED BY <4>1, <4>2
    <3>6. Covered(late.trigger, t, After(t))
        BY <1>0, <3>3 DEF Covered, NoMoment
    <3>7. Owing(late, t, t)
        BY <3>2, <3>3 DEF Sold, Owing
    <3>8. late.fate = "running" /\ late.opened # NoMoment => late.opened <= t /\ t < Terminal
        BY <1>2, <3>2, <3>3
    <3>9. FillsObserved(late.fills)
        BY <3>3 DEF Sold
    <3>10. Execute(p, t) = late
        BY <2>5, <2>8
    <3> QED BY <3>3, <3>5, <3>6, <3>7, <3>8, <3>9, <3>10 DEF Good
  <2>9. CASE t \in loaded.vectors /\ (drop \/ keep)
    <3>1. Execute(p, t) = p
      <4> HIDE DEF drop, keep, made, late
      <4> QED BY <2>5, <2>9
    <3> QED BY <1>4, <3>1
  <2>10. CASE t \in loaded.vectors /\ ~drop /\ ~keep
    <3>1. Execute(p, t) = made
      <4> HIDE DEF drop, keep, made, late
      <4> QED BY <2>5, <2>6, <2>10
    <3>2. p.trigger = NoMoment \/ f.signal > p.trigger
        BY <1>0, <2>7, <2>10 DEF PathStates, Times, NoMoment
    <3>3. t \notin Gaps
        BY <2>7, <3>2, <1>0 DEF Sold, NoMoment
    <3>4. record \in [time : Nat, signal : Nat] /\ record.time = t /\ record.signal = f.signal
        BY <2>7
    <3>5. all \in SUBSET [time : Nat, signal : Nat] /\ NoMoment \in Times
      <4> HIDE DEF record
      <4> QED BY <1>0, <3>4 DEF PathStates, Times
    <3>6. /\ made \in PathStates /\ made.opened = t /\ made.due = p.due
          /\ made.trigger = NoMoment /\ made.fills = all /\ made.fate = p.fate
      <4> HIDE DEF Times, Fates, all
      <4>1. /\ fresh \in PathStates /\ fresh.opened = p.opened /\ fresh.due = p.due
            /\ fresh.trigger = NoMoment /\ fresh.fills = p.fills /\ fresh.fate = p.fate
          BY <1>0, <3>5 DEF PathStates
      <4> HIDE DEF fresh
      <4>2. /\ held \in PathStates /\ held.opened = t /\ held.due = p.due
            /\ held.trigger = NoMoment /\ held.fills = p.fills /\ held.fate = p.fate
          BY <1>0, <4>1 DEF PathStates
      <4> HIDE DEF held
      <4> QED BY <3>5, <4>2 DEF PathStates
    <3> HIDE DEF made
    <3>7. \A g \in Gaps : g <= t => f.signal > g /\ \A h \in After(t) : h.signal > g
      <4> SUFFICES ASSUME NEW g \in Gaps, g <= t
                   PROVE  f.signal > g /\ \A h \in After(t) : h.signal > g
          OBVIOUS
      <4>1. (p.trigger # NoMoment /\ g <= p.trigger) \/ \A h \in NotBefore(t) : h.signal > g
          BY DEF Sold, Covered
      <4>2. f.signal > g
          BY <1>0, <2>7, <3>2, <4>1 DEF PathStates, Times
      <4> QED BY <1>0, <2>7, <4>2
    <3>8. FillsObserved(made.fills)
      <4> SUFFICES ASSUME NEW g \in Gaps
                   PROVE  ~(record.signal <= g /\ g <= record.time)
          BY <3>6 DEF Sold, FillsObserved, all
      <4> QED BY <1>0, <2>7, <3>4, <3>7
    <3>9. Covered(made.trigger, t, After(t))
        BY <3>6, <3>7 DEF Covered
    <3>10. Owing(made, t, t)
        BY <1>0, <3>3, <3>6 DEF Owing
    <3>11. DueAhead(made.due, Ahead(t))
        BY <3>6 DEF Sold
    <3>12. made.opened <= t /\ t < Terminal
        BY <3>6
    <3> QED BY <3>1, <3>6, <3>8, <3>9, <3>10, <3>11, <3>12 DEF Good
  <2> QED BY <2>8, <2>9, <2>10
<1> QED BY <1>5, <1>6

(* At its terminal minute the path is cash, or it is refused.               *)
LEMMA LiquidateTerminalSound ==
    ASSUME MarketKnown, NEW p, NEW t, t = Terminal, Detected(p, t)
    PROVE  Good(LiquidateTerminal(p, t), t)
<1> DEFINE cash == [p EXCEPT !.opened = NoMoment]
           q == LiquidateTerminal(p, t)
<1>0. p \in PathStates /\ t \in Nat /\ NoMoment \in Times
    BY TerminalKnown DEF Detected, Times
<1>1. /\ cash \in PathStates /\ cash.opened = NoMoment /\ cash.due = p.due
      /\ cash.trigger = p.trigger /\ cash.fills = p.fills
  <2> HIDE DEF Times, Fates
  <2> QED BY <1>0 DEF PathStates
<1>2. "missing_terminal_vector" \in Fates \ {"running"}
    BY DEF Fates
<1>3. /\ q \in PathStates /\ q.due = p.due /\ q.trigger = p.trigger /\ q.fills = p.fills
      /\ (q.fate = "running" => q.opened = NoMoment)
  <2> HIDE DEF cash
  <2> QED BY <1>0, <1>1, <1>2, RuinedFields DEF LiquidateTerminal, cash
<1> HIDE DEF q
<1>4. Covered(q.trigger, t, After(t))
  <2>1. After(t) \subseteq NotBefore(t)
      BY <1>0 DEF After, NotBefore, MarketKnown, PlanFacts
  <2> QED BY <1>3, <2>1 DEF Detected, Covered
<1>5. DueAhead(q.due, Ahead(t))
  <2>1. \A v \in p.due : v \in Nat
      BY <1>0 DEF PathStates
  <2> QED BY <1>0, <1>3, <2>1 DEF Detected, DueAhead, Ahead
<1>6. FillsObserved(q.fills)
    BY <1>3 DEF Detected
<1> QED BY <1>3, <1>4, <1>5, <1>6 DEF Good, Owing, q

(* An endpoint without a vector refuses the path and changes no more.       *)
LEMMA MarkEndpointSound ==
    ASSUME MarketKnown, NEW p, NEW t, Good(p, t)
    PROVE  Good(MarkEndpoint(p, t), t)
<1> DEFINE q == Ruined(p, "unpriceable_endpoint")
<1>1. "unpriceable_endpoint" \in Fates \ {"running"} /\ p \in PathStates
    BY DEF Fates, Good
<1>2. /\ q \in PathStates /\ q.opened = p.opened /\ q.due = p.due
      /\ q.trigger = p.trigger /\ q.fills = p.fills /\ q.fate # "running"
    BY <1>1, RuinedFields
<1> HIDE DEF q
<1>3. Good(q, t)
    BY <1>2 DEF Good, Owing
<1>4. MarkEndpoint(p, t) = p \/ MarkEndpoint(p, t) = q
    BY DEF MarkEndpoint, q
<1> QED BY <1>3, <1>4

(* ------------------------------ the market ------------------------------ *)
(* Enough recovery makes every estimation window contiguous.                *)
LEMMA WindowsContiguous ==
    ASSUME NEW rows, NEW kind, NEW d \in SignalDays(rows, kind)
    PROVE  WindowContiguous(rows, d)
<1> DEFINE run == RecoveryRun(rows)
           Bad == {k \in 0 .. Lookback : d - k \notin Dates \/ run[d - k] # run[d] - k}
<1>0. /\ Lookback \in Nat /\ RunRequired \in Nat /\ RunRequired > Lookback
      /\ MarketDays \in Nat /\ Dates = 0 .. MarketDays - 1 /\ d \in Dates /\ d \in Nat
      /\ run[d] >= RunRequired
    BY MinuteMarketAssumption DEF SignalDays, Dates
<1>1. \A e \in Dates : /\ run[e] \in Nat
                       /\ run[e] > 0 => SessionComplete(rows, e)
                       /\ run[e] > 1 => e - 1 \in Dates /\ run[e] = run[e - 1] + 1
    BY RecoveryRunEquation
<1> HIDE DEF run
<1>2. Bad = {}
  <2> SUFFICES ASSUME Bad # {} PROVE FALSE
      OBVIOUS
  <2>1. PICK k \in Bad : \A j \in Bad : k <= j
    <3>1. Bad \in SUBSET Nat
        BY <1>0
    <3> HIDE DEF Bad
    <3> QED BY <3>1, LeastNatural
  <2>2. k \in 0 .. Lookback /\ (d - k \notin Dates \/ run[d - k] # run[d] - k)
      OBVIOUS
  <2>3. k # 0
      BY <1>0, <1>1, <2>2
  <2>4. k - 1 \in 0 .. Lookback /\ k - 1 \notin Bad
      BY <1>0, <2>1, <2>2, <2>3
  <2>5. d - (k - 1) \in Dates /\ run[d - (k - 1)] = run[d] - (k - 1)
      BY <2>4
  <2>6. run[d - (k - 1)] > 1
      BY <1>0, <1>1, <2>2, <2>3, <2>5
  <2>7. d - (k - 1) - 1 \in Dates /\ run[d - (k - 1)] = run[d - (k - 1) - 1] + 1
      BY <1>1, <2>5, <2>6
  <2>8. d - (k - 1) - 1 = d - k
      BY <1>0, <2>2
  <2>9. d - k \in Dates /\ run[d - (k - 1)] = run[d - k] + 1
      BY <2>7, <2>8
  <2>10. run[d - k] \in Nat /\ run[d] \in Nat /\ k \in Nat
      BY <1>0, <1>1, <2>2, <2>9
  <2> HIDE DEF Bad
  <2>11. run[d - k] + 1 = run[d] - (k - 1)
      BY <2>5, <2>9
  <2>12. run[d - k] = run[d] - k
      BY <2>10, <2>11
  <2> QED BY <2>2, <2>9, <2>12
<1>3. \A k \in 0 .. Lookback : d - k \in Dates /\ SessionComplete(rows, d - k)
  <2> SUFFICES ASSUME NEW k \in 0 .. Lookback
               PROVE  d - k \in Dates /\ SessionComplete(rows, d - k)
      OBVIOUS
  <2>1. d - k \in Dates /\ run[d - k] = run[d] - k
      BY <1>2
  <2> QED BY <1>0, <1>1, <2>1
<1>4. ASSUME NEW e \in d - Lookback + 1 .. d PROVE PairedReturn(rows, e)
  <2>1. d - e \in 0 .. Lookback /\ d - (e - 1) \in 0 .. Lookback /\ e \in Int
        /\ d - (d - e) = e /\ d - (d - (e - 1)) = e - 1
      BY <1>0
  <2>2. SessionComplete(rows, e) /\ SessionComplete(rows, e - 1) /\ e - 1 \in Dates
      BY <1>3, <2>1
  <2> QED BY <1>0, <2>1, <2>2 DEF PairedReturn
<1> QED BY <1>4 DEF WindowContiguous

(* A detection is a moment, the one the missing minute is noticed at.       *)
LEMMA GapTimesKnown ==
    ASSUME NEW rows
    PROVE  Vectors(rows) \in SUBSET Nat /\ GapTimes(rows) \in SUBSET Nat
<1>1. Vectors(rows) \in SUBSET Nat /\ Opens \in SUBSET Nat
    BY DEF Vectors, Opens
<1>2. ASSUME NEW m \in Opens PROVE GapDetection(rows, m) \in Nat
  <2>1. NextOf(Vectors(rows), m) # NoMoment => NextOf(Vectors(rows), m) \in Nat
      BY <1>1, NextOfLater
  <2>2. m \in Nat /\ Minutes \in Nat /\ Minutes > 0
      BY <1>1, MinuteMarketAssumption
  <2>3. m \div Minutes \in Nat
      BY <2>2
  <2>4. (m \div Minutes + 1) * Minutes \in Nat
    <3> DEFINE a == m \div Minutes
    <3>1. a \in Nat
        BY <2>3
    <3> HIDE DEF a
    <3>2. (a + 1) * Minutes \in Nat
        BY <2>2, <3>1
    <3> QED BY <3>2 DEF a
  <2> QED BY <2>1, <2>4 DEF GapDetection, DateOf
<1>3. GapTimes(rows) \in SUBSET Nat
  <2>1. \A g \in GapTimes(rows) : \E m \in Opens : g = GapDetection(rows, m)
      BY DEF GapTimes
  <2> QED BY <1>2, <2>1
<1> QED BY <1>1, <1>3

(* What build_trial_targets does not refuse is a plan.                      *)
LEMMA PlanKnown ==
    ASSUME NEW rows, NEW kind, NEW window \in Nat \X Nat, window[1] < window[2],
           Refusal(rows, kind) = "running"
    PROVE  /\ PlanFacts(PlannedFills(rows, kind, window))
           /\ \A f \in PlannedFills(rows, kind, window) :
                 window[1] <= f.time /\ f.time < TerminalTimestamp(window[2])
<1> DEFINE S == SignalDays(rows, kind)
           C == {e \in Dates : SessionComplete(rows, e)}
           late == kind = "delayed"
           T == [d \in S |-> IF late THEN NextComplete(rows, d) ELSE d]
           plan == PlannedFills(rows, kind, window)
<1>1. S \in SUBSET Dates /\ S \subseteq C /\ C \in SUBSET Dates /\ Dates \in SUBSET Nat
    BY MinuteMarketAssumption DEF SignalDays, Dates
<1>2. late => \A d \in S : NextComplete(rows, d) # NoMoment
    BY DEF Refusal
<1>3. \A d \in Dates : NextComplete(rows, d) = NextOf(C, d)
    BY DEF NextComplete
<1> HIDE DEF S, C
<1>4. \A d \in S : /\ NextOf(C, d) # NoMoment => NextOf(C, d) \in C /\ d < NextOf(C, d)
                   /\ \A e \in C : d < e /\ NextOf(C, e) # NoMoment => NextOf(C, d) < NextOf(C, e)
    BY <1>1, NextGoesForward
<1>5. T \in [S -> Int] /\ \A d \in S : d <= T[d]
  <2> SUFFICES ASSUME NEW d \in S PROVE T[d] \in Int /\ d <= T[d]
      OBVIOUS
  <2>1. d \in Dates /\ d \in Nat
      BY <1>1
  <2>2. CASE late
    <3>1. T[d] = NextOf(C, d) /\ NextOf(C, d) # NoMoment
        BY <1>2, <1>3, <2>1, <2>2
    <3>2. NextOf(C, d) \in C /\ d < NextOf(C, d)
        BY <1>4, <3>1
    <3>3. NextOf(C, d) \in Nat
        BY <1>1, <3>2
    <3> QED BY <2>1, <3>1, <3>2, <3>3
  <2>3. CASE ~late
      BY <2>1, <2>3
  <2> QED BY <2>2, <2>3
<1>6. \A d, e \in S : d < e => T[d] < T[e]
  <2> SUFFICES ASSUME NEW d \in S, NEW e \in S, d < e PROVE T[d] < T[e]
      OBVIOUS
  <2>1. CASE late
    <3>1. T[d] = NextOf(C, d) /\ T[e] = NextOf(C, e) /\ NextOf(C, e) # NoMoment /\ e \in C
        BY <1>1, <1>2, <1>3, <2>1
    <3> QED BY <1>4, <3>1
  <2>2. CASE ~late
    <3>1. T[d] = d /\ T[e] = e
        BY <2>2
    <3> QED BY <3>1
  <2> QED BY <2>1, <2>2
<1>7. \A d \in S : TargetTime(rows, kind, d) = ExpectedOpen(T[d])
    BY DEF TargetTime
<1> HIDE DEF T
<1>8. plan \subseteq {[time |-> ExpectedOpen(T[d]), signal |-> (d + 1) * Minutes] : d \in S}
    BY <1>7 DEF PlannedFills, S
<1> HIDE DEF plan
<1>9. PlanFacts(plan)
    BY <1>1, <1>5, <1>6, <1>8, PlanOfSessions
<1>10. \A f \in plan : window[1] <= f.time /\ f.time < TerminalTimestamp(window[2])
    BY DEF plan, PlannedFills
<1> QED BY <1>9, <1>10 DEF plan

(* ---------------------------- the invariant ----------------------------- *)
ParityInv ==
    /\ fate \in Fates \union {"completed", "no_delayed_session"}
    /\ FillsObserved(fills) /\ (fate = "completed" => safetyDue \subseteq {Terminal})
    /\ fate = "running" => MarketKnown /\ clock \in Times /\ Good(State, clock)

(* A path begins with nothing to be sold.                                   *)
LEMMA ParityInvInit ==
    ASSUME ParityInit([Pair -> SUBSET Opens], {w \in Nat \X Nat : w[1] < w[2]})
    PROVE  ParityInv
<1>1. PICK rows : /\ loaded = [vectors |-> Vectors(rows), gaps |-> GapTimes(rows),
                               planned |-> PlannedFills(rows, role, span)]
                  /\ fate = Refusal(rows, role)
    BY DEF ParityInit
<1>2. /\ span \in Nat \X Nat /\ span[1] < span[2] /\ clock = NoMoment /\ opened = NoMoment
      /\ safetyDue = {} /\ trigger = NoMoment /\ fills = {}
    BY DEF ParityInit
<1>3. fate \in {"running", "no_delayed_session"}
    BY <1>1, WindowsContiguous DEF Refusal
<1>4. ASSUME fate = "running" PROVE MarketKnown /\ Good(State, clock)
  <2>1. /\ loaded.vectors = Vectors(rows) /\ loaded.gaps = GapTimes(rows)
        /\ loaded.planned = PlannedFills(rows, role, span)
      BY <1>1
  <2>2. MarketKnown
      BY <1>1, <1>2, <1>4, <2>1, GapTimesKnown, PlanKnown DEF MarketKnown, Terminal
  <2>3. Gaps \in SUBSET Nat
      BY <2>2, GapsKnown
  <2>4. /\ State.opened = NoMoment /\ State.due = {} /\ State.trigger = NoMoment
        /\ State.fills = {} /\ State.fate = "running"
      BY <1>2 DEF State
  <2>5. State \in PathStates
    <3>1. "running" \in Fates /\ NoMoment \in Times
        BY DEF Fates, Times
    <3> HIDE DEF Fates, Times
    <3> QED BY <1>2, <3>1 DEF State, PathStates
  <2>6. Covered(State.trigger, clock, After(clock))
      BY <1>2, <2>3 DEF Covered, NoMoment
  <2> QED BY <2>2, <2>4, <2>5, <2>6 DEF Good, Owing, FillsObserved, DueAhead
<1> QED BY <1>2, <1>3, <1>4 DEF ParityInv, FillsObserved, Fates, Times

(* The next event is the nearest moment.                                    *)
LEMMA EventNearest ==
    ASSUME MarketKnown, clock \in Times, {e \in Events : e > clock} # {}
    PROVE  Nearest(clock, SmallestOf({e \in Events : e > clock}))
<1> DEFINE rest == {e \in Events : e > clock}
           t == SmallestOf(rest)
<1>0. /\ loaded.vectors \in SUBSET Nat /\ loaded.gaps \in SUBSET Nat /\ span[1] \in Nat
      /\ span[2] \in Nat /\ span[1] < span[2] /\ clock \in Int /\ Terminal \in Nat
      /\ span[1] <= Terminal /\ \A f \in loaded.planned : f.time \in Nat
    BY TerminalKnown DEF MarketKnown, PlanFacts, Times, NoMoment
<1>1. \A e \in Events : e \in Nat /\ span[1] <= e /\ e <= Terminal
  <2>1. \A e \in EndpointTimes(span[1], span[2]) : e \in Nat /\ span[1] <= e /\ e <= Terminal
    <3> SUFFICES ASSUME NEW e \in EndpointTimes(span[1], span[2])
                 PROVE  e \in Nat /\ span[1] <= e /\ e <= Terminal
        OBVIOUS
    <3>1. PICK d \in Dates : e = d * Minutes + Minutes - 1
        BY DEF EndpointTimes
    <3>2. d * Minutes \in Int /\ Minutes \in Int
        BY MinuteMarketAssumption DEF Dates
    <3>3. e \in Int /\ span[1] <= e /\ e < span[2]
        BY <3>1, <3>2 DEF EndpointTimes
    <3> QED BY <1>0, <3>3 DEF Terminal, TerminalTimestamp
  <2>2. \A f \in loaded.planned : f.time \in Nat /\ span[1] <= f.time /\ f.time <= Terminal
      BY <1>0 DEF MarketKnown
  <2> QED BY <1>0, <2>1, <2>2 DEF Events, Gaps, WithinPath
<1>2. rest \in SUBSET Nat
    BY <1>1
<1>3. t \in rest /\ \A e \in rest : t <= e
  <2>1. rest # {}
      OBVIOUS
  <2> HIDE DEF rest
  <2>2. \E x \in rest : \A y \in rest : x <= y
      BY <1>2, <2>1, LeastNatural
  <2> QED BY <2>2, Zenon DEF SmallestOf
<1> HIDE DEF t
<1>4. t \in Nat /\ clock < t /\ span[1] <= t /\ t <= Terminal
    BY <1>1, <1>3
<1>5. \A g \in Gaps : g > clock => g >= t
    BY <1>1, <1>3 DEF Events
<1>6. \A v \in loaded.vectors : span[1] <= v /\ v <= Terminal /\ v > clock => v >= t
    BY <1>1, <1>3 DEF Events, WithinPath
<1>7. \A f \in loaded.planned : f.time > clock => f.time >= t
    BY <1>1, <1>3 DEF Events
<1> QED BY <1>0, <1>4, <1>5, <1>6, <1>7 DEF Nearest, t

(* One event keeps the path good.                                           *)
LEMMA EventSound ==
    ASSUME ParityInv, SimulateEvent
    PROVE  ParityInv'
<1> DEFINE rest == {e \in Events : e > clock}
           t == SmallestOf(rest)
           detected == Detect(State, t)
           traded == IF t = Terminal THEN LiquidateTerminal(detected, t)
                                     ELSE Execute(Liquidate(detected, t), t)
           p == MarkEndpoint(traded, t)
<1>1. /\ fate = "running" /\ rest # {}
      /\ clock' = t /\ opened' = p.opened /\ safetyDue' = p.due
      /\ trigger' = p.trigger /\ fills' = p.fills /\ fate' = p.fate
      /\ loaded' = loaded /\ role' = role /\ span' = span
    BY DEF SimulateEvent
<1>2. MarketKnown /\ clock \in Times /\ Good(State, clock) /\ State.fate = "running"
    BY <1>1 DEF ParityInv, State
<1>3. Nearest(clock, t)
    BY <1>1, <1>2, EventNearest
<1>4. t \in Nat /\ span[1] <= t /\ t <= Terminal /\ Terminal \in Nat
    BY <1>2, <1>3, TerminalKnown DEF Nearest
<1> HIDE DEF rest, t
<1>5. Detected(detected, t)
    BY <1>2, <1>3, DetectSound
<1> HIDE DEF detected
<1>6. Good(traded, t)
  <2>1. CASE t = Terminal
      BY <1>2, <1>5, <2>1, LiquidateTerminalSound
  <2>2. CASE t # Terminal
    <3>1. Sold(Liquidate(detected, t), t)
        BY <1>2, <1>4, <1>5, LiquidateSound
    <3>2. t < Terminal
        BY <1>4, <2>2
    <3> QED BY <1>2, <1>4, <2>2, <3>1, <3>2, ExecuteSound
  <2> QED BY <2>1, <2>2
<1> HIDE DEF traded
<1>7. Good(p, t)
    BY <1>2, <1>6, MarkEndpointSound
<1> HIDE DEF p
<1>8. p \in PathStates /\ FillsObserved(p.fills)
    BY <1>7 DEF Good
<1>9. Gaps' = Gaps /\ Terminal' = Terminal /\ MarketKnown'
    BY <1>1, <1>2 DEF Gaps, WithinPath, Terminal, MarketKnown
<1>10. FillsObserved(fills)'
    BY <1>1, <1>8, <1>9 DEF FillsObserved
<1>11. fate' \in Fates
    BY <1>1, <1>8 DEF PathStates
<1>12. ASSUME fate' = "running" PROVE Good(State, clock)'
  <2>1. /\ State'.opened = p.opened /\ State'.due = p.due /\ State'.trigger = p.trigger
        /\ State'.fills = p.fills /\ State'.fate = p.fate
      BY <1>1, <1>12 DEF State
  <2>2. State' \in PathStates
    <3>1. "running" \in Fates
        BY DEF Fates
    <3> HIDE DEF Fates, Times
    <3> QED BY <1>1, <1>8, <3>1 DEF State, PathStates
  <2>3. DueAhead(State.due, Ahead(clock))'
      BY <1>1, <1>7, <1>9, <2>1 DEF Good, DueAhead, Ahead
  <2>4. Covered(State.trigger, clock, After(clock))'
      BY <1>1, <1>7, <1>9, <2>1 DEF Good, Covered, After
  <2>5. Owing(State, clock, clock)'
      BY <1>1, <1>7, <1>9, <2>1 DEF Good, Owing
  <2>6. State'.opened # NoMoment => State'.opened <= clock' /\ clock' < Terminal'
      BY <1>1, <1>7, <1>9, <1>12, <2>1 DEF Good
  <2>7. FillsObserved(State.fills)'
      BY <1>8, <1>9, <2>1 DEF FillsObserved
  <2> QED BY <2>2, <2>3, <2>4, <2>5, <2>6, <2>7 DEF Good
<1> QED BY <1>1, <1>4, <1>9, <1>10, <1>11, <1>12 DEF ParityInv, Fates, Times

(* A path that lasts ends in cash and owes nothing it could have paid.      *)
LEMMA CloseSound ==
    ASSUME ParityInv, ClosePath
    PROVE  ParityInv'
<1>1. /\ fate = "running" /\ \A e \in Events : e <= clock
      /\ UNCHANGED <<loaded, role, span, clock, opened, safetyDue, trigger, fills>>
      /\ fate' = IF opened = NoMoment THEN "completed" ELSE "not_cash"
    BY DEF ClosePath
<1>2. MarketKnown /\ clock \in Times /\ Good(State, clock)
    BY <1>1 DEF ParityInv
<1>3. Terminal \in Nat /\ clock >= Terminal /\ clock \in Nat
    BY <1>1, <1>2, TerminalKnown DEF Events, Times, NoMoment
<1>4. State.opened = opened /\ State.due = safetyDue /\ State.fate = "running"
    BY DEF State
<1>5. opened = NoMoment
    BY <1>2, <1>3, <1>4 DEF Good
<1>6. safetyDue \subseteq {Terminal}
    BY <1>2, <1>3, <1>4 DEF Good, DueAhead, Ahead
<1>7. Gaps' = Gaps /\ Terminal' = Terminal
    BY <1>1 DEF Gaps, WithinPath, Terminal
<1> QED BY <1>1, <1>5, <1>6, <1>7 DEF ParityInv, FillsObserved

(* The invariant says what is observed of a path.                           *)
LEMMA ParityInvObserved == ParityInv => ParityObserved
<1> SUFFICES ASSUME ParityInv PROVE ParityObserved
    OBVIOUS
<1>1. ASSUME fate = "running", opened # NoMoment, NEW g \in Gaps, opened <= g
      PROVE  NextOf(loaded.vectors, g) = NoMoment \/ clock < NextOf(loaded.vectors, g)
  <2>1. MarketKnown /\ clock \in Int /\ Good(State, clock)
      BY <1>1 DEF ParityInv, Times, NoMoment
  <2>2. State.opened = opened /\ State.fate = "running"
      BY DEF State
  <2>3. g \in Nat
      BY <2>1, GapsKnown
  <2>4. CASE g <= clock
      BY <1>1, <2>1, <2>2, <2>4 DEF Good, Owing
  <2>5. CASE ~(g <= clock)
      BY <2>1, <2>3, <2>5, NextVector
  <2> QED BY <2>4, <2>5
<1>2. fate \notin {"broken_window", "safety_vector_disappeared", "shared_execution_time",
                   "not_cash"}
    BY DEF ParityInv, Fates
<1> QED BY <1>1, <1>2 DEF ParityInv, ParityObserved, FillsObserved

(* On every loss of rows, in every role and window, a path of the parity    *)
(* study sells what a detection found it holding at the next joint vector,  *)
(* trades no target signalled before a detection and ends in cash; no       *)
(* window of its estimates is broken (simulate_path, build_trial_targets).  *)
THEOREM ParityPathObserved == ParitySpec => []ParityObserved
<1>1. ParityInit([Pair -> SUBSET Opens], {w \in Nat \X Nat : w[1] < w[2]}) => ParityInv
    BY ParityInvInit
<1>2. ParityInv /\ [ParityNext]_parityVars => ParityInv'
  <2> SUFFICES ASSUME ParityInv, [ParityNext]_parityVars PROVE ParityInv'
      OBVIOUS
  <2>1. CASE SimulateEvent
      BY <2>1, EventSound
  <2>2. CASE ClosePath
      BY <2>2, CloseSound
  <2>3. CASE UNCHANGED parityVars
    <3>1. /\ loaded' = loaded /\ span' = span /\ clock' = clock /\ opened' = opened
          /\ safetyDue' = safetyDue /\ trigger' = trigger /\ fills' = fills /\ fate' = fate
        BY <2>3 DEF parityVars
    <3>2. Gaps' = Gaps /\ Terminal' = Terminal /\ State' = State /\ After(clock)' = After(clock)
        BY <3>1 DEF Gaps, WithinPath, Terminal, State, After
    <3>3. Ahead(clock)' = Ahead(clock) /\ (MarketKnown => MarketKnown')
        BY <3>1, <3>2 DEF Ahead, MarketKnown
    <3>4. Good(State, clock) => Good(State, clock)'
        BY <3>1, <3>2, <3>3 DEF Good, FillsObserved, DueAhead, Covered, Owing
    <3>5. FillsObserved(fills) => FillsObserved(fills)'
        BY <3>1, <3>2 DEF FillsObserved
    <3> QED BY <3>1, <3>2, <3>3, <3>4, <3>5 DEF ParityInv
  <2> QED BY <2>1, <2>2, <2>3 DEF ParityNext
<1>3. ParityInv => ParityObserved
    BY ParityInvObserved
<1> QED BY <1>1, <1>2, <1>3, PTL DEF ParitySpec

-----------------------------------------------------------------------------
(*****************************************************************************)
(* The managed study.  The targets of past moments are settled, each once    *)
(* (Books); a detection the position was held over owes a sale at a later vector *)
(* (Covering), and an endpoint it was held over had a price (Priced).  A missing *)
(* minute of a session that has its last one is detected within the session, so *)
(* a position over it would pass the endpoint of the next day, which is then a *)
(* vector, after the sale that was owed.                                     *)
(*****************************************************************************)

(* ------------------------------ the market ------------------------------ *)
(* The session of a minute is the one it lies in, and no other.             *)
LEMMA SessionOfMinute ==
    ASSUME NEW m \in Nat
    PROVE  /\ DateOf(m) \in Nat /\ DateOf(m) * Minutes <= m /\ m < (DateOf(m) + 1) * Minutes
           /\ \A d \in Int : d * Minutes <= m /\ m < (d + 1) * Minutes => DateOf(m) = d
           /\ m < MarketEnd => DateOf(m) \in Dates
<1> DEFINE q == m \div Minutes
<1>0. Minutes \in Nat /\ Minutes > 0 /\ MarketDays \in Nat
    BY MinuteMarketAssumption
<1>1. q \in Nat
    BY <1>0
<1>2. q * Minutes <= m
    BY <1>0
<1>3. m < (q + 1) * Minutes
    BY <1>0
<1> HIDE DEF q
<1>4. ASSUME NEW d \in Int, d * Minutes <= m, m < (d + 1) * Minutes PROVE q = d
  <2>1. q \in Int /\ q * Minutes \in Int /\ d * Minutes \in Int
        /\ (q + 1) * Minutes = q * Minutes + Minutes /\ (d + 1) * Minutes = d * Minutes + Minutes
      BY <1>1, SessionBounds
  <2>2. CASE q < d
    <3>1. q * Minutes + Minutes <= d * Minutes
        BY <2>1, <2>2, SessionBounds
    <3> QED BY <1>0, <1>3, <1>4, <2>1, <3>1
  <2>3. CASE d < q
    <3>1. d * Minutes + Minutes <= q * Minutes
        BY <2>1, <2>3, SessionBounds
    <3> QED BY <1>0, <1>2, <1>4, <2>1, <3>1
  <2> QED BY <2>1, <2>2, <2>3
<1>5. ASSUME m < MarketEnd PROVE q \in Dates
  <2>1. q * Minutes \in Int /\ MarketDays * Minutes \in Int
      BY <1>1, <1>0, SessionBounds
  <2>2. ~(MarketDays <= q)
    <3> SUFFICES ASSUME MarketDays <= q PROVE FALSE
        OBVIOUS
    <3>1. CASE MarketDays = q
        BY <1>2, <1>5, <2>1, <3>1 DEF MarketEnd
    <3>2. CASE MarketDays < q
      <4>1. MarketDays * Minutes + Minutes <= q * Minutes
          BY <1>0, <1>1, <3>2, SessionBounds
      <4> QED BY <1>0, <1>2, <1>5, <2>1, <4>1 DEF MarketEnd
    <3> QED BY <1>0, <1>1, <3>1, <3>2
  <2> QED BY <1>0, <1>1, <2>2 DEF Dates
<1> QED BY <1>1, <1>2, <1>3, <1>4, <1>5 DEF DateOf, q

(* A finite set of naturals has an element of every rank, which is what     *)
(* NthRow chooses.                                                          *)
LEMMA NthRowExists ==
    ASSUME NEW S \in SUBSET Nat, IsFiniteSet(S), NEW n \in 1 .. Cardinality(S)
    PROVE  NthRow(S, n) \in S
<1> DEFINE below(t) == {u \in S : u < t}
           Has(k) == \E t \in S : Cardinality(below(t)) = k
           Bad == {k \in 0 .. Cardinality(S) - 1 : ~Has(k)}
<1>0. Cardinality(S) \in Nat /\ S # {}
    BY FS_CardinalityType, FS_EmptySet
<1>1. \A t \in S : IsFiniteSet(below(t)) /\ Cardinality(below(t)) \in Nat
  <2> SUFFICES ASSUME NEW t \in S PROVE IsFiniteSet(below(t)) /\ Cardinality(below(t)) \in Nat
      OBVIOUS
  <2>1. below(t) \in SUBSET S
      OBVIOUS
  <2> HIDE DEF below
  <2> QED BY <2>1, FS_Subset, FS_CardinalityType
<1>2. Has(0)
  <2>1. PICK t \in S : \A u \in S : t <= u
      BY <1>0, LeastNatural
  <2>2. below(t) = {}
    <3>1. t \in Nat /\ \A u \in S : u \in Nat
        OBVIOUS
    <3>2. \A u \in S : ~(u < t)
        BY <2>1, <3>1
    <3> QED BY <3>2
  <2> HIDE DEF below
  <2> QED BY <2>2, FS_EmptySet
<1>3. ASSUME NEW k \in Nat, Has(k), k + 1 < Cardinality(S) PROVE Has(k + 1)
  <2>1. PICK t \in S : Cardinality(below(t)) = k
      BY <1>3
  <2> DEFINE upto == below(t) \union {t}
             later == {u \in S : u > t}
  <2>2. IsFiniteSet(upto) /\ Cardinality(upto) = k + 1
    <3>1. t \notin below(t) /\ IsFiniteSet(below(t))
        BY <1>1
    <3> HIDE DEF below
    <3> QED BY <2>1, <3>1, FS_AddElement
  <2>3. later # {}
    <3> SUFFICES ASSUME later = {} PROVE FALSE
        OBVIOUS
    <3>1. \A u \in S : u \in Nat /\ t \in Nat /\ ~(u > t)
        OBVIOUS
    <3>2. \A u \in S : u < t \/ u = t
        BY <3>1
    <3>3. S = upto
        BY <3>2
    <3> QED BY <1>0, <1>3, <2>2, <3>3
  <2>4. PICK s \in later : \A u \in later : s <= u
    <3>1. later \in SUBSET Nat
        OBVIOUS
    <3> HIDE DEF later
    <3> QED BY <2>3, <3>1, LeastNatural
  <2>6. s \in S /\ s \in Nat /\ s > t /\ t \in Nat /\ \A u \in S : u \in Nat
      OBVIOUS
  <2>7. \A u \in S : u > t => s <= u
      BY <2>4
  <2>5. below(s) = upto
    <3>1. \A u \in S : u < s <=> u < t \/ u = t
        BY <2>6, <2>7
    <3> QED BY <2>6, <3>1
  <2> HIDE DEF below, upto
  <2> QED BY <2>2, <2>5, <2>6
<1> HIDE DEF Has
<1>4. Bad = {}
  <2> SUFFICES ASSUME Bad # {} PROVE FALSE
      OBVIOUS
  <2>1. Bad \in SUBSET Nat
      BY <1>0
  <2>2. PICK k \in Bad : \A j \in Bad : k <= j
    <3> HIDE DEF Bad
    <3> QED BY <2>1, LeastNatural
  <2>3. k \in Nat /\ k <= Cardinality(S) - 1 /\ ~Has(k) /\ k # 0
      BY <1>0, <1>2
  <2>4. k - 1 \in 0 .. Cardinality(S) - 1 /\ k - 1 \in Nat /\ ~(k <= k - 1)
      BY <1>0, <2>3
  <2>5. Has(k - 1)
      BY <2>2, <2>4
  <2>6. k - 1 + 1 = k /\ k < Cardinality(S)
      BY <1>0, <2>3
  <2> QED BY <1>3, <2>3, <2>4, <2>5, <2>6
<1>5. n - 1 \in 0 .. Cardinality(S) - 1
    BY <1>0
<1>6. \E t \in S : Cardinality(below(t)) = n - 1
    BY <1>4, <1>5 DEF Has
<1>7. NthRow(S, n) = CHOOSE t \in S : Cardinality(below(t)) = n - 1
    BY DEF NthRow
<1> HIDE DEF below
<1> QED BY <1>6, <1>7, Zenon

(* A recovered run ends in a complete session.                              *)
LEMMA CompleteSessionsRun ==
    ASSUME NEW have, NEW d \in Dates, CompleteSessions(have)[d] >= RunRequired
    PROVE  SessionComplete(have, d)
<1> DEFINE hi == MarketDays - 1
           Fixed == {e \in -1 .. hi : e = -1 \/ ~SessionComplete(have, e)}
           Value == [e \in -1 .. hi |-> 0]
           Before == [e \in -1 .. hi |-> e - 1]
           G(run, e) == IF e = -1 \/ ~SessionComplete(have, e) THEN 0 ELSE run[e - 1] + 1
           run == CompleteSessions(have)
<1>0. -1 \in Int /\ hi \in Int /\ -1 <= hi /\ RunRequired \in Nat /\ RunRequired > 0
      /\ Dates = 0 .. hi
    BY MinuteMarketAssumption DEF Dates
<1>1. Descends(-1, hi, Fixed, Value, Before)
    BY <1>0 DEF Descends
<1> HIDE DEF hi
<1>2. PICK r : Counts(r, -1, hi, Fixed, Value, Before)
  <2> HIDE DEF Fixed, Value, Before
  <2> QED BY <1>0, <1>1, RecursionExists
<1>3. r = [e \in -1 .. hi |-> G(r, e)]
    BY <1>2 DEF Counts
<1>4. run = CHOOSE h : h = [e \in -1 .. hi |-> G(h, e)]
    BY DEF CompleteSessions, hi
<1>5. run = [e \in -1 .. hi |-> G(run, e)]
  <2> HIDE DEF G
  <2> QED BY <1>3, <1>4, Zenon
<1> HIDE DEF run
<1>6. d \in -1 .. hi
    BY <1>0
<1>7. run[d] = G(run, d)
  <2> HIDE DEF G
  <2> QED BY <1>5, <1>6
<1>8. run[d] >= RunRequired
    BY DEF run
<1>9. ~(0 >= RunRequired)
    BY <1>0
<1> QED BY <1>7, <1>8, <1>9

(* Whichever way a gap is detected, at a moment.                            *)
LEMMA DetectionsKnown ==
    ASSUME NEW have \in [Pair -> SUBSET Opens], NEW d \in Dates
    PROVE  JointGridStatus(have, d) \in SUBSET Nat
<1> DEFINE day == RowsOn(have, d)
           rows == UNION {day[b] : b \in Pair}
<1>0. MarketEnd \in Nat /\ Opens = 0 .. MarketEnd - 1 /\ Opens \in SUBSET Nat
    BY MinuteMarketAssumption DEF MarketEnd, Opens
<1>1. \A a \in Pair : day[a] \in SUBSET Opens
    BY DEF RowsOn
<1>2. JointGridStatus(have, d) = IF SessionComplete(have, d) THEN {}
                                 ELSE IF \A a \in Pair : day[a] = {} THEN {MarketEnd}
                                 ELSE MissingDetections(day) \union AsynchronousDetections(day)
    BY DEF JointGridStatus
<1> HIDE DEF day
<1>3. MissingDetections(day) \in SUBSET Nat
  <2> DEFINE Later(m) == {t \in rows : t >= m}
             At(m) == IF Later(m) = {} THEN MarketEnd ELSE SmallestOf(Later(m)) + 1
  <2>1. \A m : Later(m) \in SUBSET Nat
      BY <1>0, <1>1
  <2>2. \A m : At(m) \in Nat
    <3> SUFFICES ASSUME NEW m PROVE At(m) \in Nat
        OBVIOUS
    <3> DEFINE L == Later(m)
    <3>1. L \in SUBSET Nat
        BY <2>1
    <3>2. At(m) = IF L = {} THEN MarketEnd ELSE SmallestOf(L) + 1
        OBVIOUS
    <3> HIDE DEF L, At, Later
    <3>3. ASSUME L # {} PROVE SmallestOf(L) \in Nat
      <4>1. \E x \in L : \A y \in L : x <= y
          BY <3>1, <3>3, LeastNatural
      <4>2. SmallestOf(L) \in L
          BY <4>1, Zenon DEF SmallestOf
      <4> QED BY <3>1, <4>2
    <3> QED BY <1>0, <3>2, <3>3
  <2>3. \A g \in MissingDetections(day) : \E m : g = At(m)
    <3> SUFFICES ASSUME NEW g \in MissingDetections(day) PROVE \E m : g = At(m)
        OBVIOUS
    <3>1. PICK a \in Pair : g \in {At(m) : m \in (UNION {MinutesOf(e) : e \in {DateOf(t) : t \in rows}})
                                                 \ day[a]}
        BY DEF MissingDetections
    <3> HIDE DEF At
    <3> QED BY <3>1
  <2> HIDE DEF At
  <2> QED BY <2>2, <2>3
<1>4. AsynchronousDetections(day) \in SUBSET Nat
  <2> DEFINE cards == {Cardinality(day[a]) : a \in Pair}
             least == SmallestOf(cards)
             differ == {n \in 1 .. least : \E a, b \in Pair : NthRow(day[a], n) # NthRow(day[b], n)}
             last == SmallestOf(differ)
             times == {NthRow(day[a], last) : a \in Pair}
  <2>1. AsynchronousDetections(day) = IF differ = {} THEN {}
                                      ELSE {(CHOOSE t \in times : \A u \in times : u <= t) + 1}
      BY DEF AsynchronousDetections
  <2>2. SUFFICES ASSUME differ # {}
                 PROVE  (CHOOSE t \in times : \A u \in times : u <= t) \in Nat
    <3> HIDE DEF times, differ
    <3> QED BY <2>1
  <2>3. Pair # {}
      BY <2>2
  <2>4. \A a \in Pair : IsFiniteSet(day[a]) /\ Cardinality(day[a]) \in Nat
    <3>1. IsFiniteSet(Opens)
      <4> DEFINE hi == MarketEnd - 1
      <4>1. 0 \in Int /\ hi \in Int /\ Opens = 0 .. hi
          BY <1>0
      <4> HIDE DEF hi
      <4> QED BY <4>1, FS_Interval
    <3> QED BY <1>1, <3>1, FS_Subset, FS_CardinalityType
  <2>5. least \in cards /\ \A c \in cards : least <= c
    <3>1. cards \in SUBSET Nat /\ cards # {}
        BY <2>3, <2>4
    <3> HIDE DEF cards
    <3>2. \E x \in cards : \A y \in cards : x <= y
        BY <3>1, LeastNatural
    <3> QED BY <3>2, Zenon DEF SmallestOf
  <2>6. least \in Nat /\ \A a \in Pair : least <= Cardinality(day[a])
      BY <2>4, <2>5
  <2> HIDE DEF least, cards
  <2>7. last \in 1 .. least
    <3>1. differ \in SUBSET Nat /\ differ \subseteq 1 .. least
        BY <2>6
    <3> HIDE DEF differ
    <3>2. \E x \in differ : \A y \in differ : x <= y
        BY <2>2, <3>1, LeastNatural
    <3>3. last \in differ
        BY <3>2, Zenon DEF SmallestOf
    <3> QED BY <3>1, <3>3
  <2> HIDE DEF last, differ
  <2>8. \A a \in Pair : NthRow(day[a], last) \in Opens
    <3> SUFFICES ASSUME NEW a \in Pair PROVE NthRow(day[a], last) \in Opens
        OBVIOUS
    <3>1. day[a] \in SUBSET Nat /\ IsFiniteSet(day[a]) /\ last \in 1 .. Cardinality(day[a])
        BY <1>0, <1>1, <2>4, <2>6, <2>7
    <3>2. NthRow(day[a], last) \in day[a]
        BY <3>1, NthRowExists
    <3> QED BY <1>1, <3>2
  <2>9. times \in SUBSET Int /\ times # {} /\ (\A u \in times : u <= MarketEnd)
        /\ times \in SUBSET Nat
      BY <1>0, <2>3, <2>8
  <2> HIDE DEF times
  <2>10. \E t \in times : \A u \in times : u <= t
    <3> DEFINE n == MarketEnd
    <3>1. n \in Int /\ \A u \in times : u <= n
        BY <1>0, <2>9
    <3> HIDE DEF n
    <3> QED BY <2>9, <3>1, LargestInteger
  <2>11. (CHOOSE t \in times : \A u \in times : u <= t) \in times
      BY <2>10, Zenon
  <2> QED BY <2>9, <2>11
<1> QED BY <1>0, <1>2, <1>3, <1>4

(* A missing minute of a session that has its last one is detected within   *)
(* the session.                                                             *)
LEMMA LostIsDetected ==
    ASSUME NEW have \in [Pair -> SUBSET Opens], NEW m \in Opens \ Vectors(have),
           (DateOf(m) + 1) * Minutes - 1 \in Vectors(have)
    PROVE  \E g \in UNION {JointGridStatus(have, d) : d \in Dates} :
              m < g /\ g <= (DateOf(m) + 1) * Minutes
<1> DEFINE d == DateOf(m)
           end == (d + 1) * Minutes - 1
           day == RowsOn(have, d)
           rows == UNION {day[b] : b \in Pair}
           L == {t \in rows : t >= m}
           x == SmallestOf(L)
<1>0. /\ m \in Nat /\ m < MarketEnd /\ MarketEnd \in Nat /\ Opens \in SUBSET Nat
      /\ \A t \in Opens : t < MarketEnd
    BY MinuteMarketAssumption DEF MarketEnd, Opens
<1>1. d \in Nat /\ d \in Dates /\ d * Minutes <= m /\ m < (d + 1) * Minutes
    BY <1>0, SessionOfMinute
<1> HIDE DEF d
<1>2. /\ Minutes \in Nat /\ Minutes > 0 /\ d * Minutes \in Int
      /\ (d + 1) * Minutes = d * Minutes + Minutes
    BY <1>1, MinuteMarketAssumption, SessionBounds
<1>3. end \in Vectors(have) /\ end \in Nat /\ m <= end /\ d * Minutes <= end
      /\ end < (d + 1) * Minutes
  <2>1. end \in Vectors(have)
      BY DEF d
  <2> QED BY <1>0, <1>1, <1>2, <2>1 DEF Vectors
<1>4. DateOf(end) = d
    BY <1>1, <1>3, SessionOfMinute
<1>5. PICK a \in Pair : m \notin have[a]
    BY DEF Vectors
<1>6. m \in MinutesOf(d) /\ end \in MinutesOf(d)
    BY <1>0, <1>1, <1>2, <1>3 DEF MinutesOf
<1> HIDE DEF end
<1>7. ~SessionComplete(have, d)
    BY <1>6 DEF SessionComplete
<1>8. end \in day[a] /\ end \in rows /\ m \notin day[a] /\ \A b \in Pair : day[b] \in SUBSET Nat
  <2>1. \A b \in Pair : day[b] = have[b] \intersect MinutesOf(d)
      BY DEF RowsOn
  <2> HIDE DEF day
  <2>2. \A b \in Pair : end \in have[b] /\ have[b] \in SUBSET Opens
      BY <1>3 DEF Vectors
  <2> QED BY <1>0, <1>5, <1>6, <2>1, <2>2
<1>9. MissingDetections(day) \subseteq JointGridStatus(have, d)
    BY <1>7, <1>8 DEF JointGridStatus
<1> HIDE DEF day
<1>10. end \in L /\ L \in SUBSET Nat
    BY <1>0, <1>3, <1>8
<1>11. x \in L /\ \A y \in L : x <= y
  <2> HIDE DEF L
  <2>1. \E z \in L : \A y \in L : z <= y
      BY <1>10, LeastNatural
  <2> QED BY <2>1, Zenon DEF SmallestOf
<1>12. x + 1 \in MissingDetections(day)
  <2>1. m \in (UNION {MinutesOf(e) : e \in {DateOf(t) : t \in rows}}) \ day[a]
    <3>1. d \in {DateOf(t) : t \in rows}
      <4> HIDE DEF rows
      <4> QED BY <1>4, <1>8
    <3> DEFINE K == {DateOf(t) : t \in rows}
               M == {MinutesOf(e) : e \in K}
    <3>2. MinutesOf(d) \in M
      <4> HIDE DEF rows, K
      <4>1. d \in K
          BY <3>1 DEF K
      <4> QED BY <4>1
    <3> HIDE DEF M
    <3>3. m \in UNION M
        BY <1>6, <3>2
    <3>4. m \in UNION {MinutesOf(e) : e \in {DateOf(t) : t \in rows}}
      <4> HIDE DEF rows
      <4> QED BY <3>3, Zenon DEF M, K
    <3> HIDE DEF rows, K
    <3> QED BY <1>8, <3>4
  <2> DEFINE At(n) == LET later == {t \in rows : t >= n}
                      IN  IF later = {} THEN MarketEnd ELSE SmallestOf(later) + 1
  <2>2. At(m) = x + 1
      BY <1>10
  <2> HIDE DEF x, L
  <2>3. At(m) \in {At(n) : n \in (UNION {MinutesOf(e) : e \in {DateOf(t) : t \in rows}}) \ day[a]}
    <3> HIDE DEF At, rows
    <3> QED BY <2>1
  <2> QED BY <2>2, <2>3 DEF MissingDetections
<1>13. m < x + 1 /\ x + 1 <= (d + 1) * Minutes
  <2>1. x \in Nat /\ x >= m /\ x <= end
      BY <1>10, <1>11
  <2>2. (d + 1) * Minutes \in Int
      BY <1>2
  <2> QED BY <1>0, <1>3, <2>1, <2>2
<1> HIDE DEF x
<1> QED BY <1>1, <1>9, <1>12, <1>13 DEF d

(* ------------------------------ the account ----------------------------- *)
Endings == {"running", "unpriceable_quarantine", "unpriceable_fill", "missing_terminal_vector",
            "unpriceable_endpoint"}
ManagedStates == [since : Times, owed : SUBSET Nat, trigger : Times, cancelled : SUBSET Nat,
                  done : SUBSET Nat, ending : Endings]

(* What the steps rely on: a plan in order, none of it priced outside the   *)
(* path, and a detection within the session for each missing minute of a    *)
(* session that has its last one.                                           *)
ManagedKnown ==
    /\ data.vectors \in SUBSET Nat /\ data.gaps \in SUBSET Nat /\ PlanFacts(data.planned)
    /\ bounds[1] \in Nat /\ bounds[2] \in Nat /\ bounds[1] < bounds[2] /\ bounds[2] <= MarketEnd
    /\ \A f \in data.planned :
          bounds[1] <= f.time /\ (f.time \in data.vectors => f.time <= LastMinute)
    /\ \A m \in data.lost :
          /\ m \in Nat /\ m < MarketEnd /\ m \notin data.vectors
          /\ (DateOf(m) + 1) * Minutes - 1 \in data.vectors =>
                \E g \in data.gaps : m < g /\ g <= (DateOf(m) + 1) * Minutes

UpTo(t) == {n \in Nat : n <= t}
Under(t) == {n \in Nat : n < t}
Onwards(t) == {n \in Nat : n >= t \/ n = LastMinute}
Beyond(t) == {n \in Nat : n > t \/ n = LastMinute}
PlannedIn(S) == {f \in data.planned : f.time \in S}

(* The targets of past moments are settled, once; sales are owed to vectors *)
(* of the path that are still to come.                                      *)
Books(p, Due, Past) ==
    /\ p \in ManagedStates /\ p.owed \subseteq InPath(data.vectors) \intersect Due
    /\ p.cancelled \intersect p.done = {}
    /\ \A s \in p.done : \E f \in PlannedIn(Past) : f.signal = s
    /\ style # "benchmark" =>
          \A f \in PlannedIn(Past) : f.time # LastMinute => f.signal \in p.cancelled \union p.done

HeldSince(p) == p.ending = "running" /\ p.since # NoMoment

(* A detection the position was held over is owed a sale after "past"; the  *)
(* endpoints it was held over had a price.                                  *)
Covering(p, t, past) ==
    HeldSince(p) =>
        \A g \in InPath(data.gaps) : p.since < g /\ g <= t =>
            NextOf(data.vectors, g) \in p.owed /\ NextOf(data.vectors, g) > past
Priced(p, S) ==
    HeldSince(p) => \A e \in EndpointTimes(bounds[1], bounds[2]) \intersect S :
                     p.since <= e => e \in data.vectors

Standing(p, t) ==
    /\ Books(p, Beyond(t), UpTo(t)) /\ Covering(p, t, t) /\ Priced(p, UpTo(t))
    /\ HeldSince(p) => p.since <= t /\ t < LastMinute
Noticed(p, t) ==
    /\ Books(p, Onwards(t), Under(t)) /\ Covering(p, t, t - 1) /\ Priced(p, Under(t))
    /\ HeldSince(p) => p.since < t /\ t <= LastMinute
Paid(p, t) ==
    /\ Books(p, Beyond(t), Under(t)) /\ Covering(p, t, t) /\ Priced(p, Under(t))
    /\ HeldSince(p) => p.since < t /\ t < LastMinute
Filled(p, t) ==
    /\ Books(p, Beyond(t), UpTo(t)) /\ Covering(p, t, t) /\ Priced(p, Under(t))
    /\ HeldSince(p) => p.since <= t /\ t < LastMinute

(* The moment after c is t.                                                 *)
NextMoment(c, t) ==
    /\ c \in Int /\ t \in Nat /\ c < t /\ bounds[1] <= t /\ (c < LastMinute => t <= LastMinute)
    /\ \A n \in InPath(data.gaps) \union InPath(data.vectors) : n > c => n >= t
    /\ \A e \in EndpointTimes(bounds[1], bounds[2]) : e > c => e >= t
    /\ \A f \in data.planned : f.time > c => f.time >= t

(* The path lies in the data, and so do its moments.                        *)
LEMMA PathKnown ==
    ASSUME ManagedKnown
    PROVE  /\ LastMinute \in Nat /\ LastMinute < MarketEnd /\ MarketEnd \in Nat
           /\ bounds[1] \in Nat /\ InPath(data.gaps) \in SUBSET Nat
           /\ InPath(data.vectors) \in SUBSET Nat
           /\ EndpointTimes(bounds[1], bounds[2]) \in SUBSET Nat
<1>1. MarketEnd \in Nat
    BY MinuteMarketAssumption DEF MarketEnd
<1>2. \A e \in EndpointTimes(bounds[1], bounds[2]) : e \in Nat
  <2> SUFFICES ASSUME NEW e \in EndpointTimes(bounds[1], bounds[2]) PROVE e \in Nat
      OBVIOUS
  <2>1. PICK d \in Dates : e = d * Minutes + Minutes - 1
      BY DEF EndpointTimes
  <2>2. d * Minutes \in Int /\ Minutes \in Int
      BY MinuteMarketAssumption DEF Dates
  <2>3. e \in Int /\ bounds[1] <= e
      BY <2>1, <2>2 DEF EndpointTimes
  <2> QED BY <2>3 DEF ManagedKnown
<1> QED BY <1>1, <1>2 DEF ManagedKnown, LastMinute, InPath

(* A refusal is recorded, and nothing else.                                 *)
LEMMA RefusedFields ==
    ASSUME NEW p \in ManagedStates, NEW why \in Endings \ {"running"}
    PROVE  LET q == Refuse(p, why)
           IN  /\ q \in ManagedStates /\ q.since = p.since /\ q.owed = p.owed
               /\ q.trigger = p.trigger /\ q.cancelled = p.cancelled /\ q.done = p.done
               /\ q.ending # "running"
<1> DEFINE q == [p EXCEPT !.ending = why]
<1>1. CASE p.ending = "running"
  <2>1. Refuse(p, why) = q
      BY <1>1 DEF Refuse
  <2>2. /\ q \in ManagedStates /\ q.since = p.since /\ q.owed = p.owed
        /\ q.trigger = p.trigger /\ q.cancelled = p.cancelled /\ q.done = p.done
        /\ q.ending = why
    <3> HIDE DEF Times, Endings
    <3> QED BY DEF ManagedStates
  <2>3. why # "running"
      OBVIOUS
  <2> HIDE DEF q
  <2> QED BY <2>1, <2>2, <2>3
<1>2. CASE p.ending # "running"
  <2>1. Refuse(p, why) = p
      BY <1>2 DEF Refuse
  <2> QED BY <1>2, <2>1
<1> QED BY <1>1, <1>2

(* Exposure is owed to the next vector of the path, or the path refuses it. *)
LEMMA OweSaleFields ==
    ASSUME ManagedKnown, NEW p \in ManagedStates, NEW t \in Nat, bounds[1] <= t,
           NEW why \in Endings \ {"running"}
    PROVE  LET q == OweSale(p, t, why)
               n == NextOf(data.vectors, t)
           IN  /\ q \in ManagedStates /\ q.since = p.since /\ q.trigger = p.trigger
               /\ q.cancelled = p.cancelled /\ q.done = p.done
               /\ (q.ending = "running" => p.ending = "running")
               /\ p.owed \subseteq q.owed /\ q.owed \subseteq p.owed \union {n}
               /\ n \in q.owed \ p.owed => n \in InPath(data.vectors) /\ n > t
               /\ q.ending = "running" /\ p.since # NoMoment => n \in q.owed /\ n > t
<1> DEFINE n == NextOf(data.vectors, t)
           os == p.owed \union {n}
           r == [p EXCEPT !.owed = os]
           q == OweSale(p, t, why)
<1>1. n # NoMoment => n \in data.vectors /\ n \in Nat /\ n > t
    BY NextOfLater DEF ManagedKnown
<1>2. LastMinute \in Nat /\ bounds[1] \in Nat
    BY PathKnown
<1>3. q = IF p.since = NoMoment THEN p
          ELSE IF n = NoMoment \/ n > LastMinute THEN Refuse(p, why) ELSE r
    BY DEF OweSale
<1>4. CASE p.since = NoMoment
    BY <1>3, <1>4
<1>5. CASE p.since # NoMoment /\ (n = NoMoment \/ n > LastMinute)
  <2>1. q = Refuse(p, why)
      BY <1>3, <1>5
  <2> HIDE DEF q, n
  <2> QED BY <2>1, RefusedFields DEF q, n
<1>6. CASE p.since # NoMoment /\ n # NoMoment /\ ~(n > LastMinute)
  <2>1. q = r
      BY <1>3, <1>6
  <2>2. p.owed \in SUBSET Nat
      BY DEF ManagedStates
  <2>3. os \in SUBSET Nat /\ n \in InPath(data.vectors)
      BY <1>1, <1>2, <1>6, <2>2 DEF InPath
  <2> HIDE DEF os
  <2>4. /\ r \in ManagedStates /\ r.since = p.since /\ r.owed = os /\ r.trigger = p.trigger
        /\ r.cancelled = p.cancelled /\ r.done = p.done /\ r.ending = p.ending
    <3> HIDE DEF Times, Endings
    <3> QED BY <2>3 DEF ManagedStates
  <2> HIDE DEF r, n, q
  <2> QED BY <1>1, <1>6, <2>1, <2>3, <2>4 DEF os, n, q
<1> QED BY <1>4, <1>5, <1>6

(* ------------------------------- the steps ------------------------------ *)
(* Between two moments nothing is due, and no target is passed.             *)
LEMMA MomentReached ==
    ASSUME ManagedKnown, NEW p, NEW c, NEW t, NextMoment(c, t), Standing(p, c)
    PROVE  /\ Books(p, Onwards(t), Under(t)) /\ Priced(p, Under(t))
           /\ HeldSince(p) => p.since < t /\ t <= LastMinute
           /\ HeldSince(p) => \A g \in InPath(data.gaps) : p.since < g /\ g < t =>
                 NextOf(data.vectors, g) \in p.owed /\ NextOf(data.vectors, g) > t - 1
<1>0. /\ c \in Int /\ t \in Nat /\ c < t /\ bounds[1] <= t /\ (c < LastMinute => t <= LastMinute)
      /\ p \in ManagedStates /\ p.owed \subseteq InPath(data.vectors) \intersect Beyond(c)
      /\ HeldSince(p) => p.since <= c /\ c < LastMinute /\ p.since \in Nat
    BY DEF NextMoment, Standing, Books, HeldSince, ManagedStates, Times
<1>1. LastMinute \in Nat /\ InPath(data.gaps) \in SUBSET Nat /\ InPath(data.vectors) \in SUBSET Nat
      /\ EndpointTimes(bounds[1], bounds[2]) \in SUBSET Nat
    BY PathKnown
<1>2. \A v \in p.owed : v \in InPath(data.vectors) /\ v \in Nat /\ v \in Onwards(t)
  <2> SUFFICES ASSUME NEW v \in p.owed
               PROVE  v \in InPath(data.vectors) /\ v \in Nat /\ v \in Onwards(t)
      OBVIOUS
  <2>1. v \in InPath(data.vectors) /\ v \in Nat /\ (v > c \/ v = LastMinute)
      BY <1>0, <1>1 DEF Beyond
  <2>2. v > c => v >= t
      BY <2>1 DEF NextMoment
  <2> QED BY <2>1, <2>2 DEF Onwards
<1>3. PlannedIn(UpTo(c)) = PlannedIn(Under(t))
  <2>1. \A f \in data.planned : f.time \in Nat /\ (f.time > c => f.time >= t)
      BY DEF ManagedKnown, PlanFacts, NextMoment
  <2> QED BY <1>0, <2>1 DEF PlannedIn, UpTo, Under
<1>4. Books(p, Onwards(t), Under(t))
    BY <1>2, <1>3 DEF Standing, Books
<1>5. Priced(p, Under(t))
  <2> SUFFICES ASSUME HeldSince(p), NEW e \in EndpointTimes(bounds[1], bounds[2]), e < t, p.since <= e
               PROVE  e \in data.vectors
      BY DEF Priced, Under
  <2>1. e \in Nat /\ ~(e > c)
      BY <1>0, <1>1 DEF NextMoment
  <2>2. e <= c
      BY <1>0, <2>1
  <2> QED BY <2>1, <2>2 DEF Standing, Priced, UpTo
<1>6. ASSUME HeldSince(p), NEW g \in InPath(data.gaps), p.since < g, g < t
      PROVE  NextOf(data.vectors, g) \in p.owed /\ NextOf(data.vectors, g) > t - 1
  <2>1. g \in Nat /\ ~(g > c)
      BY <1>0, <1>1, <1>6 DEF NextMoment
  <2>2. g <= c
      BY <1>0, <2>1
  <2>3. NextOf(data.vectors, g) \in p.owed /\ NextOf(data.vectors, g) > c
      BY <1>6, <2>2 DEF Standing, Covering
  <2>4. NextOf(data.vectors, g) >= t /\ NextOf(data.vectors, g) \in Nat
      BY <1>2, <2>3 DEF NextMoment
  <2> QED BY <1>0, <2>3, <2>4
<1> QED BY <1>0, <1>4, <1>5, <1>6

(* A detection cancels targets that are not filled yet, and owes a sale.    *)
LEMMA NoticeSound ==
    ASSUME ManagedKnown, NEW p, NEW c, NEW t, NextMoment(c, t), Standing(p, c)
    PROVE  Noticed(NoticeGap(p, t), t)
<1>0. t \in Nat /\ bounds[1] <= t /\ p \in ManagedStates /\ t \in Times
    BY DEF NextMoment, Standing, Books, Times
<1>1. /\ Books(p, Onwards(t), Under(t)) /\ Priced(p, Under(t))
      /\ HeldSince(p) => p.since < t /\ t <= LastMinute
      /\ HeldSince(p) => \A g \in InPath(data.gaps) : p.since < g /\ g < t =>
            NextOf(data.vectors, g) \in p.owed /\ NextOf(data.vectors, g) > t - 1
    BY MomentReached
<1>2. InPath(data.gaps) \in SUBSET Nat /\ InPath(data.vectors) \in SUBSET Nat /\ LastMinute \in Nat
    BY PathKnown
<1>3. CASE t \notin InPath(data.gaps)
  <2>1. NoticeGap(p, t) = p
      BY <1>3 DEF NoticeGap
  <2>2. Covering(p, t, t - 1)
    <3> SUFFICES ASSUME HeldSince(p), NEW g \in InPath(data.gaps), p.since < g, g <= t
                 PROVE  NextOf(data.vectors, g) \in p.owed /\ NextOf(data.vectors, g) > t - 1
        BY DEF Covering
    <3>1. g < t
        BY <1>0, <1>2, <1>3
    <3> QED BY <1>1, <3>1
  <2> QED BY <1>1, <2>1, <2>2 DEF Noticed
<1>4. CASE t \in InPath(data.gaps)
  <2> DEFINE n == NextOf(data.vectors, t)
             stale == {f.signal : f \in {g \in data.planned : g.time >= t /\ g.signal <= t}}
             all == p.cancelled \union stale
             r1 == [p EXCEPT !.trigger = t]
             r == [r1 EXCEPT !.cancelled = all]
             q == OweSale(r, t, "unpriceable_quarantine")
  <2>1. [p EXCEPT !.trigger = t, !.cancelled = all] = r
    <3> HIDE DEF all
    <3> QED BY <1>0 DEF ManagedStates
  <2>2. NoticeGap(p, t) = q
      BY <1>4, <2>1 DEF NoticeGap
  <2>3. \A s \in stale : s \in Nat /\ \E f \in data.planned : f.time >= t /\ f.signal = s
      BY DEF ManagedKnown, PlanFacts
  <2>4. all \in SUBSET Nat
      BY <1>0, <2>3 DEF ManagedStates
  <2> HIDE DEF all, stale
  <2>5. /\ r \in ManagedStates /\ r.since = p.since /\ r.owed = p.owed /\ r.cancelled = all
        /\ r.done = p.done /\ r.ending = p.ending
    <3> HIDE DEF Times, Endings
    <3>1. /\ r1 \in ManagedStates /\ r1.since = p.since /\ r1.owed = p.owed
          /\ r1.cancelled = p.cancelled /\ r1.done = p.done /\ r1.ending = p.ending
        BY <1>0 DEF ManagedStates
    <3> HIDE DEF r1
    <3> QED BY <2>4, <3>1 DEF ManagedStates
  <2> HIDE DEF r
  <2>6. "unpriceable_quarantine" \in Endings \ {"running"}
      BY DEF Endings
  <2>7. /\ q \in ManagedStates /\ q.since = p.since /\ q.cancelled = all /\ q.done = p.done
        /\ (q.ending = "running" => p.ending = "running")
        /\ p.owed \subseteq q.owed /\ q.owed \subseteq p.owed \union {n}
        /\ n \in q.owed \ p.owed => n \in InPath(data.vectors) /\ n > t
        /\ q.ending = "running" /\ p.since # NoMoment => n \in q.owed /\ n > t
      BY <1>0, <2>5, <2>6, OweSaleFields
  <2> HIDE DEF q, n
  <2>8. q.owed \subseteq InPath(data.vectors) \intersect Onwards(t)
    <3> SUFFICES ASSUME NEW v \in q.owed PROVE v \in InPath(data.vectors) /\ v \in Onwards(t)
        OBVIOUS
    <3>1. CASE v \in p.owed
        BY <1>1, <3>1 DEF Books
    <3>2. CASE v \notin p.owed
      <4>1. v = n /\ n \in InPath(data.vectors) /\ n > t
          BY <2>7, <3>2
      <4> QED BY <1>0, <1>2, <4>1 DEF Onwards
    <3> QED BY <3>1, <3>2
  <2>9. all \intersect p.done = {}
    <3> SUFFICES ASSUME NEW s \in stale, s \in p.done PROVE FALSE
        BY <1>1 DEF Books, all
    <3>1. PICK f \in data.planned : f.time >= t /\ f.signal = s
        BY <2>3
    <3>2. PICK g \in PlannedIn(Under(t)) : g.signal = s
        BY <1>1 DEF Books
    <3>3. g \in data.planned /\ g.time < t /\ g.time \in Nat /\ f.time \in Nat
        BY <3>2 DEF PlannedIn, Under, ManagedKnown, PlanFacts
    <3>4. g.time < f.time
        BY <1>0, <3>1, <3>3
    <3>5. g.signal < f.signal /\ f.signal \in Nat
        BY <3>1, <3>3, <3>4 DEF ManagedKnown, PlanFacts
    <3> QED BY <3>1, <3>2, <3>5
  <2>10. Books(q, Onwards(t), Under(t))
    <3>1. p.cancelled \subseteq all
        BY DEF all
    <3> QED BY <1>1, <2>7, <2>8, <2>9, <3>1 DEF Books
  <2>11. HeldSince(q) => HeldSince(p) /\ n \in q.owed /\ n > t
      BY <2>7 DEF HeldSince
  <2>12. Priced(q, Under(t))
      BY <1>1, <2>7, <2>11 DEF Priced
  <2>13. Covering(q, t, t - 1)
    <3> SUFFICES ASSUME HeldSince(q), NEW g \in InPath(data.gaps), q.since < g, g <= t
                 PROVE  NextOf(data.vectors, g) \in q.owed /\ NextOf(data.vectors, g) > t - 1
        BY DEF Covering
    <3>1. CASE g = t
      <4>1. n \in q.owed /\ n > t /\ n \in Nat
          BY <1>2, <2>8, <2>11
      <4>2. n > t - 1
          BY <1>0, <4>1
      <4> QED BY <3>1, <4>1, <4>2 DEF n
    <3>2. CASE g # t
      <4>1. g < t
          BY <1>0, <1>2, <3>2
      <4> QED BY <1>1, <2>7, <2>11, <4>1
    <3> QED BY <3>1, <3>2
  <2>14. HeldSince(q) => q.since < t /\ t <= LastMinute
      BY <1>1, <2>7, <2>11
  <2> QED BY <2>2, <2>10, <2>12, <2>13, <2>14 DEF Noticed
<1> QED BY <1>3, <1>4

(* A sale that is owed happens.                                             *)
LEMMA PaySound ==
    ASSUME ManagedKnown, NEW p, NEW t \in Nat, t # LastMinute, Noticed(p, t)
    PROVE  Paid(PayOwed(p, t), t)
<1>0. /\ p \in ManagedStates /\ p.owed \subseteq InPath(data.vectors) \intersect Onwards(t)
      /\ LastMinute \in Nat /\ InPath(data.vectors) \in SUBSET Nat
    BY PathKnown DEF Noticed, Books
<1>1. \A v \in p.owed : v \in Nat /\ v \in data.vectors /\ (v >= t \/ v = LastMinute)
    BY <1>0 DEF InPath, Onwards
<1>2. CASE t \notin p.owed
  <2>1. PayOwed(p, t) = p
      BY <1>2 DEF PayOwed
  <2>2. \A v \in p.owed : v > t \/ v = LastMinute
      BY <1>1, <1>2
  <2>3. Books(p, Beyond(t), Under(t))
      BY <1>0, <1>1, <2>2 DEF Noticed, Books, Beyond
  <2>4. HeldSince(p) => p.since < t /\ t < LastMinute
      BY <1>0 DEF Noticed
  <2>5. Covering(p, t, t)
    <3> SUFFICES ASSUME HeldSince(p), NEW g \in InPath(data.gaps), p.since < g, g <= t
                 PROVE  NextOf(data.vectors, g) \in p.owed /\ NextOf(data.vectors, g) > t
        BY DEF Covering
    <3>1. NextOf(data.vectors, g) \in p.owed /\ NextOf(data.vectors, g) > t - 1
        BY DEF Noticed, Covering
    <3>2. NextOf(data.vectors, g) # t /\ NextOf(data.vectors, g) \in Nat
        BY <1>1, <1>2, <3>1
    <3> QED BY <3>1, <3>2
  <2> QED BY <2>1, <2>3, <2>4, <2>5 DEF Noticed, Paid
<1>3. CASE t \in p.owed
  <2> DEFINE left == p.owed \ {t}
             q == [p EXCEPT !.since = NoMoment]
             r == [q EXCEPT !.owed = left]
  <2>1. PayOwed(p, t) = r
      BY <1>1, <1>3 DEF PayOwed
  <2>2. left \in SUBSET Nat /\ NoMoment \in Times
      BY <1>1 DEF Times
  <2>3. left \subseteq InPath(data.vectors) \intersect Beyond(t)
      BY <1>0, <1>1 DEF Beyond
  <2> HIDE DEF left
  <2>4. /\ q \in ManagedStates /\ q.since = NoMoment /\ q.cancelled = p.cancelled
        /\ q.done = p.done
    <3> HIDE DEF Times, Endings
    <3> QED BY <1>0, <2>2 DEF ManagedStates
  <2> HIDE DEF q
  <2>5. /\ r \in ManagedStates /\ r.since = NoMoment /\ r.owed = left
        /\ r.cancelled = p.cancelled /\ r.done = p.done
    <3> HIDE DEF Times, Endings
    <3> QED BY <2>2, <2>4 DEF ManagedStates
  <2> HIDE DEF r
  <2>6. ~HeldSince(r)
      BY <2>5 DEF HeldSince
  <2>7. Books(r, Beyond(t), Under(t))
      BY <2>3, <2>5 DEF Noticed, Books
  <2> QED BY <2>1, <2>6, <2>7 DEF Paid, Covering, Priced
<1> QED BY <1>2, <1>3

(* The targets of the moments up to t are those before it and the one of t. *)
LEMMA PassedTargets ==
    ASSUME ManagedKnown, NEW t \in Nat
    PROVE  /\ PlannedIn(Under(t)) \subseteq PlannedIn(UpTo(t))
           /\ \A f \in PlannedIn(UpTo(t)) : f.time = t \/ f \in PlannedIn(Under(t))
           /\ \A f \in PlannedIn(Under(t)), g \in data.planned : g.time = t => f.signal # g.signal
<1>1. \A f \in data.planned : f.time \in Nat /\ f.signal \in Nat
    BY DEF ManagedKnown, PlanFacts
<1>2. \A f \in PlannedIn(UpTo(t)) : f.time = t \/ f \in PlannedIn(Under(t))
    BY <1>1 DEF PlannedIn, UpTo, Under
<1>3. ASSUME NEW f \in PlannedIn(Under(t)), NEW g \in data.planned, g.time = t
      PROVE  f.signal # g.signal
  <2>1. f \in data.planned /\ f.time < g.time
      BY <1>3 DEF PlannedIn, Under
  <2>2. f.signal < g.signal
      BY <2>1 DEF ManagedKnown, PlanFacts
  <2> QED BY <1>1, <2>1, <2>2
<1>4. PlannedIn(Under(t)) \subseteq PlannedIn(UpTo(t))
    BY DEF PlannedIn, UpTo, Under
<1> QED BY <1>2, <1>3, <1>4

(* The target of t is settled where it is filled or cancelled.              *)
LEMMA BooksClosed ==
    ASSUME ManagedKnown, NEW t \in Nat, NEW p, NEW q, Books(p, Beyond(t), Under(t)),
           q \in ManagedStates, q.owed \subseteq InPath(data.vectors) \intersect Beyond(t),
           NEW f \in data.planned, f.time = t,
           \/ /\ q.cancelled = p.cancelled \union {f.signal} /\ q.done = p.done
           \/ /\ q.cancelled = p.cancelled /\ q.done = p.done \union {f.signal}
              /\ f.signal \notin p.cancelled
           \/ style = "benchmark" /\ q.cancelled = p.cancelled /\ q.done = p.done
    PROVE  Books(q, Beyond(t), UpTo(t))
<1>1. /\ PlannedIn(Under(t)) \subseteq PlannedIn(UpTo(t))
      /\ \A g \in PlannedIn(UpTo(t)) : g.time = t \/ g \in PlannedIn(Under(t))
      /\ \A g \in PlannedIn(Under(t)) : g.signal # f.signal
    BY PassedTargets
<1>2. f \in PlannedIn(UpTo(t))
    BY DEF PlannedIn, UpTo
<1>3. \A g \in PlannedIn(UpTo(t)) : g = f \/ g \in PlannedIn(Under(t))
    BY <1>1 DEF PlannedIn, ManagedKnown, PlanFacts
<1>4. f.signal \notin p.done
    BY <1>1 DEF Books
<1>5. q.cancelled \intersect q.done = {}
    BY <1>4 DEF Books
<1>6. \A s \in q.done : \E g \in PlannedIn(UpTo(t)) : g.signal = s
    BY <1>1, <1>2 DEF Books
<1>7. ASSUME style # "benchmark", NEW g \in PlannedIn(UpTo(t)), g.time # LastMinute
      PROVE  g.signal \in q.cancelled \union q.done
    BY <1>3, <1>7 DEF Books
<1> QED BY <1>5, <1>6, <1>7 DEF Books

(* A planned fill is made or cancelled, and only made on a vector.          *)
LEMMA FillSound ==
    ASSUME ManagedKnown, NEW p, NEW t \in Nat, t # LastMinute, bounds[1] <= t, Paid(p, t)
    PROVE  Filled(FillPlanned(p, t), t)
<1> DEFINE due == {f \in data.planned : f.time = t}
           f == CHOOSE x \in due : TRUE
           stale == p.trigger # NoMoment /\ f.signal <= p.trigger
<1>0. /\ p \in ManagedStates /\ p.owed \subseteq InPath(data.vectors) \intersect Beyond(t)
      /\ InPath(data.vectors) \in SUBSET Nat /\ InPath(data.gaps) \in SUBSET Nat
      /\ LastMinute \in Nat /\ t \in Times
      /\ EndpointTimes(bounds[1], bounds[2]) \in SUBSET Nat
    BY PathKnown DEF Paid, Books, Times
<1>1. HeldSince(p) => p.since <= t /\ t < LastMinute
  <2>1. HeldSince(p) => p.since \in Nat
      BY <1>0 DEF HeldSince, ManagedStates, Times
  <2> QED BY <2>1 DEF Paid
<1>2. CASE due = {}
  <2>1. FillPlanned(p, t) = p
      BY <1>2 DEF FillPlanned
  <2>2. \A g \in PlannedIn(UpTo(t)) : g \in PlannedIn(Under(t))
      BY <1>2, PassedTargets DEF PlannedIn
  <2>3. PlannedIn(UpTo(t)) = PlannedIn(Under(t))
      BY <2>2, PassedTargets
  <2>4. Books(p, Beyond(t), UpTo(t))
      BY <2>3 DEF Paid, Books
  <2> QED BY <1>1, <2>1, <2>4 DEF Paid, Filled
<1>3. CASE due # {}
  <2>1. f \in due
      BY <1>3
  <2> DEFINE noted == p.cancelled \union {f.signal}
             filled == p.done \union {f.signal}
             dropped == [p EXCEPT !.cancelled = noted]
             missed == [dropped EXCEPT !.trigger = t]
             sale == OweSale(missed, t, "unpriceable_fill")
             entered == [p EXCEPT !.since = t]
             fresh == [entered EXCEPT !.trigger = NoMoment]
             made == [fresh EXCEPT !.done = filled]
             void == f.signal \in p.cancelled \/ stale
             keep == style = "benchmark" /\ p.since # NoMoment
  <2>2. /\ [p EXCEPT !.cancelled = noted, !.trigger = t] = missed
        /\ [p EXCEPT !.since = t, !.trigger = NoMoment, !.done = filled] = made
    <3> HIDE DEF noted, filled
    <3> QED BY <1>0 DEF ManagedStates
  <2>3. FillPlanned(p, t) = IF void THEN dropped ELSE IF t \notin data.vectors THEN sale
                            ELSE IF keep THEN p ELSE made
    <3>1. FillPlanned(p, t)
            = IF void THEN dropped
              ELSE IF t \notin data.vectors
                   THEN OweSale([p EXCEPT !.cancelled = noted, !.trigger = t], t, "unpriceable_fill")
              ELSE IF keep THEN p
              ELSE [p EXCEPT !.since = t, !.trigger = NoMoment, !.done = filled]
        BY <1>3 DEF FillPlanned
    <3> HIDE DEF made, missed, dropped, keep, void
    <3> QED BY <2>2, <3>1
  <2>4. f \in data.planned /\ f.time = t /\ f.signal \in Nat
      BY <2>1 DEF ManagedKnown, PlanFacts
  <2>5. noted \in SUBSET Nat /\ filled \in SUBSET Nat
      BY <1>0, <2>4 DEF ManagedStates
  <2>6. /\ dropped \in ManagedStates /\ dropped.since = p.since /\ dropped.owed = p.owed
        /\ dropped.cancelled = noted /\ dropped.done = p.done /\ dropped.ending = p.ending
    <3> HIDE DEF Times, Endings, noted
    <3> QED BY <1>0, <2>5 DEF ManagedStates
  <2>7. CASE void
    <3>1. FillPlanned(p, t) = dropped
      <4> HIDE DEF void, dropped
      <4> QED BY <2>3, <2>7
    <3> HIDE DEF dropped, due, f
    <3>2. Books(dropped, Beyond(t), UpTo(t))
        BY <1>0, <2>4, <2>6, BooksClosed DEF Paid, noted
    <3>3. HeldSince(dropped) <=> HeldSince(p)
        BY <2>6 DEF HeldSince
    <3> QED BY <1>1, <2>6, <3>1, <3>2, <3>3 DEF Paid, Filled, Covering, Priced
  <2>8. CASE ~void /\ t \notin data.vectors
    <3> DEFINE n == NextOf(data.vectors, t)
    <3>1. FillPlanned(p, t) = sale
      <4> HIDE DEF void, dropped, sale
      <4> QED BY <2>3, <2>8
    <3> HIDE DEF dropped, due, f
    <3>2. /\ missed \in ManagedStates /\ missed.since = p.since /\ missed.owed = p.owed
          /\ missed.cancelled = noted /\ missed.done = p.done /\ missed.ending = p.ending
      <4> HIDE DEF Times, Endings
      <4> QED BY <1>0, <2>6 DEF ManagedStates
    <3> HIDE DEF missed
    <3>3. "unpriceable_fill" \in Endings \ {"running"}
        BY DEF Endings
    <3>4. /\ sale \in ManagedStates /\ sale.since = p.since /\ sale.cancelled = noted
          /\ sale.done = p.done /\ (sale.ending = "running" => p.ending = "running")
          /\ p.owed \subseteq sale.owed /\ sale.owed \subseteq p.owed \union {n}
          /\ n \in sale.owed \ p.owed => n \in InPath(data.vectors) /\ n > t
        BY <3>2, <3>3, OweSaleFields
    <3> HIDE DEF sale, n
    <3>5. sale.owed \subseteq InPath(data.vectors) \intersect Beyond(t)
      <4> SUFFICES ASSUME NEW v \in sale.owed PROVE v \in InPath(data.vectors) /\ v \in Beyond(t)
          OBVIOUS
      <4>1. CASE v \in p.owed
          BY <1>0, <4>1
      <4>2. CASE v \notin p.owed
        <5>1. v = n /\ n \in InPath(data.vectors) /\ n > t
            BY <3>4, <4>2
        <5> QED BY <1>0, <5>1 DEF Beyond
      <4> QED BY <4>1, <4>2
    <3>6. Books(sale, Beyond(t), UpTo(t))
        BY <2>4, <3>4, <3>5, BooksClosed DEF Paid, noted
    <3>7. HeldSince(sale) => HeldSince(p)
        BY <3>4 DEF HeldSince
    <3> QED BY <1>1, <3>1, <3>4, <3>6, <3>7 DEF Paid, Filled, Covering, Priced
  <2>9. CASE ~void /\ t \in data.vectors /\ keep
    <3>1. FillPlanned(p, t) = p
      <4> HIDE DEF void, dropped, sale, keep, made
      <4> QED BY <2>3, <2>9
    <3>2. style = "benchmark"
        BY <2>9
    <3> HIDE DEF due, f, void, keep
    <3>3. Books(p, Beyond(t), UpTo(t))
        BY <1>0, <2>4, <3>2, BooksClosed DEF Paid
    <3> QED BY <1>1, <3>1, <3>3 DEF Paid, Filled
  <2>10. CASE ~void /\ t \in data.vectors /\ ~keep
    <3>1. FillPlanned(p, t) = made
      <4> HIDE DEF void, dropped, sale, keep, made
      <4> QED BY <2>3, <2>10
    <3>2. f.signal \notin p.cancelled
        BY <2>10
    <3>3. t < LastMinute
        BY <1>0, <2>4, <2>10 DEF ManagedKnown
    <3> HIDE DEF due, f, void, keep, dropped
    <3>4. NoMoment \in Times
        BY DEF Times
    <3>5. /\ made \in ManagedStates /\ made.since = t /\ made.owed = p.owed
          /\ made.cancelled = p.cancelled /\ made.done = filled
      <4> HIDE DEF Times, Endings, filled
      <4>1. /\ entered \in ManagedStates /\ entered.since = t /\ entered.owed = p.owed
            /\ entered.cancelled = p.cancelled
          BY <1>0 DEF ManagedStates
      <4> HIDE DEF entered
      <4>2. /\ fresh \in ManagedStates /\ fresh.since = t /\ fresh.owed = p.owed
            /\ fresh.cancelled = p.cancelled
          BY <3>4, <4>1 DEF ManagedStates
      <4> HIDE DEF fresh
      <4> QED BY <2>5, <4>2 DEF ManagedStates
    <3> HIDE DEF made
    <3>6. Books(made, Beyond(t), UpTo(t))
        BY <1>0, <2>4, <3>2, <3>5, BooksClosed DEF Paid, filled
    <3>7. Covering(made, t, t) /\ Priced(made, Under(t))
      <4>1. \A g \in InPath(data.gaps) : ~(t < g /\ g <= t)
          BY <1>0
      <4>2. \A e \in Under(t) : ~(t <= e)
          BY DEF Under
      <4> QED BY <3>5, <4>1, <4>2 DEF Covering, Priced
    <3> QED BY <3>1, <3>3, <3>5, <3>6, <3>7 DEF Filled
  <2> QED BY <2>7, <2>8, <2>9, <2>10
<1> QED BY <1>2, <1>3

(* At its terminal minute the path is cash, or it is refused.               *)
LEMMA SellTerminalSound ==
    ASSUME ManagedKnown, NEW p, NEW t, t = LastMinute, Noticed(p, t)
    PROVE  Filled(SellTerminal(p, t), t)
<1> DEFINE cash == [p EXCEPT !.since = NoMoment]
           q == SellTerminal(p, t)
<1>0. p \in ManagedStates /\ t \in Nat /\ NoMoment \in Times
    BY PathKnown DEF Noticed, Books, Times
<1>1. /\ cash \in ManagedStates /\ cash.since = NoMoment /\ cash.owed = p.owed
      /\ cash.cancelled = p.cancelled /\ cash.done = p.done
  <2> HIDE DEF Times, Endings
  <2> QED BY <1>0 DEF ManagedStates
<1>2. "missing_terminal_vector" \in Endings \ {"running"}
    BY DEF Endings
<1>3. /\ q \in ManagedStates /\ q.owed = p.owed /\ q.cancelled = p.cancelled /\ q.done = p.done
      /\ (q.ending = "running" => q.since = NoMoment)
  <2>1. q = IF t \in data.vectors THEN cash ELSE Refuse(p, "missing_terminal_vector")
      BY DEF SellTerminal
  <2> HIDE DEF cash, q
  <2> QED BY <1>0, <1>1, <1>2, <2>1, RefusedFields
<1> HIDE DEF q
<1>4. ~HeldSince(q)
    BY <1>3 DEF HeldSince
<1>5. p.owed \subseteq InPath(data.vectors) \intersect Beyond(t)
  <2>1. \A v \in p.owed : v \in InPath(data.vectors) /\ v \in Onwards(t)
      BY DEF Noticed, Books
  <2>2. \A v \in Onwards(t) : v \in Beyond(t)
      BY <1>0 DEF Onwards, Beyond
  <2> QED BY <2>1, <2>2
<1>6. Books(q, Beyond(t), UpTo(t))
  <2>1. \A s \in p.done : \E f \in PlannedIn(UpTo(t)) : f.signal = s
      BY <1>0, PassedTargets DEF Noticed, Books
  <2>2. style # "benchmark" => \A f \in PlannedIn(UpTo(t)) :
           f.time # LastMinute => f.signal \in p.cancelled \union p.done
      BY <1>0, PassedTargets DEF Noticed, Books
  <2> QED BY <1>3, <1>5, <2>1, <2>2 DEF Noticed, Books
<1> QED BY <1>4, <1>6 DEF Filled, Covering, Priced, q

(* An endpoint without a vector refuses what is exposed.                    *)
LEMMA CheckEndpointSound ==
    ASSUME ManagedKnown, NEW p, NEW t \in Nat, Filled(p, t)
    PROVE  Standing(CheckEndpoint(p, t), t)
<1> DEFINE q == Refuse(p, "unpriceable_endpoint")
           E == EndpointTimes(bounds[1], bounds[2])
           fatal == t \in E /\ t \notin data.vectors /\ p.since # NoMoment
<1>1. "unpriceable_endpoint" \in Endings \ {"running"} /\ p \in ManagedStates /\ E \in SUBSET Nat
    BY PathKnown DEF Endings, Filled, Books
<1>2. CheckEndpoint(p, t) = IF fatal THEN q ELSE p
    BY DEF CheckEndpoint
<1>3. CASE fatal
  <2>1. /\ q \in ManagedStates /\ q.since = p.since /\ q.owed = p.owed
        /\ q.cancelled = p.cancelled /\ q.done = p.done /\ q.ending # "running"
      BY <1>1, RefusedFields
  <2>2. CheckEndpoint(p, t) = q
    <3> HIDE DEF fatal, q
    <3> QED BY <1>2, <1>3
  <2> HIDE DEF q, fatal
  <2>3. ~HeldSince(q)
      BY <2>1 DEF HeldSince
  <2>4. Books(q, Beyond(t), UpTo(t))
      BY <2>1 DEF Filled, Books
  <2> QED BY <2>2, <2>3, <2>4 DEF Standing, Covering, Priced
<1>4. CASE ~fatal
  <2>1. CheckEndpoint(p, t) = p
    <3> HIDE DEF fatal, q
    <3> QED BY <1>2, <1>4
  <2>2. Priced(p, UpTo(t))
    <3> SUFFICES ASSUME HeldSince(p), NEW e \in E, e <= t, p.since <= e PROVE e \in data.vectors
        BY DEF Priced, UpTo
    <3>1. CASE e = t
        BY <1>4, <3>1 DEF HeldSince
    <3>2. CASE e # t
      <4>1. e \in Under(t)
          BY <1>1, <3>2 DEF Under
      <4> QED BY <4>1 DEF Filled, Priced
    <3> QED BY <3>1, <3>2
  <2> QED BY <2>1, <2>2 DEF Filled, Standing
<1> QED BY <1>3, <1>4

(* ------------------------------- the plan ------------------------------- *)
(* What build_trial_targets and delayed_fills make is a plan in order.      *)
LEMMA FillsKnown ==
    ASSUME NEW have, NEW kind, NEW window \in Nat \X Nat, window[1] < window[2],
           window[2] <= MarketEnd, kind = "delayed" => window = <<0, MarketEnd>>,
           kind = "delayed" => \A f \in TargetFills(have, kind, window) :
                                  LaterSession(have, f) # NoMoment
    PROVE  /\ PlanFacts(FillsOf(have, kind, window))
           /\ \A f \in FillsOf(have, kind, window) :
                 window[1] <= f.time /\ (f.time \in Vectors(have) => f.time <= window[2] - 1)
<1> DEFINE base == TargetFills(have, kind, window)
           S == {e \in TargetSessions(have, kind) :
                   /\ window[1] <= ExpectedOpen(e) /\ ExpectedOpen(e) < window[2] - 1}
           C == {e \in Dates : SessionComplete(have, e)}
           late == kind = "delayed"
           fill(d) == [time |-> ExpectedOpen(d), signal |-> (d + 1) * Minutes]
           T == [d \in S |-> IF late THEN NextOf(C, d) ELSE d]
           plan == FillsOf(have, kind, window)
<1>0. Minutes \in Nat /\ Minutes > 0 /\ MarketEnd \in Nat /\ Dates \in SUBSET Nat
    BY MinuteMarketAssumption DEF MarketEnd, Dates
<1>1. S \in SUBSET Dates /\ S \subseteq C /\ C \in SUBSET Dates
    BY CompleteSessionsRun DEF TargetSessions
<1>2. base = {fill(d) : d \in S}
    BY DEF TargetFills
<1> HIDE DEF S, C, base
<1>3. \A d \in S : LaterSession(have, fill(d)) = NextOf(C, d)
  <2> SUFFICES ASSUME NEW d \in S PROVE LaterSession(have, fill(d)) = NextOf(C, d)
      OBVIOUS
  <2>1. d \in Nat /\ d + 1 \in Nat /\ d + 1 \in Int
      BY <1>0, <1>1
  <2> DEFINE e == d + 1
             m == e * Minutes
  <2>2. m \in Nat /\ e \in Nat /\ e \in Int
      BY <1>0, <2>1
  <2>3. (e + 1) * Minutes = m + Minutes /\ m \in Int
      BY <2>2, SessionBounds
  <2> HIDE DEF e
  <2>4. e * Minutes <= m /\ m < (e + 1) * Minutes
      BY <1>0, <2>2, <2>3
  <2> HIDE DEF m
  <2>5. DateOf(m) = e
      BY <2>2, <2>4, SessionOfMinute
  <2>6. fill(d).signal \div Minutes - 1 = d
      BY <2>1, <2>5 DEF DateOf, m, e
  <2> HIDE DEF fill
  <2> QED BY <2>6 DEF LaterSession, C
<1>4. late => \A d \in S : NextOf(C, d) # NoMoment
  <2> SUFFICES ASSUME late, NEW d \in S PROVE NextOf(C, d) # NoMoment
      OBVIOUS
  <2>1. fill(d) \in base
    <3> HIDE DEF fill
    <3> QED BY <1>2
  <2> HIDE DEF fill
  <2>2. LaterSession(have, fill(d)) # NoMoment
      BY <2>1 DEF base
  <2> QED BY <1>3, <2>2
<1>5. \A d \in S : /\ NextOf(C, d) # NoMoment => NextOf(C, d) \in C /\ d < NextOf(C, d)
                   /\ \A e \in C : d < e /\ NextOf(C, e) # NoMoment => NextOf(C, d) < NextOf(C, e)
    BY <1>1, NextGoesForward
<1>6. T \in [S -> Int] /\ \A d \in S : d <= T[d] /\ T[d] \in Dates
  <2> SUFFICES ASSUME NEW d \in S PROVE T[d] \in Int /\ d <= T[d] /\ T[d] \in Dates
      OBVIOUS
  <2>1. d \in Dates /\ d \in Nat
      BY <1>0, <1>1
  <2>2. CASE late
    <3>1. T[d] = NextOf(C, d) /\ NextOf(C, d) # NoMoment
        BY <1>4, <2>2
    <3>2. NextOf(C, d) \in C /\ d < NextOf(C, d)
        BY <1>5, <3>1
    <3>3. NextOf(C, d) \in Nat /\ NextOf(C, d) \in Dates
        BY <1>0, <1>1, <3>2
    <3> QED BY <2>1, <3>1, <3>2, <3>3
  <2>3. CASE ~late
      BY <2>1, <2>3
  <2> QED BY <2>2, <2>3
<1>7. \A d, e \in S : d < e => T[d] < T[e]
  <2> SUFFICES ASSUME NEW d \in S, NEW e \in S, d < e PROVE T[d] < T[e]
      OBVIOUS
  <2>1. CASE late
    <3>1. T[d] = NextOf(C, d) /\ T[e] = NextOf(C, e) /\ NextOf(C, e) # NoMoment /\ e \in C
        BY <1>1, <1>4, <2>1
    <3> QED BY <1>5, <3>1
  <2>2. CASE ~late
    <3>1. T[d] = d /\ T[e] = e
        BY <2>2
    <3> QED BY <3>1
  <2> QED BY <2>1, <2>2
<1>8. plan = {[time |-> ExpectedOpen(T[d]), signal |-> (d + 1) * Minutes] : d \in S}
  <2>1. CASE late
    <3>1. plan = {[f EXCEPT !.time = ExpectedOpen(LaterSession(have, f))] : f \in base}
        BY <2>1 DEF FillsOf, DelayedFills, base
    <3>2. \A d \in S : [fill(d) EXCEPT !.time = ExpectedOpen(LaterSession(have, fill(d)))]
                         = [time |-> ExpectedOpen(T[d]), signal |-> (d + 1) * Minutes]
      <4> SUFFICES ASSUME NEW d \in S
                   PROVE  [fill(d) EXCEPT !.time = ExpectedOpen(LaterSession(have, fill(d)))]
                            = [time |-> ExpectedOpen(T[d]), signal |-> (d + 1) * Minutes]
          OBVIOUS
      <4>1. LaterSession(have, fill(d)) = T[d]
          BY <1>3, <2>1
      <4> DEFINE x == ExpectedOpen(T[d])
      <4>2. [fill(d) EXCEPT !.time = x] = [time |-> x, signal |-> (d + 1) * Minutes]
        <5> HIDE DEF x
        <5> QED OBVIOUS
      <4> HIDE DEF fill, T
      <4> QED BY <4>1, <4>2
    <3> DEFINE moved(f) == [f EXCEPT !.time = ExpectedOpen(LaterSession(have, f))]
               row(d) == [time |-> ExpectedOpen(T[d]), signal |-> (d + 1) * Minutes]
    <3>3. plan = {moved(f) : f \in base} /\ \A d \in S : moved(fill(d)) = row(d)
        BY <3>1, <3>2
    <3> HIDE DEF plan, moved, row, fill
    <3>4. plan = {row(d) : d \in S}
        BY <1>2, <3>3
    <3> QED BY <3>4 DEF row
  <2>2. CASE ~late
    <3>1. plan = base
        BY <2>2 DEF FillsOf, base
    <3>2. \A d \in S : T[d] = d
        BY <2>2
    <3> HIDE DEF plan, T
    <3> QED BY <1>2, <3>1, <3>2
  <2> QED BY <2>1, <2>2
<1>9. PlanFacts(plan)
  <2> HIDE DEF plan, T
  <2> QED BY <1>1, <1>6, <1>7, <1>8, PlanOfSessions
<1>10. ASSUME NEW f \in plan
       PROVE  window[1] <= f.time /\ (f.time \in Vectors(have) => f.time <= window[2] - 1)
  <2>1. PICK d \in S : f = [time |-> ExpectedOpen(T[d]), signal |-> (d + 1) * Minutes]
    <3> HIDE DEF plan, T
    <3> QED BY <1>8, <1>10
  <2>2. f.time = ExpectedOpen(T[d])
      BY <2>1
  <2>3. CASE late
    <3>1. window[1] = 0 /\ window[2] = MarketEnd
        BY <2>3
    <3>2. f.time \in Nat
        BY <1>9, <1>10 DEF PlanFacts
    <3>3. f.time \in Vectors(have) => f.time <= MarketEnd - 1
        BY <1>0, <3>2 DEF Vectors, Opens
    <3> QED BY <3>1, <3>2, <3>3
  <2>4. CASE ~late
    <3>1. T[d] = d /\ window[1] <= ExpectedOpen(d) /\ ExpectedOpen(d) < window[2] - 1
        BY <2>4 DEF S
    <3>2. f.time \in Nat
        BY <1>9, <1>10 DEF PlanFacts
    <3> QED BY <2>2, <3>1, <3>2
  <2> QED BY <2>3, <2>4
<1> QED BY <1>9, <1>10

(* ---------------------------- the invariant ----------------------------- *)
ManagedInv ==
    /\ ending \in Endings \union {"completed", "no_delayed_session"}
    /\ cancelled \intersect done = {}
    /\ ending = "running" => ManagedKnown /\ instant \in Times /\ Standing(Here, instant)
    /\ ending = "completed" /\ style # "benchmark" =>
          \A f \in data.planned : f.time < LastMinute => f.signal \in cancelled \union done

(* A path begins with a plan, in cash.                                      *)
LEMMA ManagedInvInit ==
    ASSUME ManagedInit([Pair -> SUBSET Opens],
                       {w \in Nat \X Nat : w[1] < w[2] /\ w[2] <= MarketEnd})
    PROVE  ManagedInv
<1>1. PICK have \in [Pair -> SUBSET Opens] :
           /\ data = [vectors |-> Vectors(have), lost |-> Opens \ Vectors(have),
                      gaps |-> UNION {JointGridStatus(have, d) : d \in Dates},
                      planned |-> FillsOf(have, style, bounds)]
           /\ ending = IF style = "delayed" /\ \E f \in TargetFills(have, style, bounds) :
                                                  LaterSession(have, f) = NoMoment
                       THEN "no_delayed_session" ELSE "running"
    BY DEF ManagedInit
<1>2. /\ instant = NoMoment /\ since = NoMoment /\ owed = {} /\ lastTrigger = NoMoment
      /\ cancelled = {} /\ done = {} /\ (style = "delayed" => bounds = <<0, MarketEnd>>)
      /\ style # "delayed" => bounds \in {w \in Nat \X Nat : w[1] < w[2] /\ w[2] <= MarketEnd}
    BY DEF ManagedInit
<1>3. ending \in {"running", "no_delayed_session"}
    BY <1>1
<1>4. MarketEnd \in Nat /\ MarketEnd > 0
  <2>1. Minutes \in Nat /\ MarketDays - 1 \in Nat /\ Minutes > 0 /\ MarketDays \in Int
      BY MinuteMarketAssumption
  <2> DEFINE n == MarketDays - 1
  <2>2. n * Minutes \in Nat /\ (n + 1) * Minutes = n * Minutes + Minutes
      BY <2>1, SessionBounds
  <2>3. n + 1 = MarketDays
      BY <2>1
  <2> HIDE DEF n
  <2> QED BY <2>1, <2>2, <2>3 DEF MarketEnd
<1>5. bounds \in Nat \X Nat /\ bounds[1] < bounds[2] /\ bounds[2] <= MarketEnd
  <2>1. CASE style = "delayed"
    <3>1. bounds = <<0, MarketEnd>>
        BY <1>2, <2>1
    <3> QED BY <1>4, <3>1
  <2>2. CASE style # "delayed"
      BY <1>2, <2>2
  <2> QED BY <2>1, <2>2
<1>6. ASSUME ending = "running" PROVE ManagedKnown /\ Standing(Here, instant)
  <2>1. /\ data.vectors = Vectors(have) /\ data.lost = Opens \ Vectors(have)
        /\ data.gaps = UNION {JointGridStatus(have, d) : d \in Dates}
        /\ data.planned = FillsOf(have, style, bounds)
      BY <1>1
  <2>2. style = "delayed" => \A f \in TargetFills(have, style, bounds) :
                                LaterSession(have, f) # NoMoment
      BY <1>1, <1>6
  <2>3. /\ PlanFacts(data.planned)
        /\ \A f \in data.planned :
              bounds[1] <= f.time /\ (f.time \in data.vectors => f.time <= bounds[2] - 1)
      BY <1>2, <1>5, <2>1, <2>2, FillsKnown
  <2>4. data.vectors \in SUBSET Nat /\ data.gaps \in SUBSET Nat
    <3>1. Vectors(have) \in SUBSET Nat
        BY <1>4 DEF Vectors, Opens
    <3>2. \A d \in Dates : JointGridStatus(have, d) \in SUBSET Nat
        BY DetectionsKnown
    <3> QED BY <2>1, <3>1, <3>2
  <2>5. ASSUME NEW m \in data.lost
        PROVE  /\ m \in Nat /\ m < MarketEnd /\ m \notin data.vectors
               /\ (DateOf(m) + 1) * Minutes - 1 \in data.vectors =>
                     \E g \in data.gaps : m < g /\ g <= (DateOf(m) + 1) * Minutes
    <3>1. m \in Opens \ Vectors(have)
        BY <2>1, <2>5
    <3>2. m \in Nat /\ m < MarketEnd /\ m \notin data.vectors
        BY <1>4, <2>1, <3>1 DEF Opens
    <3> QED BY <2>1, <3>1, <3>2, LostIsDetected
  <2>6. ManagedKnown
      BY <1>5, <2>3, <2>4, <2>5 DEF ManagedKnown, LastMinute
  <2>7. /\ Here.since = NoMoment /\ Here.owed = {} /\ Here.trigger = NoMoment
        /\ Here.cancelled = {} /\ Here.done = {} /\ Here.ending = "running"
      BY <1>2 DEF Here
  <2>8. Here \in ManagedStates
    <3>1. "running" \in Endings /\ NoMoment \in Times
        BY DEF Endings, Times
    <3> HIDE DEF Endings, Times
    <3> QED BY <1>2, <3>1 DEF Here, ManagedStates
  <2>9. PlannedIn(UpTo(instant)) = {}
      BY <1>2 DEF PlannedIn, UpTo, NoMoment
  <2>10. ~HeldSince(Here)
      BY <2>7 DEF HeldSince
  <2>11. Books(Here, Beyond(instant), UpTo(instant))
      BY <2>7, <2>8, <2>9 DEF Books
  <2> QED BY <2>6, <2>10, <2>11 DEF Standing, Covering, Priced
<1> QED BY <1>2, <1>3, <1>6 DEF ManagedInv, Endings, Times

(* The next event is the next moment.                                       *)
LEMMA ManagedMoment ==
    ASSUME ManagedKnown, instant \in Times, {e \in Moments : e > instant} # {}
    PROVE  NextMoment(instant, SmallestOf({e \in Moments : e > instant}))
<1> DEFINE rest == {e \in Moments : e > instant}
           t == SmallestOf(rest)
<1>0. /\ instant \in Int /\ LastMinute \in Nat /\ bounds[1] \in Nat /\ bounds[1] <= LastMinute
      /\ InPath(data.gaps) \in SUBSET Nat /\ InPath(data.vectors) \in SUBSET Nat
      /\ EndpointTimes(bounds[1], bounds[2]) \in SUBSET Nat
      /\ \A f \in data.planned : f.time \in Nat /\ bounds[1] <= f.time
    BY PathKnown DEF ManagedKnown, PlanFacts, Times, NoMoment, LastMinute
<1>1. \A e \in Moments : e \in Nat /\ bounds[1] <= e
    BY <1>0 DEF Moments, InPath, EndpointTimes
<1>2. rest \in SUBSET Nat
    BY <1>1
<1>3. t \in rest /\ \A e \in rest : t <= e
  <2>1. rest # {}
      OBVIOUS
  <2> HIDE DEF rest
  <2>2. \E x \in rest : \A y \in rest : x <= y
      BY <1>2, <2>1, LeastNatural
  <2> QED BY <2>2, Zenon DEF SmallestOf
<1> HIDE DEF t
<1>4. t \in Nat /\ instant < t /\ bounds[1] <= t /\ t \in Int
    BY <1>1, <1>3
<1>5. \A e \in Moments : e > instant => e >= t
    BY <1>1, <1>3, <1>4
<1>6. instant < LastMinute => t <= LastMinute
    BY <1>0, <1>3 DEF Moments
<1>7. /\ InPath(data.gaps) \subseteq Moments /\ InPath(data.vectors) \subseteq Moments
      /\ EndpointTimes(bounds[1], bounds[2]) \subseteq Moments
      /\ \A f \in data.planned : f.time \in Moments
    BY DEF Moments
<1> QED BY <1>0, <1>4, <1>5, <1>6, <1>7 DEF NextMoment, t

(* One event keeps the invariant.                                           *)
LEMMA ManagedEventSound ==
    ASSUME ManagedInv, ManagedEvent
    PROVE  ManagedInv'
<1> DEFINE rest == {e \in Moments : e > instant}
           t == SmallestOf(rest)
           noticed == NoticeGap(Here, t)
           traded == IF t = LastMinute THEN SellTerminal(noticed, t)
                                       ELSE FillPlanned(PayOwed(noticed, t), t)
           p == CheckEndpoint(traded, t)
<1>1. /\ ending = "running" /\ rest # {}
      /\ instant' = t /\ since' = p.since /\ owed' = p.owed /\ lastTrigger' = p.trigger
      /\ cancelled' = p.cancelled /\ done' = p.done /\ ending' = p.ending
      /\ data' = data /\ style' = style /\ bounds' = bounds
    BY DEF ManagedEvent
<1>2. ManagedKnown /\ instant \in Times /\ Standing(Here, instant)
    BY <1>1 DEF ManagedInv
<1>3. NextMoment(instant, t)
    BY <1>1, <1>2, ManagedMoment
<1>4. t \in Nat /\ bounds[1] <= t
    BY <1>3 DEF NextMoment
<1> HIDE DEF rest, t
<1>5. Noticed(noticed, t)
    BY <1>2, <1>3, NoticeSound
<1> HIDE DEF noticed
<1>6. Filled(traded, t)
  <2>1. CASE t = LastMinute
      BY <1>2, <1>5, <2>1, SellTerminalSound
  <2>2. CASE t # LastMinute
    <3>1. Paid(PayOwed(noticed, t), t)
        BY <1>2, <1>4, <1>5, <2>2, PaySound
    <3> QED BY <1>2, <1>4, <2>2, <3>1, FillSound
  <2> QED BY <2>1, <2>2
<1> HIDE DEF traded
<1>7. Standing(p, t)
    BY <1>2, <1>4, <1>6, CheckEndpointSound
<1> HIDE DEF p
<1>8. p \in ManagedStates /\ p.cancelled \intersect p.done = {}
    BY <1>7 DEF Standing, Books
<1>9. /\ LastMinute' = LastMinute /\ InPath(data.gaps)' = InPath(data.gaps) /\ ManagedKnown'
      /\ InPath(data.vectors)' = InPath(data.vectors)
    BY <1>1, <1>2 DEF InPath, LastMinute, ManagedKnown
<1>10. /\ ending' \in Endings /\ (cancelled \intersect done = {})'
       /\ ending' # "completed"
    BY <1>1, <1>8 DEF ManagedStates, Endings
<1>11. ASSUME ending' = "running" PROVE Standing(Here, instant)'
  <2>1. /\ Here'.since = p.since /\ Here'.owed = p.owed /\ Here'.trigger = p.trigger
        /\ Here'.cancelled = p.cancelled /\ Here'.done = p.done /\ Here'.ending = p.ending
      BY <1>1, <1>11 DEF Here
  <2>2. Here' \in ManagedStates
    <3>1. "running" \in Endings
        BY DEF Endings
    <3> HIDE DEF Endings, Times
    <3> QED BY <1>1, <1>8, <3>1 DEF Here, ManagedStates
  <2>3. /\ Beyond(instant)' = Beyond(t) /\ UpTo(instant)' = UpTo(t)
        /\ PlannedIn(UpTo(instant))' = PlannedIn(UpTo(t))
      BY <1>1, <1>9 DEF Beyond, UpTo, PlannedIn
  <2>4. Books(Here, Beyond(instant), UpTo(instant))'
      BY <1>1, <1>7, <1>9, <2>1, <2>2, <2>3 DEF Standing, Books
  <2>5. HeldSince(Here)' <=> HeldSince(p)
      BY <2>1 DEF HeldSince
  <2>6. Covering(Here, instant, instant)'
      BY <1>1, <1>7, <1>9, <2>1, <2>5 DEF Standing, Covering
  <2>7. Priced(Here, UpTo(instant))'
      BY <1>1, <1>7, <2>1, <2>3, <2>5 DEF Standing, Priced
  <2>8. HeldSince(Here)' => Here'.since <= instant' /\ instant' < LastMinute'
      BY <1>1, <1>7, <1>9, <2>1, <2>5 DEF Standing
  <2> QED BY <2>4, <2>6, <2>7, <2>8 DEF Standing
<1> QED BY <1>1, <1>4, <1>9, <1>10, <1>11 DEF ManagedInv, Times

(* The path ends in cash, with every target settled.                        *)
LEMMA ManagedCloseSound ==
    ASSUME ManagedInv, ManagedClose
    PROVE  ManagedInv'
<1>1. /\ ending = "running" /\ \A e \in Moments : e <= instant
      /\ UNCHANGED <<data, style, bounds, instant, since, owed, lastTrigger, cancelled, done>>
      /\ ending' = IF since = NoMoment THEN "completed" ELSE "not_cash"
    BY DEF ManagedClose
<1>2. ManagedKnown /\ instant \in Times /\ Standing(Here, instant)
    BY <1>1 DEF ManagedInv
<1>3. LastMinute \in Nat /\ instant >= LastMinute /\ instant \in Nat
    BY <1>1, <1>2, PathKnown DEF Moments, Times, NoMoment
<1>4. /\ Here.since = since /\ Here.cancelled = cancelled /\ Here.done = done
      /\ Here.ending = "running"
    BY DEF Here
<1>5. since = NoMoment
    BY <1>2, <1>3, <1>4 DEF Standing, HeldSince
<1>6. ASSUME style # "benchmark", NEW f \in data.planned, f.time < LastMinute
      PROVE  f.signal \in cancelled \union done
  <2>1. f.time \in Nat /\ f.time # LastMinute
      BY <1>2, <1>3, <1>6 DEF ManagedKnown, PlanFacts
  <2>2. f.time <= instant
      BY <1>1 DEF Moments
  <2>3. f \in PlannedIn(UpTo(instant))
      BY <2>1, <2>2 DEF PlannedIn, UpTo
  <2> QED BY <1>2, <1>4, <1>6, <2>1, <2>3 DEF Standing, Books
<1>7. LastMinute' = LastMinute
    BY <1>1 DEF LastMinute
<1> QED BY <1>1, <1>5, <1>6, <1>7 DEF ManagedInv

(* A missing minute the position was held over is noticed before the        *)
(* endpoint of the next day: at a row, or at an endpoint without a price.   *)
LEMMA LostIsNotHeld ==
    ASSUME ManagedInv, ending = "running", since # NoMoment, NEW m \in InPath(data.lost),
           since <= m
    PROVE  instant < (DateOf(m) + 2) * Minutes - 1
<1> DEFINE d == DateOf(m)
           D == (d + 1) * Minutes - 1
           E == (d + 2) * Minutes - 1
           x == (d + 1) * Minutes
<1>1. ManagedKnown /\ instant \in Int /\ Standing(Here, instant) /\ LastMinute < MarketEnd
      /\ LastMinute \in Nat /\ bounds[1] \in Nat /\ bounds[2] \in Nat /\ LastMinute = bounds[2] - 1
    BY PathKnown DEF ManagedInv, Times, NoMoment, ManagedKnown, LastMinute
<1>2. Here.since = since /\ HeldSince(Here) /\ since \in Nat
    BY <1>1 DEF Here, HeldSince, Standing, Books, ManagedStates, Times
<1>3. /\ m \in Nat /\ m < MarketEnd /\ m \notin data.vectors /\ bounds[1] <= m
      /\ D \in data.vectors => \E g \in data.gaps : m < g /\ g <= x
    BY <1>1 DEF ManagedKnown, InPath
<1>4. /\ d \in Nat /\ d * Minutes <= m /\ m < x /\ d \in Dates
    BY <1>3, SessionOfMinute
<1> HIDE DEF d
<1>5. /\ Minutes \in Nat /\ Minutes > 1 /\ d * Minutes \in Nat /\ x = d * Minutes + Minutes
      /\ x \in Nat /\ (d + 2) * Minutes = x + Minutes /\ (d + 1) * Minutes + Minutes - 1 = E
      /\ d * Minutes + Minutes - 1 = D
  <2>1. Minutes \in Nat /\ Minutes > 1
      BY MinuteMarketAssumption
  <2>2. d * Minutes \in Nat /\ d \in Int /\ d + 1 \in Int
      BY <1>4, <2>1
  <2>3. x = d * Minutes + Minutes /\ (d + 1 + 1) * Minutes = (d + 1) * Minutes + Minutes
      BY <2>2, SessionBounds
  <2>4. d + 1 + 1 = d + 2
      BY <2>2
  <2> QED BY <2>1, <2>2, <2>3, <2>4
<1> HIDE DEF x
<1>6. D = x - 1 /\ E = x + Minutes - 1 /\ D \in Nat /\ E \in Nat
    BY <1>4, <1>5 DEF x
<1>7. SUFFICES ASSUME instant >= E PROVE FALSE
  <2>1. E = (d + 2) * Minutes - 1
      OBVIOUS
  <2> HIDE DEF E
  <2>2. instant < E
      BY <1>1, <1>6
  <2> QED BY <2>1, <2>2 DEF d
<1> HIDE DEF D, E
<1>8. instant < LastMinute
    BY <1>1, <1>2 DEF Standing
<1>9. D \in EndpointTimes(bounds[1], bounds[2]) /\ D <= instant /\ since <= D
  <2>1. since <= D /\ bounds[1] <= D /\ D <= instant /\ D < bounds[2]
      BY <1>1, <1>2, <1>3, <1>4, <1>5, <1>6, <1>7, <1>8
  <2> QED BY <1>4, <1>5, <2>1 DEF EndpointTimes
<1>10. E \in EndpointTimes(bounds[1], bounds[2]) /\ since <= E
  <2>4. m <= E
      BY <1>3, <1>4, <1>5, <1>6
  <2>5. since <= E /\ bounds[1] <= E
      BY <1>1, <1>2, <1>3, <1>6, <2>4
  <2>6. E < LastMinute
      BY <1>1, <1>6, <1>7, <1>8
  <2>7. E < bounds[2]
      BY <1>1, <1>6, <2>6
  <2>8. E < MarketEnd
      BY <1>1, <1>6, <2>6, PathKnown
  <2>1. since <= E /\ bounds[1] <= E /\ E < bounds[2] /\ E < MarketEnd
      BY <2>5, <2>7, <2>8
  <2>2. DateOf(E) = d + 1 /\ DateOf(E) \in Dates
    <3>1. d + 1 \in Int /\ (d + 1 + 1) * Minutes = (d + 1) * Minutes + Minutes
        BY <1>4, SessionBounds
    <3>2. (d + 1) * Minutes <= E /\ E < (d + 1 + 1) * Minutes
        BY <1>5, <1>6, <3>1 DEF x
    <3> QED BY <1>6, <2>1, <3>1, <3>2, SessionOfMinute
  <2>3. E = (d + 1) * Minutes + Minutes - 1
      BY <1>5
  <2> QED BY <2>1, <2>2, <2>3 DEF EndpointTimes
<1>11. D \in data.vectors /\ E \in data.vectors
  <2>1. D \in UpTo(instant) /\ E \in UpTo(instant)
      BY <1>6, <1>7, <1>9 DEF UpTo
  <2> QED BY <1>1, <1>2, <1>9, <1>10, <2>1 DEF Standing, Priced
<1>12. PICK g \in data.gaps : m < g /\ g <= x
    BY <1>3, <1>11
<1>13. g \in Nat /\ since < g /\ g <= instant /\ g \in InPath(data.gaps) /\ g < E
  <2>1. g \in Nat
      BY <1>1 DEF ManagedKnown
  <2>2. since < g /\ g <= instant /\ bounds[1] <= g /\ g <= LastMinute /\ g < E
      BY <1>1, <1>2, <1>3, <1>5, <1>6, <1>7, <1>8, <1>12, <2>1
  <2> QED BY <2>1, <2>2 DEF InPath
<1>14. NextOf(data.vectors, g) > instant
    BY <1>1, <1>2, <1>13 DEF Standing, Covering
<1>15. NextOf(data.vectors, g) <= E
  <2>1. data.vectors \in SUBSET Nat
      BY <1>1 DEF ManagedKnown
  <2>2. E > g
      BY <1>6, <1>13
  <2> QED BY <1>11, <1>13, <2>1, <2>2, NextOfLater
<1>16. NextOf(data.vectors, g) \in Nat
  <2>1. data.vectors \in SUBSET Nat
      BY <1>1 DEF ManagedKnown
  <2>2. E > g
      BY <1>6, <1>13
  <2> QED BY <1>11, <1>13, <2>1, <2>2, NextOfLater
<1> QED BY <1>1, <1>6, <1>7, <1>14, <1>15, <1>16

(* On every loss of rows, in every role and window, no position of the      *)
(* managed study outlives a missing minute by more than a day, every path   *)
(* that lasts ends in cash, and a target is filled or cancelled and never   *)
(* both (simulate_path, its gap status and its fills).                      *)
THEOREM ManagedPathObserved == ManagedSpec => []ManagedObserved
<1>1. ManagedInit([Pair -> SUBSET Opens],
                  {w \in Nat \X Nat : w[1] < w[2] /\ w[2] <= MarketEnd}) => ManagedInv
    BY ManagedInvInit
<1>2. ManagedInv /\ [ManagedNext]_managedVars => ManagedInv'
  <2> SUFFICES ASSUME ManagedInv, [ManagedNext]_managedVars PROVE ManagedInv'
      OBVIOUS
  <2>1. CASE ManagedEvent
      BY <2>1, ManagedEventSound
  <2>2. CASE ManagedClose
      BY <2>2, ManagedCloseSound
  <2>3. CASE UNCHANGED managedVars
    <3>1. /\ data' = data /\ style' = style /\ bounds' = bounds /\ instant' = instant
          /\ since' = since /\ owed' = owed /\ lastTrigger' = lastTrigger
          /\ cancelled' = cancelled /\ done' = done /\ ending' = ending
        BY <2>3 DEF managedVars
    <3>2. /\ LastMinute' = LastMinute /\ Here' = Here /\ (ManagedKnown => ManagedKnown')
          /\ \A S : InPath(S)' = InPath(S)
        BY <3>1 DEF LastMinute, Here, ManagedKnown, InPath
    <3>3. /\ Beyond(instant)' = Beyond(instant) /\ UpTo(instant)' = UpTo(instant)
          /\ \A S : PlannedIn(S)' = PlannedIn(S)
        BY <3>1, <3>2 DEF Beyond, UpTo, PlannedIn
    <3>4. Standing(Here, instant) => Standing(Here, instant)'
        BY <3>1, <3>2, <3>3 DEF Standing, Books, Covering, Priced, HeldSince, InPath
    <3> QED BY <3>1, <3>2, <3>4 DEF ManagedInv
  <2> QED BY <2>1, <2>2, <2>3 DEF ManagedNext
<1>3. ManagedInv => ManagedObserved
  <2> SUFFICES ASSUME ManagedInv PROVE ManagedObserved
      OBVIOUS
  <2>1. ending \notin {"not_cash", "safety_vector_disappeared"}
      BY DEF ManagedInv, Endings
  <2> QED BY <2>1, LostIsNotHeld DEF ManagedInv, ManagedObserved
<1> QED BY <1>1, <1>2, <1>3, PTL DEF ManagedSpec

-----------------------------------------------------------------------------
(*****************************************************************************)
(* The trend study.  The tape of any rows has the facts the steps rely on    *)
(* (TapeFacts): fills come after their sessions and in their order, the fill of *)
(* a session whose next one is a target is the first minute after it, and no *)
(* target lies between a session and a later fill of it.  The last order was *)
(* then filled in a session already visited, or no later fill is in the period; *)
(* the next order can only be the next session.                              *)
(*****************************************************************************)

(* Every minute is in a session.                                            *)
LEMMA SessionOfOpen == \A t \in Opens : \E d \in Dates : t \in MinutesOf(d)
<1> SUFFICES ASSUME NEW t \in Opens PROVE \E d \in Dates : t \in MinutesOf(d)
    OBVIOUS
<1> DEFINE S == {d \in Nat : t < d * Minutes + Minutes}
<1>0. Minutes \in Nat /\ Minutes > 1 /\ MarketDays \in Nat /\ MarketDays > 0
    BY MinuteMarketAssumption, TrendAssumption
<1>1. MarketDays - 1 \in Int /\ (MarketDays - 1) + 1 = MarketDays
    BY <1>0
<1>2. MarketDays * Minutes = (MarketDays - 1) * Minutes + Minutes
    BY <1>1, SessionBounds
<1>3. t \in Int /\ t >= 0 /\ t < MarketDays * Minutes
    BY <1>0, SessionBounds DEF Opens, MarketEnd
<1>4. MarketDays - 1 \in S
    BY <1>0, <1>2, <1>3
<1>5. PICK d \in S : \A e \in S : d <= e
    BY <1>4, LeastNatural
<1>6. d \in Dates /\ t < d * Minutes + Minutes
  <2>1. d \in Nat /\ t < d * Minutes + Minutes /\ d <= MarketDays - 1
      BY <1>4, <1>5
  <2> QED BY <1>0, <2>1 DEF Dates
<1>7. d * Minutes <= t
  <2>1. CASE d = 0
      BY <1>0, <1>3, <2>1
  <2>2. CASE d # 0
    <3>1. d - 1 \in Nat /\ (d - 1) + 1 = d /\ d - 1 \notin S
        BY <1>5, <1>6, <2>2 DEF Dates
    <3>2. d * Minutes = (d - 1) * Minutes + Minutes /\ d * Minutes \in Int
        BY <3>1, SessionBounds
    <3> QED BY <1>3, <3>1, <3>2
  <2> QED BY <2>1, <2>2
<1>8. (d + 1) * Minutes = d * Minutes + Minutes /\ d * Minutes \in Int
    BY <1>6, SessionBounds
<1> QED BY <1>0, <1>3, <1>6, <1>7, <1>8 DEF MinutesOf

(* The segment offset is what _complete_segments counts: it exists, and it  *)
(* satisfies its equation.                                                  *)
LEMMA SegmentOffsetEquation ==
    ASSUME NEW rows \in [Pair -> SUBSET Opens], NEW a \in Pair
    PROVE  LET run == SegmentOffset(rows, a)
           IN  \A d \in -1 .. MarketDays - 1 :
                  run[d] = IF d = -1 \/ ~WholeSession(rows, a, d) THEN 0 ELSE run[d - 1] + 1
<1> DEFINE D == -1 .. MarketDays - 1
           Fresh(d) == d = -1 \/ ~WholeSession(rows, a, d)
           Broken(d) == {e \in D : e <= d /\ Fresh(e)}
           Latest(d, e) == e \in Broken(d) /\ \A f \in Broken(d) : f <= e
           g == [d \in D |-> d - (CHOOSE e \in D : Latest(d, e))]
<1>0. MarketDays \in Nat /\ MarketDays > 0
    BY MinuteMarketAssumption
<1>1. \A d \in D : \E e \in D : Latest(d, e)
  <2> SUFFICES ASSUME NEW d \in D PROVE \E e \in D : Latest(d, e)
      OBVIOUS
  <2>1. -1 \in Broken(d) /\ Broken(d) \in SUBSET Int /\ d \in Int /\ \A y \in Broken(d) : y <= d
      BY <1>0
  <2> HIDE DEF Broken
  <2>2. \E e \in Broken(d) : \A f \in Broken(d) : f <= e
      BY <2>1, LargestInteger
  <2> QED BY <2>2 DEF Broken
<1>2. \A d, e, f \in D : Latest(d, e) /\ Latest(d, f) => e = f
    OBVIOUS
<1>3. \A d, e \in D : Latest(d, e) => g[d] = d - e
  <2> SUFFICES ASSUME NEW d \in D, NEW e \in D, Latest(d, e) PROVE g[d] = d - e
      OBVIOUS
  <2> DEFINE c == CHOOSE x \in D : Latest(d, x)
  <2> HIDE DEF Latest
  <2>1. c \in D /\ Latest(d, c)
      OBVIOUS
  <2>2. c = e
      BY <1>2, <2>1
  <2>3. g[d] = d - c
      OBVIOUS
  <2> QED BY <2>2, <2>3
<1>4. \A d \in D : g[d] = IF Fresh(d) THEN 0 ELSE g[d - 1] + 1
  <2> SUFFICES ASSUME NEW d \in D PROVE g[d] = IF Fresh(d) THEN 0 ELSE g[d - 1] + 1
      OBVIOUS
  <2> HIDE DEF g, Fresh
  <2>1. CASE Fresh(d)
    <3>1. Latest(d, d)
        BY <2>1
    <3> QED BY <1>0, <1>3, <2>1, <3>1
  <2>2. CASE ~Fresh(d)
    <3>1. d # -1 /\ d - 1 \in D /\ d \in Int
        BY <1>0, <2>2 DEF Fresh
    <3>2. PICK e \in D : Latest(d - 1, e)
        BY <1>1, <3>1
    <3>3. Broken(d) = Broken(d - 1)
        BY <2>2, <3>1
    <3>4. Latest(d, e)
        BY <3>2, <3>3
    <3> HIDE DEF Latest
    <3>5. g[d] = d - e /\ g[d - 1] = d - 1 - e
        BY <1>3, <3>1, <3>2, <3>4
    <3> QED BY <2>2, <3>1, <3>5
  <2> QED BY <2>1, <2>2
<1>5. g = [d \in D |-> IF Fresh(d) THEN 0 ELSE g[d - 1] + 1]
  <2> DEFINE h == [d \in D |-> IF Fresh(d) THEN 0 ELSE g[d - 1] + 1]
  <2>1. \A d \in D : g[d] = h[d]
    <3> HIDE DEF g, Fresh
    <3> QED BY <1>4
  <2>2. g = [d \in D |-> g[d]] /\ h = [d \in D |-> h[d]]
      OBVIOUS
  <2> QED BY <2>1, <2>2, Zenon
<1> HIDE DEF g
<1>6. SegmentOffset(rows, a)
        = CHOOSE run : run = [d \in D |-> IF Fresh(d) THEN 0 ELSE run[d - 1] + 1]
    BY DEF SegmentOffset
<1> DEFINE run == SegmentOffset(rows, a)
<1>7. run = [d \in D |-> IF Fresh(d) THEN 0 ELSE run[d - 1] + 1]
    BY <1>5, <1>6, Zenon
<1> HIDE DEF run
<1>8. \A d \in D : run[d] = IF Fresh(d) THEN 0 ELSE run[d - 1] + 1
  <2> HIDE DEF Fresh
  <2> QED BY <1>7
<1> QED BY <1>8 DEF run

(* What the loaded market guarantees of sessions, targets and fills.        *)
FillsLater ==
    \A a \in Pair, d \in Dates : tape.fills[a][d] # NoMoment =>
        tape.fills[a][d] \in Opens /\ tape.fills[a][d] > d * Minutes + Minutes
FillsAscend ==
    \A a \in Pair : \A d, e \in Dates :
        d < e /\ tape.fills[a][d] # NoMoment /\ tape.fills[a][e] # NoMoment =>
            tape.fills[a][d] <= tape.fills[a][e]
TargetsExpect ==
    \A a \in Pair : /\ tape.targets[a] \subseteq Dates
                    /\ \A d, e \in Dates : e = d + 1 /\ e \in tape.targets[a] =>
                          tape.fills[a][d] = d * Minutes + Minutes + 1
NoTargetOverHole ==
    \A a \in Pair : \A d, y \in Dates :
        tape.fills[a][d] # NoMoment /\ tape.fills[a][d] \in MinutesOf(y) =>
            /\ d < y
            /\ d + 1 < y => \A e \in Dates : d < e /\ e <= y => e \notin tape.targets[a]
LeadHasSessions ==
    \A d, y \in Dates :
        tape.fills[Lead][d] # NoMoment /\ tape.fills[Lead][d] \in MinutesOf(y) => y \in tape.sessions
TargetsObserved ==
    \A d \in Dates : (\A a \in Pair : d \in tape.targets[a]) => MinutesOf(d) \subseteq tape.vectors

TapeFacts ==
    /\ tape.sessions \subseteq Dates
    /\ FillsLater /\ FillsAscend /\ TargetsExpect /\ NoTargetOverHole
    /\ LeadHasSessions /\ TargetsObserved

(* The tape of any rows has the facts the steps rely on.                    *)
LEMMA TapeOfRows ==
    ASSUME NEW rows \in [Pair -> SUBSET Opens], tape = Tape(rows)
    PROVE  TapeFacts
<1>0. /\ Minutes \in Nat /\ Minutes > 1 /\ MarketDays \in Nat /\ MarketDays > 0
      /\ RunRequired \in Int /\ RunRequired > 1 /\ Lead \in Pair
  <2>1. Minutes \in Nat /\ MarketDays \in Nat /\ MarketDays > 0 /\ RunRequired \in Nat
      BY MinuteMarketAssumption
  <2> QED BY <2>1, MinuteMarketAssumption, TrendAssumption
<1>1. /\ tape.sessions = SessionsOf(rows, Lead) /\ tape.vectors = Vectors(rows)
      /\ \A a \in Pair : tape.targets[a] = Exposed(rows, a)
      /\ \A a \in Pair, d \in Dates : tape.fills[a][d] = NextOf(rows[a], (d + 1) * Minutes)
    BY DEF Tape, CausalFill
<1>2. \A a \in Pair : rows[a] \subseteq Opens /\ rows[a] \in SUBSET Nat
    BY DEF Opens
<1>3. \A d \in Dates : /\ d \in Nat /\ d <= MarketDays - 1
                       /\ d * Minutes \in Nat /\ (d + 1) * Minutes = d * Minutes + Minutes
  <2>1. \A d \in Dates : d \in Nat /\ d <= MarketDays - 1
      BY <1>0 DEF Dates
  <2>2. \A d \in Nat : d * Minutes \in Nat
      BY <1>0
  <2> QED BY <2>1, <2>2, SessionBounds
<1>4. \A d, t \in Int : t \in MinutesOf(d) <=> d * Minutes <= t /\ t < d * Minutes + Minutes
    BY <1>0, SessionBounds DEF MinutesOf
<1>5. ASSUME NEW a \in Pair, NEW d \in Dates
      PROVE  LET n == tape.fills[a][d] IN
             /\ n # NoMoment => /\ n \in rows[a] /\ n \in Opens /\ n > d * Minutes + Minutes
                               /\ \A v \in rows[a] : v > d * Minutes + Minutes => n <= v
             /\ (\E v \in rows[a] : v > d * Minutes + Minutes) => n # NoMoment
  <2> DEFINE t == d * Minutes + Minutes
             n == NextOf(rows[a], t)
  <2>1. t \in Nat /\ rows[a] \in SUBSET Nat
      BY <1>0, <1>2, <1>3
  <2> HIDE DEF t
  <2>2. /\ n # NoMoment => /\ n \in rows[a] /\ n > t
                          /\ \A v \in rows[a] : v > t => n <= v
        /\ (\E v \in rows[a] : v > t) => n # NoMoment
      BY <2>1, NextOfLater
  <2>3. tape.fills[a][d] = n
      BY <1>1, <1>3 DEF t
  <2> HIDE DEF n
  <2> QED BY <1>2, <2>2, <2>3 DEF t
<1>6. ASSUME NEW a \in Pair, NEW d \in Dates, d \in tape.targets[a]
      PROVE  WholeSession(rows, a, d) /\ d > 0 /\ WholeSession(rows, a, d - 1)
  <2> DEFINE run == SegmentOffset(rows, a)
             m == d - 1
  <2>1. \A x \in -1 .. MarketDays - 1 :
           run[x] = IF x = -1 \/ ~WholeSession(rows, a, x) THEN 0 ELSE run[x - 1] + 1
      BY SegmentOffsetEquation
  <2>2. run[d] >= RunRequired
      BY <1>1, <1>6 DEF Exposed
  <2> HIDE DEF run
  <2>3. d \in -1 .. MarketDays - 1 /\ m \in -1 .. MarketDays - 1 /\ d # -1
      BY <1>0, <1>3
  <2>4. run[d] = IF ~WholeSession(rows, a, d) THEN 0 ELSE run[m] + 1
      BY <2>1, <2>3
  <2>5. run[m] = IF m = -1 \/ ~WholeSession(rows, a, m) THEN 0 ELSE run[m - 1] + 1
      BY <2>1, <2>3
  <2>6. WholeSession(rows, a, d)
      BY <1>0, <2>2, <2>4
  <2>7. ~(m = -1 \/ ~WholeSession(rows, a, m))
      BY <1>0, <2>2, <2>4, <2>5
  <2> QED BY <1>3, <2>6, <2>7
<1>7. tape.sessions \subseteq Dates
    BY <1>1 DEF SessionsOf
<1>8. FillsLater
    BY <1>5 DEF FillsLater
<1>9. FillsAscend
  <2> SUFFICES ASSUME NEW a \in Pair, NEW d \in Dates, NEW e \in Dates, d < e,
                      tape.fills[a][d] # NoMoment, tape.fills[a][e] # NoMoment
               PROVE  tape.fills[a][d] <= tape.fills[a][e]
      BY DEF FillsAscend
  <2>1. tape.fills[a][e] \in rows[a] /\ tape.fills[a][e] > e * Minutes + Minutes
        /\ tape.fills[a][e] \in Nat
      BY <1>2, <1>5
  <2>2. d * Minutes + Minutes <= e * Minutes /\ d * Minutes \in Nat /\ e * Minutes \in Nat
      BY <1>3, SessionBounds
  <2>3. tape.fills[a][e] > d * Minutes + Minutes
      BY <1>0, <2>1, <2>2
  <2> QED BY <1>5, <2>1, <2>3
<1>10. TargetsExpect
  <2>1. ASSUME NEW a \in Pair, NEW d \in Dates, NEW e \in Dates, e = d + 1, e \in tape.targets[a]
        PROVE  tape.fills[a][d] = d * Minutes + Minutes + 1
    <3> DEFINE v == d * Minutes + Minutes + 1
               n == tape.fills[a][d]
    <3>1. e * Minutes = d * Minutes + Minutes /\ d * Minutes \in Nat /\ v \in Nat
        BY <1>0, <1>3, <2>1
    <3>2. v \in MinutesOf(e)
        BY <1>0, <1>3, <1>4, <3>1
    <3> HIDE DEF v
    <3>5. WholeSession(rows, a, e)
        BY <1>6, <2>1
    <3>3. v \in rows[a] /\ v > d * Minutes + Minutes
        BY <1>0, <3>1, <3>2, <3>5 DEF WholeSession, v
    <3> USE DEF v
    <3>4. n # NoMoment /\ n <= v /\ n > d * Minutes + Minutes /\ n \in Opens
        BY <1>5, <3>3
    <3> QED BY <1>0, <3>1, <3>4 DEF Opens
  <2> QED BY <1>1, <2>1 DEF TargetsExpect, Exposed
<1>11. NoTargetOverHole
  <2> SUFFICES ASSUME NEW a \in Pair, NEW d \in Dates, NEW y \in Dates,
                      tape.fills[a][d] # NoMoment, tape.fills[a][d] \in MinutesOf(y)
               PROVE  /\ d < y
                      /\ d + 1 < y =>
                            \A e \in Dates : d < e /\ e <= y => e \notin tape.targets[a]
      BY DEF NoTargetOverHole
  <2> DEFINE n == tape.fills[a][d]
  <2>1. /\ n \in rows[a] /\ n \in Nat /\ n > d * Minutes + Minutes
        /\ \A v \in rows[a] : v > d * Minutes + Minutes => n <= v
      BY <1>2, <1>5
  <2> HIDE DEF n
  <2>2. y * Minutes <= n /\ n < y * Minutes + Minutes
      BY <1>3, <1>4, <2>1 DEF n
  <2>3. d < y
    <3> SUFFICES ASSUME ~(d < y) PROVE FALSE
        OBVIOUS
    <3>1. y = d \/ y < d
        BY <1>3
    <3>2. y < d => y * Minutes + Minutes <= d * Minutes
        BY <1>3, SessionBounds
    <3> QED BY <1>0, <1>3, <2>1, <2>2, <3>1, <3>2
  (* Before the session of the fill, none is whole.                         *)
  <2>4. ASSUME NEW e \in Dates, d < e, e < y, d + 1 < y PROVE ~WholeSession(rows, a, e)
    <3> DEFINE v == e * Minutes + 1
    <3>1. d * Minutes + Minutes <= e * Minutes /\ e * Minutes + Minutes <= y * Minutes
        BY <1>3, <2>4, SessionBounds
    <3>2. v \in Nat /\ v \in MinutesOf(e) /\ v > d * Minutes + Minutes /\ v < n
        BY <1>0, <1>3, <1>4, <2>1, <2>2, <3>1
    <3>3. v \notin rows[a]
        BY <2>1, <3>2
    <3> QED BY <3>2, <3>3 DEF WholeSession
  <2>5. ASSUME NEW e \in Dates, d + 1 < y, d < e, e <= y, e \in tape.targets[a] PROVE FALSE
    <3>1. WholeSession(rows, a, e) /\ e > 0 /\ WholeSession(rows, a, e - 1)
        BY <1>6, <2>5
    <3>2. ~(e < y)
        BY <2>4, <2>5, <3>1
    <3>3. d \in Nat /\ e \in Nat /\ y \in Nat /\ y <= MarketDays - 1
        BY <1>3
    <3>4. e = y /\ d < e - 1 /\ e - 1 < y /\ e - 1 \in Dates
        BY <1>0, <2>5, <3>2, <3>3 DEF Dates
    <3> QED BY <2>4, <2>5, <3>1, <3>4
  <2> QED BY <2>3, <2>5
<1>12. LeadHasSessions
  <2> SUFFICES ASSUME NEW d \in Dates, NEW y \in Dates, tape.fills[Lead][d] # NoMoment,
                      tape.fills[Lead][d] \in MinutesOf(y)
               PROVE  y \in tape.sessions
      BY DEF LeadHasSessions
  <2>1. tape.fills[Lead][d] \in rows[Lead]
      BY <1>0, <1>5
  <2> QED BY <1>1, <2>1 DEF SessionsOf
<1>13. TargetsObserved
  <2> SUFFICES ASSUME NEW d \in Dates, \A a \in Pair : d \in tape.targets[a], NEW t \in MinutesOf(d)
               PROVE  t \in tape.vectors
      BY DEF TargetsObserved
  <2>1. \A a \in Pair : t \in rows[a]
      BY <1>6 DEF WholeSession
  <2>2. t \in Opens
      BY <1>0, <1>2, <2>1
  <2> QED BY <1>1, <2>1, <2>2 DEF Vectors
<1> QED BY <1>7, <1>8, <1>9, <1>10, <1>11, <1>12, <1>13 DEF TapeFacts

(* Where the walk stands after its last fill: before the session the fill   *)
(* lies in, or where no later session has a fill in the period.             *)
(* The fill lies in a session that the path has not reached yet, or none of *)
(* the fills to come is in the period.                                      *)
BeforeFill(fill) ==
    \E y \in Dates : fill.time \in MinutesOf(y) /\ fill.session <= visited /\ visited < y
NoneInPeriod ==
    \A e \in Dates : e > visited /\ tape.fills[Lead][e] # NoMoment =>
        tape.fills[Lead][e] >= period[2]
LastOrder == orders[Len(orders)]

(* Every order is the fill of a session with a target of every symbol.      *)
OrdersKnown ==
    \A i \in 1 .. Len(orders) :
        /\ \A a \in symbols : /\ orders[i].session \in tape.targets[a]
                             /\ tape.fills[a][orders[i].session] = orders[i].time
        /\ orders[i].time # NoMoment /\ InPeriod(orders[i].time)
OrdersAdjacent ==
    \A i \in 1 .. Len(orders) - 1 : orders[i + 1].session = orders[i].session + 1

TrendTypes ==
    /\ symbols \in {Pair, {Lead}} /\ period \in TrendPeriods
    /\ visited \in -1 .. MarketDays - 1
    /\ orders \in Seq([session : Dates, time : Opens])

TrendInv ==
    /\ TrendTypes /\ TapeFacts /\ OrdersKnown /\ OrdersAdjacent
    /\ orders # <<>> => started = TRUE
    /\ ended = "running" /\ orders # <<>> => BeforeFill(LastOrder) \/ NoneInPeriod

(* Fills at one time are the first symbol's.                                *)
LEMMA FillsAlike ==
    ASSUME symbols \in {Pair, {Lead}}, NEW d, ~(Cardinality(Fills(d)) > 1)
    PROVE  Lead \in symbols /\ \A a \in symbols : tape.fills[a][d] = FillTime(d)
<1>1. IsFiniteSet(symbols) /\ Lead \in symbols
    BY TrendAssumption, FS_Singleton
<1> DEFINE f == [a \in symbols |-> tape.fills[a][d]]
<1>2. f \in Surjection(symbols, Fills(d))
    BY DEF Surjection, Fills
<1>3. IsFiniteSet(Fills(d))
    BY <1>1, <1>2, FS_Surjection
<1>4. FillTime(d) \in Fills(d)
    BY <1>1, Zenon DEF FillTime, Fills
<1>5. ASSUME NEW x \in Fills(d), NEW y \in Fills(d), x # y PROVE FALSE
  <2>1. IsFiniteSet({x}) /\ Cardinality({x}) = 1
      BY FS_Singleton
  <2>2. Cardinality({x} \cup {y}) = 2
      BY <1>5, <2>1, FS_AddElement
  <2>3. {x} \cup {y} \in SUBSET Fills(d)
      OBVIOUS
  <2>4. Cardinality({x} \cup {y}) <= Cardinality(Fills(d))
      BY <1>3, <2>3, FS_Subset
  <2>5. Cardinality(Fills(d)) \in Nat
      BY <1>3, FS_CardinalityType
  <2> QED BY <2>2, <2>4, <2>5
<1> QED BY <1>1, <1>4, <1>5 DEF Fills

(* Midnights of a period.                                                   *)
LEMMA PeriodTypes ==
    ASSUME period \in TrendPeriods
    PROVE  \E from, to \in Nat : /\ period[1] = from * Minutes /\ period[2] = to * Minutes
                                /\ period[1] \in Nat /\ period[2] \in Nat
<1>1. PICK from \in Nat, to \in Nat : period = <<from * Minutes, to * Minutes>>
    BY DEF TrendPeriods
<1>2. \A m \in Nat : m * Minutes \in Nat
    BY MinuteMarketAssumption
<1> QED BY <1>1, <1>2

(* The last fill of the walk.                                               *)
LEMMA LastOrderKnown ==
    ASSUME TrendInv, orders # <<>>
    PROVE  /\ Len(orders) \in Nat /\ Len(orders) \in 1 .. Len(orders)
           /\ LastOrder.session \in Dates /\ LastOrder.time \in Opens
           /\ InPeriod(LastOrder.time) /\ LastOrder.time # NoMoment
           /\ Lead \in symbols /\ Lead \in Pair
           /\ LastOrder.session \in tape.targets[Lead]
           /\ tape.fills[Lead][LastOrder.session] = LastOrder.time
<1> DEFINE R == [session : Dates, time : Opens]
<1>1. orders \in Seq(R)
    BY DEF TrendInv, TrendTypes
<1> HIDE DEF R
<1>2. Len(orders) \in Nat /\ Len(orders) \in 1 .. Len(orders)
    BY <1>1
<1>3. LastOrder \in R
    BY <1>1, <1>2 DEF LastOrder
<1>4. Lead \in symbols /\ Lead \in Pair
    BY TrendAssumption DEF TrendInv, TrendTypes
<1>5. /\ LastOrder.session \in tape.targets[Lead]
      /\ tape.fills[Lead][LastOrder.session] = LastOrder.time
      /\ InPeriod(LastOrder.time) /\ LastOrder.time # NoMoment
    BY <1>2, <1>4 DEF TrendInv, OrdersKnown, LastOrder
<1> QED BY <1>2, <1>3, <1>4, <1>5 DEF R

(* The session a ready fill after the last one belongs to.                  *)
LEMMA NextReady ==
    ASSUME TrendInv, NEW d \in Dates, Visiting(d), orders # <<>>, BeforeFill(LastOrder)
    PROVE  /\ \E y \in Dates : LastOrder.time \in MinutesOf(y) /\ d <= y /\ LastOrder.session < d
           /\ d \in tape.targets[Lead] =>
                 d = LastOrder.session + 1 /\ LastOrder.time = d * Minutes + 1
<1> DEFINE L == LastOrder
           s == L.session
<1>1. s \in Dates
    BY LastOrderKnown
<1>2. /\ Lead \in symbols /\ Lead \in Pair
      /\ s \in tape.targets[Lead] /\ tape.fills[Lead][s] = L.time /\ L.time # NoMoment
    BY LastOrderKnown
<1> HIDE DEF L
<1>3. PICK y \in Dates : L.time \in MinutesOf(y) /\ s <= visited /\ visited < y
    BY DEF BeforeFill, L
<1>4. s \in Dates
    BY <1>1
<1> HIDE DEF s
<1>5. y \in tape.sessions /\ s < y
    BY <1>2, <1>3, <1>4 DEF TrendInv, TapeFacts, LeadHasSessions, NoTargetOverHole
<1>6. /\ d \in Nat /\ s \in Nat /\ y \in Nat /\ visited \in Int
      /\ d > visited
    BY <1>4 DEF Visiting, Dates, TrendInv, TrendTypes
<1>7. d <= y /\ s < d
    BY <1>3, <1>5, <1>6 DEF Visiting
<1>8. ASSUME d \in tape.targets[Lead] PROVE d = s + 1 /\ L.time = d * Minutes + 1
  <2>1. ~(s + 1 < y)
      BY <1>2, <1>3, <1>4, <1>7, <1>8 DEF TrendInv, TapeFacts, NoTargetOverHole
  <2>2. d = s + 1
      BY <1>5, <1>6, <1>7, <2>1
  <2>3. tape.fills[Lead][s] = s * Minutes + Minutes + 1
      BY <1>2, <1>4, <1>8, <2>2 DEF TrendInv, TapeFacts, TargetsExpect
  <2>4. d * Minutes = s * Minutes + Minutes
      BY <1>6, <2>2, SessionBounds
  <2> QED BY <1>2, <2>2, <2>3, <2>4
<1> QED BY <1>3, <1>7, <1>8 DEF L, s

(* A session without target or fill.                                        *)
LEMMA MissStep ==
    ASSUME TrendInv, NEW d \in Dates, Visiting(d), MissSession(d), UNCHANGED <<tape, symbols, period>>
    PROVE  TrendInv'
<1>1. /\ visited' = d /\ UNCHANGED <<started, orders>> /\ d \in Nat /\ d > visited
      /\ visited \in Int /\ ended = "running" /\ d \in -1 .. MarketDays - 1
      /\ ended' = "running" => ~(started /\ InPeriod(d * Minutes))
    BY DEF MissSession, Visiting, Dates, TrendInv, TrendTypes
<1>2. TrendTypes' /\ OrdersKnown' /\ OrdersAdjacent'
  <2>1. TrendTypes'
    <3> DEFINE R == [session : Dates, time : Opens]
    <3>1. orders \in Seq(R) /\ symbols \in {Pair, {Lead}} /\ period \in TrendPeriods
        BY DEF TrendInv, TrendTypes
    <3> HIDE DEF R
    <3>2. /\ orders' \in Seq(R) /\ symbols' \in {Pair, {Lead}} /\ period' \in TrendPeriods
          /\ visited' \in -1 .. MarketDays - 1
        BY <1>1, <3>1
    <3> QED BY <3>2 DEF TrendTypes, R, TrendPeriods, Dates, Opens, MarketEnd
  <2>2. OrdersKnown'
      BY <1>1 DEF TrendInv, OrdersKnown, InPeriod
  <2> QED BY <1>1, <2>1, <2>2 DEF TrendInv, OrdersAdjacent
<1>3. TapeFacts'
    BY DEF TrendInv, TapeFacts, FillsLater, FillsAscend, TargetsExpect, NoTargetOverHole,
           LeadHasSessions, TargetsObserved, Dates, Opens, MarketEnd, MinutesOf
<1>4. ASSUME ended' = "running", orders' # <<>> PROVE BeforeFill(LastOrder)' \/ NoneInPeriod'
  <2>1. orders # <<>> /\ started = TRUE /\ ~InPeriod(d * Minutes)
      BY <1>1, <1>4 DEF TrendInv
  <2>2. CASE NoneInPeriod
    <3>1. \A e \in Dates : e > d => e > visited
        BY <1>1 DEF Dates
    <3> QED BY <1>1, <2>2, <3>1 DEF NoneInPeriod, Dates
  <2>3. CASE BeforeFill(LastOrder)
    <3> DEFINE L == LastOrder
    <3>1. PICK y \in Dates : L.time \in MinutesOf(y) /\ d <= y /\ L.session < d
        BY <2>1, <2>3, NextReady
    <3>2. L.time \in Opens /\ L.session \in Dates /\ InPeriod(L.time)
        BY <2>1, LastOrderKnown
    <3>3. LastOrder' = L
        BY <1>1 DEF LastOrder
    <3> HIDE DEF L
    <3>4. PICK from \in Nat, to \in Nat : /\ period[1] = from * Minutes /\ period[2] = to * Minutes
                                          /\ period[1] \in Nat /\ period[2] \in Nat
        BY PeriodTypes DEF TrendInv, TrendTypes
    <3>5. /\ y \in Nat /\ y * Minutes \in Int /\ y * Minutes <= L.time
          /\ L.time < y * Minutes + Minutes /\ L.time \in Int /\ Minutes \in Nat
      <4>1. y \in Nat /\ L.time \in Nat /\ Minutes \in Nat
          BY <3>2, MinuteMarketAssumption DEF Dates, Opens
      <4>2. y * Minutes \in Int /\ (y + 1) * Minutes = y * Minutes + Minutes
          BY <4>1, SessionBounds
      <4> QED BY <3>1, <4>1, <4>2 DEF MinutesOf
    <3>6. L.session <= d /\ L.session \in Nat
        BY <1>1, <3>1, <3>2 DEF Dates
    <3>7. d # y
      <4> SUFFICES ASSUME d = y PROVE FALSE
          OBVIOUS
      <4>1. from * Minutes <= L.time /\ L.time < to * Minutes
          BY <3>2, <3>4 DEF InPeriod
      <4>2. from <= y
        <5> SUFFICES ASSUME y < from PROVE FALSE
            BY <3>5
        <5>1. y * Minutes + Minutes <= from * Minutes
            BY <3>5, SessionBounds
        <5> QED BY <3>4, <3>5, <4>1, <5>1
      <4>3. from * Minutes <= y * Minutes
        <5>1. CASE from = y
            BY <3>4, <5>1
        <5>2. CASE from < y
          <6>1. from * Minutes + Minutes <= y * Minutes
              BY <3>5, <5>2, SessionBounds
          <6> QED BY <3>4, <3>5, <6>1
        <5> QED BY <3>5, <4>2, <5>1, <5>2
      <4>4. y * Minutes < to * Minutes
          BY <3>4, <3>5, <4>1
      <4> QED BY <2>1, <3>4, <4>3, <4>4 DEF InPeriod
    <3>8. d < y
        BY <1>1, <3>1, <3>5, <3>7
    <3> QED BY <1>1, <3>1, <3>3, <3>6, <3>8 DEF BeforeFill, MinutesOf, Dates
  <2> QED BY <1>1, <2>1, <2>2, <2>3 DEF TrendInv
<1> QED BY <1>1, <1>2, <1>3, <1>4 DEF TrendInv

(* A session with target and fill.                                          *)
LEMMA TakeStep ==
    ASSUME TrendInv, NEW d \in Dates, Visiting(d), Ready(d), TakeFill(d),
           UNCHANGED <<tape, symbols, period>>
    PROVE  TrendInv'
<1> DEFINE R == [session : Dates, time : Opens]
           t == FillTime(d)
           fill == [session |-> d, time |-> t]
           n == Len(orders)
<1>1. /\ visited' = d /\ d \in Nat /\ d > visited /\ visited \in Int
      /\ ended = "running" /\ d \in -1 .. MarketDays - 1 /\ MarketDays \in Nat
    BY MinuteMarketAssumption DEF TakeFill, Visiting, Dates, TrendInv, TrendTypes
<1>2. orders \in Seq(R) /\ symbols \in {Pair, {Lead}} /\ period \in TrendPeriods
    BY DEF TrendInv, TrendTypes
<1>3. TapeFacts'
    BY DEF TrendInv, TapeFacts, FillsLater, FillsAscend, TargetsExpect, NoTargetOverHole,
           LeadHasSessions, TargetsObserved, Dates, Opens, MarketEnd, MinutesOf
<1> HIDE DEF R
<1>4. ASSUME orders' \in Seq(R) PROVE TrendTypes'
  <2>1. /\ symbols' \in {Pair, {Lead}} /\ period' \in TrendPeriods
        /\ visited' \in -1 .. MarketDays - 1
      BY <1>1, <1>2
  <2> QED BY <1>4, <2>1 DEF TrendTypes, R, TrendPeriods, Dates, Opens, MarketEnd
<1>5. NoneInPeriod /\ orders' = orders => NoneInPeriod'
  <2>1. \A e \in Dates : e > d => e > visited
      BY <1>1 DEF Dates
  <2> QED BY <1>1, <2>1 DEF NoneInPeriod, Dates
<1>6. CASE Cardinality(Fills(d)) > 1
  <2>1. ended' = "unaligned" /\ UNCHANGED <<started, orders>>
      BY <1>6 DEF TakeFill
  <2>2. OrdersKnown' /\ OrdersAdjacent' /\ (orders' # <<>> => started' = TRUE)
      BY <2>1 DEF TrendInv, OrdersKnown, OrdersAdjacent, InPeriod
  <2> QED BY <1>2, <1>3, <1>4, <2>1, <2>2 DEF TrendInv
<1>7. CASE ~(Cardinality(Fills(d)) > 1)
  <2>1. Lead \in symbols /\ Lead \in Pair /\ \A a \in symbols : tape.fills[a][d] = t
      BY <1>2, <1>7, FillsAlike, TrendAssumption
  <2>2. /\ \A a \in symbols : d \in tape.targets[a] /\ tape.fills[a][d] = t
        /\ t # NoMoment /\ tape.fills[Lead][d] = t /\ d \in tape.targets[Lead]
      BY <2>1 DEF Ready
  <2> HIDE DEF t
  <2>3. t \in Opens /\ t > d * Minutes + Minutes
      BY <2>1, <2>2 DEF TrendInv, TapeFacts, FillsLater
  <2>4. t \in Nat /\ d * Minutes \in Int /\ Minutes \in Nat
      BY <1>1, <2>3, SessionBounds, MinuteMarketAssumption DEF Opens
  <2>5. CASE ~InPeriod(t)
    <3>1. UNCHANGED <<started, orders, ended>>
        BY <1>7, <2>5 DEF TakeFill, t
    <3>2. OrdersKnown' /\ OrdersAdjacent' /\ (orders' # <<>> => started' = TRUE)
        BY <3>1 DEF TrendInv, OrdersKnown, OrdersAdjacent, InPeriod
    <3>3. ASSUME orders # <<>>, BeforeFill(LastOrder) PROVE NoneInPeriod'
      <4> DEFINE L == LastOrder
      <4>1. L.time = d * Minutes + 1 /\ L.time \in Opens /\ InPeriod(L.time)
          BY <2>2, <3>3, NextReady, LastOrderKnown
      <4> HIDE DEF L
      <4>2. PICK from \in Nat, to \in Nat : /\ period[1] = from * Minutes /\ period[2] = to * Minutes
                                            /\ period[1] \in Nat /\ period[2] \in Nat
          BY <1>2, PeriodTypes
      <4>3. t >= period[2]
          BY <2>3, <2>4, <2>5, <4>1, <4>2 DEF InPeriod
      <4>4. ASSUME NEW e \in Dates, e > d, tape.fills[Lead][e] # NoMoment
            PROVE  tape.fills[Lead][e] >= period[2]
        <5>1. t <= tape.fills[Lead][e] /\ tape.fills[Lead][e] \in Opens
            BY <1>1, <2>1, <2>2, <4>4 DEF TrendInv, TapeFacts, FillsAscend, FillsLater
        <5> QED BY <2>4, <4>2, <4>3, <5>1 DEF Opens
      <4> QED BY <1>1, <4>4 DEF NoneInPeriod, Dates
    <3>4. ASSUME orders' # <<>> PROVE NoneInPeriod'
        BY <1>1, <1>5, <3>1, <3>3, <3>4 DEF TrendInv
    <3> QED BY <1>2, <1>3, <1>4, <3>1, <3>2, <3>4 DEF TrendInv
  <2>6. CASE InPeriod(t)
    <3>1. started' = TRUE /\ orders' = Append(orders, fill) /\ ended' = ended
        BY <1>7, <2>6 DEF TakeFill, t
    <3>2. fill \in R
        BY <2>3 DEF R
    <3>3. /\ orders' \in Seq(R) /\ n \in Nat /\ Len(orders') = n + 1 /\ orders'[n + 1] = fill
          /\ \A i \in 1 .. n : orders'[i] = orders[i]
        BY <1>2, <3>1, <3>2
    <3>4. fill.session = d /\ fill.time = t
        OBVIOUS
    <3> HIDE DEF fill, n
    <3>5. \A i \in 1 .. n : /\ \A a \in symbols : /\ orders[i].session \in tape.targets[a]
                                                  /\ tape.fills[a][orders[i].session] = orders[i].time
                            /\ orders[i].time # NoMoment /\ InPeriod(orders[i].time)
        BY DEF TrendInv, OrdersKnown, n
    <3>6. OrdersKnown'
      <4>1. \A i \in 1 .. n + 1 :
              /\ \A a \in symbols : /\ orders'[i].session \in tape.targets[a]
                                   /\ tape.fills[a][orders'[i].session] = orders'[i].time
              /\ orders'[i].time # NoMoment /\ InPeriod(orders'[i].time)
        <5>1. \A i \in 1 .. n + 1 : i \in 1 .. n \/ i = n + 1
            BY <3>3
        <5> QED BY <2>2, <2>6, <3>3, <3>4, <3>5, <5>1
      <4> QED BY <3>3, <4>1 DEF OrdersKnown, InPeriod
    <3>7. OrdersAdjacent'
      <4>1. CASE orders = <<>>
          BY <3>3, <4>1 DEF OrdersAdjacent, n
      <4>2. CASE orders # <<>>
        <5>1. ~NoneInPeriod
          <6>1. PICK from \in Nat, to \in Nat : /\ period[1] = from * Minutes /\ period[2] = to * Minutes
                                                /\ period[1] \in Nat /\ period[2] \in Nat
              BY <1>2, PeriodTypes
          <6> QED BY <1>1, <2>2, <2>4, <2>6, <6>1 DEF NoneInPeriod, InPeriod
        <5>2. d = LastOrder.session + 1
            BY <1>1, <2>2, <4>2, <5>1, NextReady DEF TrendInv
        <5>3. \A i \in 1 .. n - 1 : orders[i + 1].session = orders[i].session + 1
            BY DEF TrendInv, OrdersAdjacent, n
        <5>4. ASSUME NEW i \in 1 .. n PROVE orders'[i + 1].session = orders'[i].session + 1
          <6>1. CASE i = n
              BY <3>3, <3>4, <5>2, <6>1 DEF LastOrder, n
          <6>2. CASE i # n
            <7>1. i \in 1 .. n - 1 /\ i + 1 \in 1 .. n
                BY <3>3, <6>2
            <7> QED BY <3>3, <5>3, <7>1
          <6> QED BY <6>1, <6>2
        <5>5. Len(orders') - 1 = n
            BY <3>3
        <5> QED BY <5>4, <5>5 DEF OrdersAdjacent
      <4> QED BY <4>1, <4>2
    <3>8. BeforeFill(LastOrder)'
      <4>1. PICK y \in Dates : t \in MinutesOf(y)
          BY <2>3, SessionOfOpen
      <4>2. d < y
          BY <2>1, <2>2, <4>1 DEF TrendInv, TapeFacts, NoTargetOverHole
      <4>3. LastOrder' = fill
          BY <3>3 DEF LastOrder
      <4> QED BY <1>1, <3>4, <4>1, <4>2, <4>3 DEF BeforeFill, MinutesOf, Dates
    <3> QED BY <1>3, <1>4, <3>1, <3>3, <3>6, <3>7, <3>8 DEF TrendInv
  <2> QED BY <2>5, <2>6
<1> QED BY <1>6, <1>7

(* The invariant holds when the path opens.                                 *)
LEMMA TrendInvInit == TrendInit([Pair -> SUBSET Opens], TrendPeriods) => TrendInv
<1> SUFFICES ASSUME TrendInit([Pair -> SUBSET Opens], TrendPeriods) PROVE TrendInv
    OBVIOUS
<1>1. /\ symbols \in {Pair, {Lead}} /\ period \in TrendPeriods
      /\ visited = -1 /\ started = FALSE /\ orders = <<>>
    BY DEF TrendInit
<1>2. PICK rows \in [Pair -> SUBSET Opens] : tape = Tape(rows)
    BY DEF TrendInit
<1>3. TapeFacts
    BY <1>2, TapeOfRows
<1>4. Len(orders) = 0 /\ orders \in Seq([session : Dates, time : Opens])
    BY <1>1
<1>5. visited \in -1 .. MarketDays - 1
    BY <1>1, MinuteMarketAssumption
<1> QED BY <1>1, <1>3, <1>4, <1>5 DEF TrendInv, TrendTypes, OrdersKnown, OrdersAdjacent

(* Every step of the path keeps the invariant.                              *)
LEMMA TrendInvStep == TrendInv /\ [TrendNext]_trendVars => TrendInv'
<1> SUFFICES ASSUME TrendInv, [TrendNext]_trendVars PROVE TrendInv'
    OBVIOUS
<1>1. CASE VisitSession
  <2>1. PICK d \in Dates : /\ Visiting(d) /\ UNCHANGED <<tape, symbols, period>>
                          /\ IF Ready(d) THEN TakeFill(d) ELSE MissSession(d)
      BY <1>1 DEF VisitSession
  <2>2. CASE Ready(d)
      BY <2>1, <2>2, TakeStep
  <2>3. CASE ~Ready(d)
      BY <2>1, <2>3, MissStep
  <2> QED BY <2>2, <2>3
<1>2. ASSUME UNCHANGED <<tape, symbols, period, visited, started, orders>>,
             ended' # "running" \/ UNCHANGED ended
      PROVE  TrendInv'
  <2>1. TapeFacts'
      BY <1>2 DEF TrendInv, TapeFacts, FillsLater, FillsAscend, TargetsExpect, NoTargetOverHole,
             LeadHasSessions, TargetsObserved, Dates, Opens, MarketEnd, MinutesOf
  <2>2. TrendTypes'
      BY <1>2 DEF TrendInv, TrendTypes, TrendPeriods, Dates, Opens, MarketEnd
  <2>3. OrdersKnown' /\ OrdersAdjacent'
      BY <1>2 DEF TrendInv, OrdersKnown, OrdersAdjacent, InPeriod
  <2>4. (BeforeFill(LastOrder) => BeforeFill(LastOrder)') /\ (NoneInPeriod => NoneInPeriod')
      BY <1>2 DEF BeforeFill, LastOrder, NoneInPeriod, MinutesOf, Dates
  <2> QED BY <1>2, <2>1, <2>2, <2>3, <2>4 DEF TrendInv
<1>3. CASE ClosePeriod
  <2>1. ended' # "running"
      BY <1>3 DEF ClosePeriod
  <2> QED BY <1>2, <1>3, <2>1 DEF ClosePeriod
<1>4. CASE UNCHANGED trendVars
    BY <1>2, <1>4 DEF trendVars
<1> QED BY <1>1, <1>3, <1>4 DEF TrendNext

(* A completed period accounts fills of consecutive sessions, in every      *)
(* market: TrendExposureObserved.                                           *)
THEOREM TrendAccountsObserved == TrendSpec => []TrendExposureObserved
<1>1. TrendInv => TrendExposureObserved
  <2> SUFFICES ASSUME TrendInv, NEW i \in 1 .. Len(orders) - 1
               PROVE  /\ orders[i + 1].session = orders[i].session + 1
                      /\ orders[i].time = ExpectedOpen(orders[i].session)
                      /\ i < Len(orders) - 1 /\ symbols = Pair =>
                           orders[i].time .. orders[i + 1].time - 1 \subseteq tape.vectors
      BY DEF TrendExposureObserved
  <2> DEFINE R == [session : Dates, time : Opens]
             n == Len(orders)
  <2>1. orders \in Seq(R) /\ n \in Nat
      BY DEF TrendInv, TrendTypes
  <2> HIDE DEF R
  <2>2. \A j \in 1 .. n : orders[j] \in R
      BY <2>1
  <2>3. \A j \in 1 .. n : orders[j].session \in Dates /\ orders[j].time \in Opens
      BY <2>2 DEF R
  <2>4. Lead \in symbols /\ Lead \in Pair
      BY TrendAssumption DEF TrendInv, TrendTypes
  <2>5. \A j \in 1 .. n : \A a \in symbols : /\ orders[j].session \in tape.targets[a]
                                            /\ tape.fills[a][orders[j].session] = orders[j].time
      BY DEF TrendInv, OrdersKnown
  <2>6. \A j \in 1 .. n - 1 : orders[j + 1].session = orders[j].session + 1
      BY DEF TrendInv, OrdersAdjacent
  <2> HIDE DEF n
  <2>7. ASSUME NEW j \in 1 .. n - 1 PROVE orders[j].time = orders[j].session * Minutes + Minutes + 1
    <3>1. j \in 1 .. n /\ j + 1 \in 1 .. n
        BY <2>1
    <3> DEFINE s == orders[j].session
               e == orders[j + 1].session
    <3>2. s \in Dates /\ e \in Dates /\ e \in tape.targets[Lead] /\ tape.fills[Lead][s] = orders[j].time
        BY <2>3, <2>4, <2>5, <3>1
    <3>3. e = s + 1
        BY <2>6
    <3> HIDE DEF s, e
    <3>4. tape.fills[Lead][s] = s * Minutes + Minutes + 1
        BY <2>4, <3>2, <3>3 DEF TrendInv, TapeFacts, TargetsExpect
    <3> QED BY <3>2, <3>4 DEF s
  <2>8. i \in 1 .. n - 1 /\ i \in 1 .. n /\ i + 1 \in 1 .. n
      BY <2>1 DEF n
  <2>9. orders[i].time = ExpectedOpen(orders[i].session)
    <3>1. orders[i].session \in Int
        BY <2>3, <2>8 DEF Dates
    <3> QED BY <2>7, <2>8, <3>1, SessionBounds DEF ExpectedOpen
  <2>10. ASSUME i < n - 1, symbols = Pair, NEW t \in orders[i].time .. orders[i + 1].time - 1
         PROVE  t \in tape.vectors
    <3> DEFINE s == orders[i].session
               e == s + 1
               g == e + 1
    <3>1. i + 1 \in 1 .. n - 1 /\ i + 2 \in 1 .. n /\ (i + 1) + 1 = i + 2
        BY <2>1, <2>8, <2>10
    <3>2. orders[i + 1].session = e /\ orders[i + 2].session = g /\ s \in Nat
        BY <2>3, <2>6, <2>8, <3>1 DEF Dates
    <3>3. orders[i].time = s * Minutes + Minutes + 1 /\ orders[i + 1].time = e * Minutes + Minutes + 1
        BY <2>7, <2>8, <3>1, <3>2
    <3>4. e \in Dates /\ g \in Dates /\ \A a \in Pair : e \in tape.targets[a] /\ g \in tape.targets[a]
        BY <2>3, <2>5, <2>8, <2>10, <3>1, <3>2
    <3> HIDE DEF e, g
    <3>5. MinutesOf(e) \subseteq tape.vectors /\ MinutesOf(g) \subseteq tape.vectors
        BY <3>4 DEF TrendInv, TapeFacts, TargetsObserved
    <3>6. /\ s * Minutes \in Int /\ e * Minutes = s * Minutes + Minutes
          /\ g * Minutes = e * Minutes + Minutes /\ (g + 1) * Minutes = g * Minutes + Minutes
          /\ (e + 1) * Minutes = e * Minutes + Minutes
      <4>1. s \in Int /\ e \in Int /\ g \in Int /\ e = s + 1 /\ g = e + 1
          BY <3>2 DEF e, g
      <4> HIDE DEF s
      <4> QED BY <4>1, SessionBounds
    <3> HIDE DEF s
    <3>7. t \in Int /\ t >= s * Minutes + Minutes + 1 /\ t <= e * Minutes + Minutes
        BY <3>3, <3>6, MinuteMarketAssumption
    <3>8. t \in MinutesOf(e) \/ t \in MinutesOf(g)
        BY <3>6, <3>7, MinuteMarketAssumption DEF MinutesOf
    <3> QED BY <3>5, <3>8
  <2> QED BY <2>6, <2>8, <2>9, <2>10 DEF n
<1> QED BY <1>1, TrendInvInit, TrendInvStep, PTL DEF TrendSpec

-----------------------------------------------------------------------------
(*****************************************************************************)
(* The calendar study.  What is held was filled in the hour before and is sold *)
(* when the path waits; the last fill lies before the hour of the next one, or *)
(* before the hour at which the quarantine ends.                             *)
(*****************************************************************************)

LastSnapshot == snapshots[Len(snapshots)]
Snapshot == [time : Nat, weights : TargetSets]

SnapshotsAscend ==
    \A i \in 1 .. Len(snapshots) - 1 : snapshots[i].time < snapshots[i + 1].time
HeldUnobserved ==
    \A i \in 1 .. Len(snapshots) - 1 : snapshots[i].weights # {} =>
        \A u \in joint : ~(snapshots[i].time + HourMinutes <= u /\ u < snapshots[i + 1].time)

CalendarTypes ==
    /\ joint \in SUBSET (0 .. CalendarEnd - 2) /\ minuteDelay \in {0, DelayMinutes}
    /\ hour \in Nat /\ weights \in TargetSets /\ quarantined \in BOOLEAN
    /\ resumeAt \in Nat \union {NoHour} /\ snapshots \in Seq(Snapshot)
    /\ counters \in [entries : Nat, episodes : Nat]

(* What is held was filled in the hour before, and is no longer held when   *)
(* the path waits; the last fill lies before the hour of the next one.      *)
CalendarInv ==
    /\ CalendarTypes /\ SnapshotsAscend /\ HeldUnobserved
    /\ weights # {} => /\ ~quarantined /\ hour < CalendarEnd /\ snapshots # <<>>
                       /\ LastSnapshot.time = hour - HourMinutes + minuteDelay
    /\ snapshots # <<>> =>
          /\ LastSnapshot.weights = weights
          /\ ~quarantined => LastSnapshot.time < hour
          /\ quarantined /\ resumeAt # NoHour => LastSnapshot.time < resumeAt
    /\ counters.entries = counters.episodes + (IF weights # {} THEN 1 ELSE 0)
    /\ result # "terminal_exposure"
    /\ result = "completed" => weights = {}

(* The constants as the proofs use them.                                    *)
LEMMA CalendarConstants ==
    /\ HourMinutes \in Nat /\ HourMinutes > 1 /\ DelayMinutes \in Nat
    /\ DelayMinutes < HourMinutes /\ DelayMinutes > 0
    /\ ValidMinutes \in Nat /\ ValidMinutes > 0 /\ {} \in TargetSets
    /\ CalendarEnd \in Nat
<1>1. /\ HourMinutes \in Nat /\ DelayMinutes \in 1 .. HourMinutes - 1 /\ {} \in TargetSets
      /\ ValidMinutes \in Nat /\ ValidMinutes > 0 /\ PathDays \in Nat /\ DayHours \in Nat
    BY CalendarPathAssumption
<1>2. \A m, n \in Nat : m * n \in Nat
    OBVIOUS
<1>3. CalendarEnd \in Nat
    BY <1>1, <1>2 DEF CalendarEnd
<1> QED BY <1>1, <1>3

(* Rounding down to a multiple and up to the next one.                      *)
LEMMA Rounding ==
    ASSUME NEW n \in Nat, NEW b \in Nat, b > 0
    PROVE  /\ n \div b \in Nat /\ (n \div b) * b <= n /\ n < (n \div b + 1) * b
           /\ (n \div b + 1) * b \in Nat
<1> DEFINE q == n \div b
<1>1. b * q <= n /\ n < b * q + b /\ q \in Int
    OBVIOUS
<1> HIDE DEF q
<1>5. b * q \in Int /\ q * b = b * q
    BY <1>1
<1>2. q >= 0
  <2> SUFFICES ASSUME q <= -1 PROVE FALSE
      BY <1>1
  <2> DEFINE k == -1 - q
  <2>1. k \in Nat /\ q = -1 - k
      BY <1>1
  <2>2. b * q = -b - b * k
      BY <1>1, <2>1
  <2>3. \A m, l \in Nat : m * l >= 0
      OBVIOUS
  <2>4. b * k >= 0 /\ b * k \in Int
      BY <2>1, <2>3
  <2> HIDE DEF k
  <2>5. b * q + b <= 0
      BY <1>5, <2>2, <2>4
  <2> QED BY <1>1, <1>5, <2>5
<1>3. (q + 1) * b = b * q + b
    BY <1>1
<1>4. (q + 1) * b \in Nat /\ n < (q + 1) * b
    BY <1>1, <1>3, <1>5
<1> QED BY <1>1, <1>2, <1>4, <1>5 DEF q

(* The hour at which a quarantine ends lies after its trigger.             *)
LEMMA ResumeAfter ==
    ASSUME CalendarTypes, NEW anchor \in Nat
    PROVE  LET r == ResumeHour(anchor)
           IN  r = NoHour \/ (r \in Nat /\ r > anchor + 1)
<1> DEFINE ends == {u \in joint : /\ u >= anchor + ValidMinutes
                                 /\ \A v \in u - ValidMinutes + 1 .. u : v \in joint}
           sixtieth == CHOOSE u \in ends : \A v \in ends : u <= v
           boundary == (sixtieth \div HourMinutes + 1) * HourMinutes
<1>1. ResumeHour(anchor) = IF ends = {} \/ boundary >= CalendarEnd THEN NoHour ELSE boundary
    BY DEF ResumeHour
<1>2. ASSUME ends # {} PROVE boundary \in Nat /\ boundary > anchor + 1
  <2>0. joint \in SUBSET Nat
      BY DEF CalendarTypes
  <2>1. ends \in SUBSET Nat /\ \A u \in ends : u >= anchor + ValidMinutes
      BY <2>0
  <2> HIDE DEF ends
  <2>2. \E u \in ends : \A v \in ends : u <= v
      BY <1>2, <2>1, LeastNatural
  <2>3. sixtieth \in ends
      BY <2>2, Zenon
  <2>4. sixtieth \in Nat /\ sixtieth >= anchor + ValidMinutes
      BY <2>1, <2>3
  <2> HIDE DEF sixtieth
  <2>5. sixtieth < boundary /\ boundary \in Nat
      BY <2>4, Rounding, CalendarConstants
  <2> HIDE DEF boundary
  <2> QED BY <2>4, <2>5, CalendarConstants
<1> HIDE DEF ends, boundary
<1> QED BY <1>1, <1>2

(* The hour of the sale lies after the hour that was lost.                  *)
LEMMA SaleAfter ==
    ASSUME CalendarTypes, NEW t \in Nat
    PROVE  LET s == FirstJointAfter(t)
           IN  s = Unpriced \/ (s \in Nat /\ s > t /\ \A u \in joint : ~(t < u /\ u < s))
<1> DEFINE later == {u \in joint : u > t}
           s == FirstJointAfter(t)
<1>0. joint \in SUBSET Nat
    BY DEF CalendarTypes
<1>1. s = IF later = {} THEN Unpriced ELSE CHOOSE u \in later : \A v \in later : u <= v
    BY DEF FirstJointAfter
<1>2. CASE later = {}
    BY <1>1, <1>2
<1>3. CASE later # {}
  <2>1. later \in SUBSET Nat
      BY <1>0
  <2>2. \E u \in later : \A v \in later : u <= v
      BY <1>3, <2>1, LeastNatural
  <2> HIDE DEF later, s
  <2>3. s \in later /\ \A v \in later : s <= v
      BY <1>1, <1>3, <2>2, Zenon
  <2>4. s \in joint /\ s > t /\ \A u \in joint : u > t => s <= u
      BY <2>3 DEF later
  <2>5. s \in Nat /\ \A u \in joint : u \in Nat
      BY <1>0, <2>4
  <2>6. \A u \in joint : ~(t < u /\ u < s)
      BY <2>4, <2>5
  <2> QED BY <2>4, <2>5, <2>6 DEF s
<1> QED BY <1>2, <1>3

(* The first missing minute an hour meets.                                  *)
LEMMA TriggerBounds ==
    ASSUME CalendarTypes, NEW h \in Nat, Missing(h) # {}
    PROVE  /\ TriggerOf(h) \in Nat /\ TriggerOf(h) \notin joint
           /\ minuteDelay = 0 => TriggerOf(h) = h \/ TriggerOf(h) = h - 1
           /\ minuteDelay # 0 => h < TriggerOf(h) /\ TriggerOf(h) <= h + minuteDelay
<1> DEFINE M == Missing(h)
           t == TriggerOf(h)
<1>1. /\ \A u \in M : u \in Nat /\ u \notin joint
      /\ minuteDelay = 0 => \A u \in M : u = h \/ u = h - 1
      /\ minuteDelay # 0 => \A u \in M : h < u /\ u <= h + minuteDelay
  <2>1. CASE minuteDelay = 0
    <3>1. M = IF h \notin joint THEN {h} ELSE IF h > 0 /\ h - 1 \notin joint THEN {h - 1} ELSE {}
        BY <2>1 DEF Missing
    <3> HIDE DEF M
    <3>2. CASE h \notin joint
        BY <2>1, <3>1, <3>2
    <3>3. CASE h \in joint /\ h > 0 /\ h - 1 \notin joint
      <4>1. M = {h - 1} /\ h - 1 \in Nat
          BY <3>1, <3>3
      <4> QED BY <2>1, <3>3, <4>1
    <3>4. CASE h \in joint /\ ~(h > 0 /\ h - 1 \notin joint)
        BY <2>1, <3>1, <3>4
    <3> QED BY <3>2, <3>3, <3>4
  <2>2. CASE minuteDelay # 0
    <3>1. minuteDelay = DelayMinutes
        BY <2>2 DEF CalendarTypes
    <3> QED BY <2>2, <3>1, CalendarConstants DEF Missing
  <2> QED BY <2>1, <2>2
<1>2. M \in SUBSET Nat /\ M # {}
    BY <1>1
<1> HIDE DEF M
<1>3. \E u \in M : \A v \in M : u <= v
    BY <1>2, LeastNatural
<1>4. t \in M
    BY <1>3, Zenon DEF TriggerOf, M
<1> HIDE DEF t
<1>5. /\ t \in Nat /\ t \notin joint /\ (minuteDelay = 0 => t = h \/ t = h - 1)
      /\ (minuteDelay # 0 => h < t /\ t <= h + minuteDelay)
    BY <1>1, <1>4
<1> QED BY <1>5 DEF t

(* A snapshot more, later than the last; what was held before it is priced  *)
(* by no vector in between.                                                 *)
LEMMA SnapshotAppended ==
    ASSUME CalendarInv, NEW time \in Nat, NEW target \in TargetSets,
           snapshots' = Append(snapshots, [time |-> time, weights |-> target]),
           joint' = joint, weights' = target,
           snapshots # <<>> => LastSnapshot.time < time,
           weights # {} => \A u \in joint : ~(LastSnapshot.time + HourMinutes <= u /\ u < time)
    PROVE  /\ snapshots' \in Seq(Snapshot) /\ snapshots' # <<>> /\ LastSnapshot'.time = time
           /\ LastSnapshot'.weights = target /\ SnapshotsAscend' /\ HeldUnobserved'
<1> DEFINE n == Len(snapshots)
           row == [time |-> time, weights |-> target]
<1>1. snapshots \in Seq(Snapshot) /\ row \in Snapshot
    BY DEF CalendarInv, CalendarTypes, Snapshot
<1>2. /\ snapshots' \in Seq(Snapshot) /\ n \in Nat /\ Len(snapshots') = n + 1
      /\ snapshots'[n + 1] = row /\ \A i \in 1 .. n : snapshots'[i] = snapshots[i]
      /\ snapshots # <<>> <=> n # 0
    BY <1>1
<1>3. row.time = time /\ row.weights = target
    OBVIOUS
<1> HIDE DEF n, row
<1>4. LastSnapshot' = row /\ snapshots' # <<>>
    BY <1>2 DEF LastSnapshot
<1>5. ASSUME NEW i \in 1 .. n
      PROVE  /\ snapshots'[i].time < snapshots'[i + 1].time
             /\ snapshots'[i].weights # {} => \A u \in joint :
                   ~(snapshots'[i].time + HourMinutes <= u /\ u < snapshots'[i + 1].time)
  <2>1. CASE i = n
    <3>1. snapshots # <<>> /\ snapshots[n] = LastSnapshot
        BY <1>2, <2>1 DEF LastSnapshot, n
    <3>2. snapshots'[i] = LastSnapshot /\ snapshots'[i + 1] = row
        BY <1>2, <2>1, <3>1
    <3>3. LastSnapshot.weights = weights
        BY <3>1 DEF CalendarInv
    <3> QED BY <1>3, <3>1, <3>2, <3>3
  <2>2. CASE i # n
    <3>1. i \in 1 .. n - 1 /\ i + 1 \in 1 .. n
        BY <1>2, <2>2
    <3>2. snapshots'[i] = snapshots[i] /\ snapshots'[i + 1] = snapshots[i + 1]
        BY <1>2, <3>1
    <3> QED BY <3>1, <3>2 DEF CalendarInv, SnapshotsAscend, HeldUnobserved, n
  <2> QED BY <2>1, <2>2
<1>6. Len(snapshots') - 1 = n
    BY <1>2
<1>7. SnapshotsAscend' /\ HeldUnobserved'
    BY <1>5, <1>6 DEF SnapshotsAscend, HeldUnobserved
<1> QED BY <1>2, <1>3, <1>4, <1>7

(* The last snapshot is one.                                                *)
LEMMA LastSnapshotType ==
    ASSUME CalendarTypes, snapshots # <<>>
    PROVE  LastSnapshot.time \in Nat /\ LastSnapshot.weights \in TargetSets
<1>1. snapshots \in Seq(Snapshot)
    BY DEF CalendarTypes
<1>2. LastSnapshot \in Snapshot
    BY <1>1 DEF LastSnapshot
<1> QED BY <1>2 DEF Snapshot

(* Entries and exits are counted in turn.                                   *)
LEMMA CountersInStep ==
    ASSUME counters \in [entries : Nat, episodes : Nat], NEW old, NEW new,
           counters.entries = counters.episodes + (IF old # {} THEN 1 ELSE 0)
    PROVE  LET c == CompletedFill(old, new)
           IN  /\ c \in [entries : Nat, episodes : Nat]
               /\ c.entries = c.episodes + (IF new # {} THEN 1 ELSE 0)
BY DEF CompletedFill

(* The targets of an hour are filled.                                       *)
LEMMA FillStep == CalendarInv /\ FillHour => CalendarInv'
<1> SUFFICES ASSUME CalendarInv, FillHour PROVE CalendarInv'
    OBVIOUS
<1> DEFINE time == FillOf(hour)
           no == FALSE
<1>1. PICK target \in TargetsFor(hour) :
        /\ weights' = target /\ counters' = CompletedFill(weights, target)
        /\ snapshots' = Append(snapshots, [time |-> time, weights |-> target])
    BY DEF FillHour
<1>2. /\ result = "running" /\ hour < CalendarEnd /\ ~Waiting
      /\ quarantined' = no /\ resumeAt' = NoHour /\ hour' = hour + HourMinutes
      /\ UNCHANGED <<joint, minuteDelay, result>>
    BY DEF FillHour, CalendarRunning
<1>3. CalendarTypes /\ hour \in Nat /\ minuteDelay \in {0, DelayMinutes}
      /\ counters \in [entries : Nat, episodes : Nat] /\ resumeAt \in Nat \union {NoHour}
    BY DEF CalendarInv, CalendarTypes
<1>4. time = hour + minuteDelay /\ time \in Nat /\ time < hour + HourMinutes
      /\ minuteDelay \in Nat
    BY <1>3, CalendarConstants DEF FillOf
<1>5. target \in TargetSets /\ (target # {} => hour < CalendarEnd - HourMinutes)
  <2>1. CASE hour >= CalendarEnd - HourMinutes
    <3>1. target = {} /\ {} \in TargetSets
        BY <1>1, <2>1, CalendarConstants DEF TargetsFor
    <3> QED BY <3>1
  <2>2. CASE ~(hour >= CalendarEnd - HourMinutes)
    <3>1. target \in TargetSets
        BY <1>1, <2>2 DEF TargetsFor
    <3> QED BY <1>3, <2>2, <3>1, CalendarConstants
  <2> QED BY <2>1, <2>2
<1> HIDE DEF time
<1>6. snapshots # <<>> => LastSnapshot.time < time
  <2> SUFFICES ASSUME snapshots # <<>> PROVE LastSnapshot.time < time
      OBVIOUS
  <2>1. LastSnapshot.time \in Nat
      BY <1>3, LastSnapshotType
  <2>2. LastSnapshot.time < hour
      BY <1>2, <1>3, <2>1 DEF CalendarInv, Waiting
  <2> QED BY <1>3, <1>4, <2>1, <2>2
<1>7. ASSUME weights # {}, NEW u \in joint, LastSnapshot.time + HourMinutes <= u, u < time PROVE FALSE
  <2>1. LastSnapshot.time = hour - HourMinutes + minuteDelay
      BY <1>7 DEF CalendarInv
  <2>2. u \in Int
      BY <1>3 DEF CalendarTypes
  <2> QED BY <1>3, <1>4, <1>7, <2>1, <2>2, CalendarConstants
<1>8. /\ snapshots' \in Seq(Snapshot) /\ snapshots' # <<>> /\ LastSnapshot'.time = time
      /\ LastSnapshot'.weights = target /\ SnapshotsAscend' /\ HeldUnobserved'
    BY <1>1, <1>2, <1>4, <1>5, <1>6, <1>7, SnapshotAppended
<1>9. counters' \in [entries : Nat, episodes : Nat]
      /\ counters'.entries = counters'.episodes + (IF target # {} THEN 1 ELSE 0)
  <2>1. counters.entries = counters.episodes + (IF weights # {} THEN 1 ELSE 0)
      BY DEF CalendarInv
  <2> QED BY <1>1, <1>3, <2>1, CountersInStep
<1>10. hour' \in Nat /\ (target # {} => hour' < CalendarEnd) /\ time < hour'
       /\ time = hour' - HourMinutes + minuteDelay
    BY <1>2, <1>3, <1>4, <1>5, CalendarConstants
<1>11. CalendarTypes'
  <2>1. /\ joint' \in SUBSET (0 .. CalendarEnd - 2) /\ minuteDelay' \in {0, DelayMinutes}
        /\ hour' \in Nat /\ weights' \in TargetSets /\ quarantined' \in BOOLEAN
        /\ resumeAt' \in Nat \union {NoHour}
      BY <1>1, <1>2, <1>3, <1>5, <1>10 DEF CalendarTypes
  <2> QED BY <1>8, <1>9, <2>1 DEF CalendarTypes, Snapshot
<1>12. ~quarantined' /\ result' = "running" /\ minuteDelay' = minuteDelay /\ weights' = target
    BY <1>1, <1>2
<1> QED BY <1>8, <1>9, <1>10, <1>11, <1>12 DEF CalendarInv

(* A quarantine opens: what is held is sold at the next joint minute.       *)
LEMMA QuarantineStep == CalendarInv /\ EnterQuarantine => CalendarInv'
<1> SUFFICES ASSUME CalendarInv, EnterQuarantine PROVE CalendarInv'
    OBVIOUS
<1> DEFINE fault == TriggerOf(hour)
           sale == FirstJointAfter(fault)
           anchor == IF weights = {} THEN fault ELSE sale
           yes == TRUE
<1>1. /\ result = "running" /\ hour < CalendarEnd /\ ~Waiting /\ Missing(hour) # {}
      /\ UNCHANGED <<joint, minuteDelay>>
    BY DEF EnterQuarantine, CalendarRunning
<1>2. CalendarTypes /\ hour \in Nat /\ minuteDelay \in {0, DelayMinutes}
      /\ joint \in SUBSET (0 .. CalendarEnd - 2) /\ weights \in TargetSets
      /\ counters \in [entries : Nat, episodes : Nat] /\ resumeAt \in Nat \union {NoHour}
    BY DEF CalendarInv, CalendarTypes
<1>3. /\ fault \in Nat /\ fault \notin joint
      /\ minuteDelay = 0 => fault = hour \/ fault = hour - 1
      /\ minuteDelay # 0 => hour < fault /\ fault <= hour + minuteDelay
    BY <1>1, <1>2, TriggerBounds
<1>4. snapshots # <<>> => LastSnapshot.time \in Nat /\ LastSnapshot.time < hour
  <2> SUFFICES ASSUME snapshots # <<>> PROVE LastSnapshot.time \in Nat /\ LastSnapshot.time < hour
      OBVIOUS
  <2>1. LastSnapshot.time \in Nat
      BY <1>2, LastSnapshotType
  <2> QED BY <1>1, <1>2, <2>1 DEF CalendarInv, Waiting
<1>5. CASE weights # {} /\ sale = Unpriced
  <2>1. result' = "liquidation_unavailable"
        /\ UNCHANGED <<hour, weights, quarantined, resumeAt, snapshots, counters>>
      BY <1>5 DEF EnterQuarantine
  <2> QED BY <1>1, <2>1 DEF CalendarInv, CalendarTypes, SnapshotsAscend, HeldUnobserved,
                            LastSnapshot, Snapshot
<1>6. CASE ~(weights # {} /\ sale = Unpriced)
  <2>1. /\ quarantined' = yes /\ resumeAt' = ResumeHour(anchor)
        /\ snapshots' = IF weights = {} THEN snapshots
                        ELSE Append(snapshots, [time |-> sale, weights |-> {}])
        /\ counters' = CompletedFill(weights, {})
        /\ weights' = {} /\ hour' = hour + HourMinutes /\ result' = result
      BY <1>6 DEF EnterQuarantine
  <2>2. weights # {} => sale \in Nat /\ sale > fault /\ \A u \in joint : ~(fault < u /\ u < sale)
      BY <1>2, <1>3, <1>6, SaleAfter
  <2> HIDE DEF fault, sale, yes
  <2>3. anchor \in Nat
      BY <1>3, <2>2
  <2>4. resumeAt' = NoHour \/ (resumeAt' \in Nat /\ resumeAt' > anchor + 1)
      BY <1>2, <2>1, <2>3, ResumeAfter
  <2>5. counters' \in [entries : Nat, episodes : Nat] /\ counters'.entries = counters'.episodes
    <3>1. counters.entries = counters.episodes + (IF weights # {} THEN 1 ELSE 0)
        BY DEF CalendarInv
    <3>2. /\ counters' \in [entries : Nat, episodes : Nat]
          /\ counters'.entries = counters'.episodes + (IF {} # {} THEN 1 ELSE 0)
        BY <1>2, <2>1, <3>1, CountersInStep
    <3> QED BY <3>2
  <2>6. hour' \in Nat /\ {} \in TargetSets /\ yes \in BOOLEAN /\ (yes <=> TRUE)
      BY <1>2, <2>1, CalendarConstants DEF yes
  <2>7. snapshots' \in Seq(Snapshot) => CalendarTypes'
    <3>1. /\ joint' \in SUBSET (0 .. CalendarEnd - 2) /\ minuteDelay' \in {0, DelayMinutes}
          /\ hour' \in Nat /\ weights' \in TargetSets /\ quarantined' \in BOOLEAN
          /\ resumeAt' \in Nat \union {NoHour}
        BY <1>1, <1>2, <2>1, <2>4, <2>6
    <3> QED BY <2>5, <3>1 DEF CalendarTypes, Snapshot
  <2>8. CASE weights = {}
    <3>1. snapshots' = snapshots /\ anchor = fault
        BY <2>1, <2>8
    <3>2. SnapshotsAscend' /\ HeldUnobserved' /\ CalendarTypes' /\ LastSnapshot' = LastSnapshot
        BY <1>1, <2>7, <3>1
        DEF CalendarInv, CalendarTypes, SnapshotsAscend, HeldUnobserved, LastSnapshot
    <3>3. fault >= hour - 1
        BY <1>2, <1>3
    <3> HIDE DEF anchor
    <3>4. snapshots # <<>> /\ resumeAt' # NoHour => LastSnapshot.time < resumeAt'
        BY <1>2, <1>3, <1>4, <2>4, <3>1, <3>3
    <3> QED BY <1>1, <2>1, <2>5, <2>6, <2>8, <3>1, <3>2, <3>4 DEF CalendarInv
  <2>9. CASE weights # {}
    <3>1. snapshots' = Append(snapshots, [time |-> sale, weights |-> {}]) /\ anchor = sale
        BY <2>1, <2>9
    <3>2. snapshots # <<>> /\ LastSnapshot.time = hour - HourMinutes + minuteDelay
        BY <2>9 DEF CalendarInv
    <3>3. LastSnapshot.time < sale
        BY <1>2, <1>3, <1>4, <2>2, <2>9, <3>2, CalendarConstants
    <3>4. ASSUME NEW u \in joint, LastSnapshot.time + HourMinutes <= u, u < sale PROVE FALSE
      <4>1. u \in Nat /\ u # fault /\ ~(fault < u)
          BY <1>2, <1>3, <2>2, <2>9, <3>4
      <4>2. u < fault /\ hour + minuteDelay <= u
          BY <1>2, <1>3, <3>2, <3>4, <4>1, CalendarConstants
      <4> QED BY <1>2, <1>3, <4>1, <4>2, CalendarConstants
    <3> HIDE DEF anchor
    <3>5. /\ snapshots' \in Seq(Snapshot) /\ snapshots' # <<>> /\ LastSnapshot'.time = sale
          /\ LastSnapshot'.weights = {} /\ SnapshotsAscend' /\ HeldUnobserved'
        BY <1>1, <2>1, <2>2, <2>6, <2>9, <3>1, <3>3, <3>4, SnapshotAppended
    <3>6. resumeAt' # NoHour => sale < resumeAt'
        BY <2>2, <2>4, <2>9, <3>1
    <3> QED BY <1>1, <2>1, <2>5, <2>6, <2>7, <3>5, <3>6 DEF CalendarInv
  <2> QED BY <2>8, <2>9
<1> QED BY <1>5, <1>6

(* The invariant holds when the path opens.                                 *)
LEMMA CalendarInvInit == CalendarInit(SUBSET (0 .. CalendarEnd - 2)) => CalendarInv
<1> SUFFICES ASSUME CalendarInit(SUBSET (0 .. CalendarEnd - 2)) PROVE CalendarInv
    OBVIOUS
<1> DEFINE no == FALSE
<1>1. /\ minuteDelay \in {0, DelayMinutes} /\ hour = 0 /\ weights = {}
      /\ quarantined = no /\ resumeAt = NoHour /\ snapshots = <<>>
      /\ counters = [entries |-> 0, episodes |-> 0] /\ result = "running"
    BY DEF CalendarInit
<1>2. joint \in SUBSET (0 .. CalendarEnd - 2)
    BY DEF CalendarInit
<1>3. no \in BOOLEAN
    OBVIOUS
<1> HIDE DEF no
<1>4. /\ counters \in [entries : Nat, episodes : Nat] /\ counters.entries = counters.episodes
      /\ snapshots \in Seq(Snapshot) /\ Len(snapshots) = 0
    BY <1>1
<1>5. CalendarTypes
    BY <1>1, <1>2, <1>3, <1>4, CalendarConstants DEF CalendarTypes
<1> QED BY <1>1, <1>4, <1>5 DEF CalendarInv, SnapshotsAscend, HeldUnobserved

(* An hour of a quarantine passes.                                          *)
LEMMA WaitStep == CalendarInv /\ WaitQuarantine => CalendarInv'
<1> SUFFICES ASSUME CalendarInv, WaitQuarantine PROVE CalendarInv'
    OBVIOUS
<1>1. /\ quarantined /\ hour' = hour + HourMinutes
      /\ UNCHANGED <<joint, minuteDelay, weights, quarantined, resumeAt, snapshots, counters, result>>
    BY DEF WaitQuarantine, Waiting
<1>2. hour' \in Nat
    BY <1>1, CalendarConstants DEF CalendarInv, CalendarTypes
<1>3. CalendarTypes'
    BY <1>1, <1>2 DEF CalendarInv, CalendarTypes, Snapshot
<1> QED BY <1>1, <1>3 DEF CalendarInv, SnapshotsAscend, HeldUnobserved, LastSnapshot

(* The close of the path.                                                   *)
LEMMA CloseStep == CalendarInv /\ CloseCalendar => CalendarInv'
<1> SUFFICES ASSUME CalendarInv, CloseCalendar PROVE CalendarInv'
    OBVIOUS
<1>1. /\ hour >= CalendarEnd
      /\ UNCHANGED <<joint, minuteDelay, hour, weights, quarantined, resumeAt, snapshots, counters>>
    BY DEF CloseCalendar
<1>2. weights = {}
    BY <1>1, CalendarConstants DEF CalendarInv, CalendarTypes
<1>3. result' # "terminal_exposure"
    BY <1>2 DEF CloseCalendar
<1>4. CalendarTypes'
    BY <1>1 DEF CalendarInv, CalendarTypes, Snapshot
<1> QED BY <1>1, <1>2, <1>3, <1>4 DEF CalendarInv, SnapshotsAscend, HeldUnobserved, LastSnapshot

(* The schedule an hour follows is fixed before the hour's deadline.        *)
LEMMA ScheduleBeforeDeadline ==
    \A h \in PathHours : ScheduleFor(h) \in Int /\ ScheduleFor(h) < DeadlineFor(h)
<1> SUFFICES ASSUME NEW h \in PathHours
             PROVE  ScheduleFor(h) \in Int /\ ScheduleFor(h) < DeadlineFor(h)
    OBVIOUS
<1> DEFINE b == HourMinutes
           days == WeekDays * DayHours
           w == WeekLength
           r == MondayRefresh(h)
           q == h \div w
           p == h \div b
<1>1. b \in Nat /\ b > 1 /\ WeekDays \in Nat /\ WeekDays > 0 /\ DayHours \in Nat /\ DayHours > 0
    BY CalendarPathAssumption, CalendarConstants
<1>2. \A m, n \in Nat : m * n \in Nat /\ (m > 0 /\ n > 0 => m * n >= n /\ m * n > 0)
    OBVIOUS
<1>3. days \in Nat /\ days > 0
    BY <1>1, <1>2
<1>4. w = days * b
    BY <1>1 DEF WeekLength, DayLength
<1> HIDE DEF days, w
<1>5. w \in Nat /\ w >= b /\ w > 0
    BY <1>1, <1>2, <1>3, <1>4
<1>6. h \in Nat /\ h % b = 0
    BY DEF PathHours
<1>7. q \in Nat /\ r <= h /\ r = q * w /\ r \in Nat
  <2>1. q \in Nat /\ q * w <= h
      BY <1>5, <1>6, Rounding
  <2>2. r = q * w
      BY DEF MondayRefresh, w
  <2> HIDE DEF q
  <2> QED BY <1>2, <1>5, <2>1, <2>2
<1>8. h = b * p /\ p \in Int
    BY <1>1, <1>6
<1> HIDE DEF q, p
<1>9. r # h => r + b <= h
  <2> DEFINE k == p - q * days
  <2>1. q * days \in Nat /\ k \in Int
      BY <1>2, <1>3, <1>7, <1>8
  <2>2. h - r = b * k
    <3>1. r = b * (q * days)
        BY <1>1, <1>3, <1>4, <1>7
    <3>2. \A m, n \in Int : b * m - b * n = b * (m - n)
        BY <1>1
    <3> QED BY <1>7, <1>8, <2>1, <3>1, <3>2
  <2> HIDE DEF k
  <2>3. \A m, n \in Nat : m * n >= 0
      OBVIOUS
  <2>4. CASE k <= 0
    <3>1. -k \in Nat /\ b * (-k) >= 0
        BY <1>1, <2>1, <2>3, <2>4
    <3>2. b * (-k) = -(b * k) /\ b * k \in Int
        BY <1>1, <2>1
    <3> QED BY <1>6, <1>7, <2>2, <3>1, <3>2
  <2>5. CASE k > 0
    <3>1. k - 1 \in Nat /\ b * (k - 1) >= 0
        BY <1>1, <2>1, <2>3, <2>5
    <3>2. b * (k - 1) = b * k - b /\ b * k \in Int
        BY <1>1, <2>1
    <3> QED BY <1>1, <1>6, <1>7, <2>2, <3>1, <3>2
  <2> QED BY <2>1, <2>4, <2>5
<1>10. ScheduleFor(h) = IF h = r THEN r - w ELSE r
    BY DEF ScheduleFor, w
<1> HIDE DEF r
<1> QED BY <1>1, <1>5, <1>6, <1>7, <1>9, <1>10 DEF DeadlineFor

(* The path sells and fills in time, in every run: CalendarObserved.        *)
THEOREM CalendarPathObserved == CalendarSpec => []CalendarObserved
<1>1. CalendarInv /\ [CalendarNext]_calendarVars => CalendarInv'
  <2>1. CalendarInv /\ UNCHANGED calendarVars => CalendarInv'
    <3> SUFFICES ASSUME CalendarInv, UNCHANGED calendarVars PROVE CalendarInv'
        OBVIOUS
    <3>1. UNCHANGED <<joint, minuteDelay, hour, weights, quarantined, resumeAt, snapshots,
                      counters, result>>
        BY DEF calendarVars
    <3>2. CalendarTypes'
        BY <3>1 DEF CalendarInv, CalendarTypes, Snapshot
    <3>3. SnapshotsAscend' /\ HeldUnobserved' /\ LastSnapshot' = LastSnapshot
        BY <3>1 DEF CalendarInv, SnapshotsAscend, HeldUnobserved, LastSnapshot
    <3> QED BY <3>1, <3>2, <3>3 DEF CalendarInv
  <2> QED BY <2>1, WaitStep, QuarantineStep, FillStep, CloseStep DEF CalendarNext
<1>2. CalendarInv => CalendarObserved
  <2> SUFFICES ASSUME CalendarInv PROVE CalendarObserved
      OBVIOUS
  <2>1. ASSUME NEW i \in 1 .. Len(snapshots) - 1, snapshots[i].weights # {}
        PROVE  snapshots[i].time + HourMinutes .. snapshots[i + 1].time - 1 \intersect joint = {}
    <3>1. snapshots \in Seq(Snapshot)
        BY DEF CalendarInv, CalendarTypes
    <3>2. snapshots[i] \in Snapshot /\ snapshots[i + 1] \in Snapshot
        BY <3>1
    <3>3. snapshots[i].time \in Nat /\ snapshots[i + 1].time \in Nat
        BY <3>2 DEF Snapshot
    <3>4. \A u \in joint : ~(snapshots[i].time + HourMinutes <= u /\ u < snapshots[i + 1].time)
        BY <2>1 DEF CalendarInv, HeldUnobserved
    <3>5. snapshots[i].time + HourMinutes \in Int
        BY <3>3, CalendarConstants
    <3> QED BY <3>3, <3>4, <3>5
  <2>2. result = "completed" => counters.entries = counters.episodes
      BY DEF CalendarInv, CalendarTypes
  <2>3. ASSUME NEW h \in PathHours
        PROVE  /\ ScheduleFor(h) < DeadlineFor(h)
               /\ \A t \in FittedIntervals(ScheduleFor(h)) : t + HourMinutes + 1 < DeadlineFor(h)
    <3> DEFINE s == ScheduleFor(h)
               e == DeadlineFor(h)
    <3>1. s < e /\ s \in Int
        BY ScheduleBeforeDeadline
    <3>2. \A t \in FittedIntervals(s) : t + HourMinutes + 1 < s
        BY DEF FittedIntervals
    <3>3. e \in Int /\ \A t \in FittedIntervals(s) : t \in Int
        BY DEF DeadlineFor, PathHours, FittedIntervals
    <3> HIDE DEF e
    <3> HIDE DEF s
    <3>5. \A t \in FittedIntervals(s) : t + HourMinutes + 1 < e
        BY <3>1, <3>2, <3>3, CalendarConstants
    <3> QED BY <3>1, <3>5 DEF s, e
  <2> QED BY <2>1, <2>2, <2>3 DEF CalendarObserved, CalendarInv, SnapshotsAscend
<1> QED BY <1>1, <1>2, CalendarInvInit, PTL DEF CalendarSpec
=============================================================================
