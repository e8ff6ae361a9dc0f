-------------------------- MODULE RegimeQueueProofs --------------------------
(* What the commands make of a queue or a snapshot has the right type, and  *)
(* releasing moves tasks from BLOCKED_DEPENDENCY to READY and nothing else. *)
(* The sums of a function over a finite set exist, and follow its changes.  *)
EXTENDS RegimeQueue, FiniteSetTheorems, WellFoundedInduction, TLAPS

(* Releasing dependency-blocked tasks keeps the type of the task map.      *)
LEMMA ReleasedType == ASSUME NEW ts \in [Tasks -> TaskStates]
                      PROVE  Released(ts) \in [Tasks -> TaskStates]
  BY DEF Released, TaskStates

(* Seeding the catalog keeps the type of the task map.                     *)
LEMMA MaterializedType == ASSUME NEW ts \in [Tasks -> TaskStates]
                          PROVE  Materialized(ts) \in [Tasks -> TaskStates]
  BY DEF Materialized, TaskStates

(* recover-existing-g1 keeps the type of the task map.                     *)
LEMMA G1RecoveredType == ASSUME NEW ts \in [Tasks -> TaskStates]
                         PROVE  G1Recovered(ts) \in [Tasks -> TaskStates]
<1> DEFINE judged == [t \in Tasks |->
        CASE t \in Recoverable /\ ts[t] # "ABSENT" -> "TERMINAL"
          [] t = Gate /\ ts[t] = "ADAPTER_NOT_CONFIGURED" -> "BLOCKED_DEPENDENCY"
          [] OTHER -> ts[t]]
<1>1. judged \in [Tasks -> TaskStates]
  BY DEF TaskStates
<1>2. G1Recovered(ts) = Released(judged)
  BY DEF G1Recovered
<1> QED BY <1>1, <1>2, ReleasedType

(* The gate's verdict keeps the type of the task map.                      *)
LEMMA ReconciledType == ASSUME NEW ts \in [Tasks -> TaskStates], NEW verdict
                        PROVE  Reconciled(ts, verdict) \in [Tasks -> TaskStates]
<1> DEFINE judged == [ts EXCEPT ![Gate] = IF verdict = "PASS" THEN "TERMINAL" ELSE "FAILED"]
<1>1. judged \in [Tasks -> TaskStates]
  BY DEF TaskStates
<1>2. Reconciled(ts, verdict) = Released(judged)
  BY DEF Reconciled
<1> QED BY <1>1, <1>2, ReleasedType

(* A snapshot with another task map is a snapshot.                         *)
LEMMA WithTasksType == ASSUME NEW snap \in Snapshot, NEW ts \in [Tasks -> TaskStates]
                       PROVE  WithTasks(snap, ts) \in Snapshot
  BY DEF WithTasks, Snapshot, Queue

(* Marking a task RUNNING makes a snapshot.                                *)
LEMMA StartedType == ASSUME NEW snap \in Snapshot, NEW t \in Tasks
                     PROVE  Started(snap, t) \in Snapshot
  BY DEF Started, Snapshot, Queue, TaskStates

(* Recording an outcome - task, week and scorecard - makes a snapshot.     *)
LEMMA FinishedType == ASSUME NEW snap \in Snapshot, NEW t \in Tasks,
                             NEW outcome \in TaskStates, NEW week \in Weeks
                      PROVE  Finished(snap, t, outcome, week) \in Snapshot
<1>1. StreamOf[t] \in Streams
  BY QueueAssumption
<1>2. CASE outcome = "TERMINAL"
  <2> DEFINE weekly == [snap.queue.weekly EXCEPT ![week][StreamOf[t]] = @ + 1]
             score == [snap.score EXCEPT ![t] = @ + 1]
             queue == [task |-> [snap.queue.task EXCEPT ![t] = outcome], weekly |-> weekly]
  <2>1. /\ snap.queue.task \in [Tasks -> TaskStates]
        /\ snap.queue.weekly \in [Weeks -> [Streams -> Nat]] /\ snap.score \in [Tasks -> Nat]
    BY DEF Snapshot, Queue, Score
  <2>2. weekly \in [Weeks -> [Streams -> Nat]] /\ score \in [Tasks -> Nat]
    BY <1>1, <2>1
  <2>3. queue \in Queue
    BY <2>1, <2>2 DEF Queue
  <2>4. Finished(snap, t, outcome, week) = [queue |-> queue, state |-> snap.state, score |-> score]
    BY <1>2 DEF Finished, Snapshot, Queue
  <2> QED BY <2>2, <2>3, <2>4 DEF Snapshot, Score
<1>3. CASE outcome # "TERMINAL"
  BY <1>1, <1>3 DEF Finished, Snapshot, Queue
<1> QED BY <1>2, <1>3

(* Offering the RUNNING tasks again makes a snapshot.                      *)
LEMMA RetriedType == ASSUME NEW snap \in Snapshot
                     PROVE  Retried(snap) \in Snapshot
<1> DEFINE ts == [t \in Tasks |-> IF snap.queue.task[t] = "RUNNING"
                                  THEN "READY" ELSE snap.queue.task[t]]
<1>1. ts \in [Tasks -> TaskStates]
  BY DEF Snapshot, Queue, TaskStates
<1> QED BY <1>1, WithTasksType DEF Retried

(* The G0 transition makes a snapshot, also when it appends an id twice.   *)
LEMMA G0PassedType == ASSUME NEW snap \in Snapshot
                      PROVE  G0Passed(snap) \in Snapshot
<1> DEFINE ts == [t \in Tasks |->
        CASE t \in Superseded /\ snap.queue.task[t] # "ABSENT" -> "HUMAN_APPROVAL"
          [] t \in OnG0 -> IF snap.queue.task[t] = "ABSENT" THEN "READY" ELSE "DUPLICATE"
          [] OTHER -> snap.queue.task[t]]
<1>1. ts \in [Tasks -> TaskStates]
  BY DEF Snapshot, Queue, TaskStates
<1>2. WithTasks(snap, ts) \in Snapshot
  BY <1>1, WithTasksType
<1>3. G0Passed(snap) = [WithTasks(snap, ts) EXCEPT !.state.phase = 1]
  BY DEF G0Passed
<1> HIDE DEF ts
<1> QED BY <1>2, <1>3 DEF Snapshot, State

(* Releasing only moves tasks from BLOCKED_DEPENDENCY to READY.            *)
LEMMA ReleasedMoves ==
    ASSUME NEW ts, NEW t \in Tasks
    PROVE  \/ Released(ts)[t] = ts[t]
           \/ ts[t] = "BLOCKED_DEPENDENCY" /\ Released(ts)[t] = "READY"
  BY DEF Released

-----------------------------------------------------------------------------
(* Sums of a function over the subsets of a finite set, in the order in     *)
(* which the community modules' fold takes the elements.                    *)

(* A set of naturals has a least element.                                   *)
LEMMA LeastNatural ==
    ASSUME NEW T \in SUBSET Nat, T # {} PROVE \E x \in T : \A y \in T : x <= y
<1> DEFINE R == {pair \in Nat \X Nat : pair[1] < pair[2]}
<1>1. IsWellFoundedOn(R, Nat)
    BY NatLessThanWellFounded, Zenon DEF OpToRel
<1>2. \E x \in T : \A y \in T : ~ (<<y, x>> \in R)
    BY <1>1, WFMin, Zenon
<1>3. \A x, y \in T : ~ (<<y, x>> \in R) => x <= y
    OBVIOUS
<1> QED BY <1>2, <1>3

\* The element the fold of a sum takes out of a set next.
Chosen(s) == CHOOSE x \in s : TRUE

\* The sums of f over the subsets of S, as the fold computes them.
IsSum(g, f, S) ==
    g = [s \in SUBSET S |-> IF s = {} THEN 0 ELSE f[Chosen(s)] + g[s \ {Chosen(s)}]]

(* Taking the chosen element out makes a finite set smaller.                *)
LEMMA ChosenSmaller ==
    ASSUME NEW S, IsFiniteSet(S), NEW s \in SUBSET S
    PROVE  /\ IsFiniteSet(s) /\ Cardinality(s) \in Nat
           /\ s # {} => /\ Chosen(s) \in s /\ s \ {Chosen(s)} \in SUBSET S
                        /\ Cardinality(s \ {Chosen(s)}) = Cardinality(s) - 1
                        /\ Cardinality(s) > 0
<1>1. IsFiniteSet(s)
    BY FS_Subset
<1>2. Cardinality(s) \in Nat
    BY <1>1, FS_CardinalityType
<1>3. ASSUME s # {} PROVE Chosen(s) \in s
    BY <1>3 DEF Chosen
<1>4. ASSUME s # {} PROVE Cardinality(s \ {Chosen(s)}) = Cardinality(s) - 1
    BY <1>1, <1>3, <1>4, FS_RemoveElement
<1>5. ASSUME s # {} PROVE Cardinality(s) > 0
    BY <1>1, <1>2, <1>5, FS_EmptySet
<1> QED BY <1>1, <1>2, <1>3, <1>4, <1>5

(* The equation of the sums, element by element.                            *)
LEMMA SumEquation ==
    ASSUME NEW S, NEW f, NEW g, IsSum(g, f, S), NEW s \in SUBSET S
    PROVE  /\ s = {} => g[s] = 0
           /\ s # {} => g[s] = f[Chosen(s)] + g[s \ {Chosen(s)}]
  BY DEF IsSum

(* Sums of naturals are naturals.                                           *)
LEMMA SumNatural ==
    ASSUME NEW S, IsFiniteSet(S), NEW f \in [S -> Nat], NEW g, IsSum(g, f, S)
    PROVE  \A s \in SUBSET S : g[s] \in Nat
<1>0. \A s \in SUBSET S :
        /\ s = {} => g[s] = 0
        /\ s # {} => g[s] = f[Chosen(s)] + g[s \ {Chosen(s)}]
    BY SumEquation
<1> SUFFICES ASSUME NEW b \in SUBSET S, g[b] \notin Nat PROVE FALSE
    OBVIOUS
<1> DEFINE Bad == {s \in SUBSET S : g[s] \notin Nat}
           Sizes == {Cardinality(s) : s \in Bad}
<1>1. Sizes \in SUBSET Nat /\ Sizes # {}
  <2>1. \A s \in SUBSET S : Cardinality(s) \in Nat
      BY ChosenSmaller
  <2> QED BY <2>1
<1>2. PICK n \in Sizes : \A m \in Sizes : n <= m
    BY <1>1, LeastNatural
<1>3. PICK s \in Bad : n = Cardinality(s)
    OBVIOUS
<1>9. s \in SUBSET S /\ g[s] \notin Nat
    OBVIOUS
<1> HIDE DEF Bad, Sizes
<1>4. s # {}
  <2>1. g[{}] = 0 /\ 0 \in Nat
      BY <1>0
  <2> QED BY <1>9, <2>1
<1> DEFINE c == Chosen(s)
<1>5. c \in s /\ s \ {c} \in SUBSET S /\ Cardinality(s \ {c}) = n - 1 /\ n \in Nat
    BY <1>3, <1>4, <1>9, ChosenSmaller
<1>6. g[s \ {c}] \in Nat
  <2>1. ~(n <= n - 1)
      BY <1>5
  <2>2. Cardinality(s \ {c}) \notin Sizes
      BY <1>2, <1>5, <2>1
  <2> QED BY <1>5, <2>2 DEF Bad, Sizes
<1>7. g[s] = f[c] + g[s \ {c}]
    BY <1>0, <1>4, <1>9
<1>8. f[c] \in Nat
    BY <1>5, <1>9
<1> HIDE DEF c
<1> QED BY <1>6, <1>7, <1>8, <1>9

(* Every function to the naturals has sums over a finite set.               *)
LEMMA SumExists ==
    ASSUME NEW S, IsFiniteSet(S), NEW f \in [S -> Nat]
    PROVE  \E g : IsSum(g, f, S)
<1> DEFINE Rule(g, s) == g[s] = IF s = {} THEN 0 ELSE f[Chosen(s)] + g[s \ {Chosen(s)}]
           UpTo(g, n) == \A s \in SUBSET S : Cardinality(s) < n => Rule(g, s)
           Missing == {n \in Nat : ~\E g \in [SUBSET S -> Int] : UpTo(g, n)}
<1>1. Missing = {}
  <2> SUFFICES ASSUME Missing # {} PROVE FALSE
      OBVIOUS
  <2>1. PICK n \in Missing : \A m \in Missing : n <= m
    <3>1. Missing \in SUBSET Nat
        OBVIOUS
    <3> QED BY <3>1, LeastNatural
  <2>2. n # 0
    <3> DEFINE zero == [s \in SUBSET S |-> 0]
    <3>1. UpTo(zero, 0)
      <4>1. \A s \in SUBSET S : Cardinality(s) \in Nat
          BY ChosenSmaller
      <4>2. \A s \in SUBSET S : ~(Cardinality(s) < 0)
          BY <4>1
      <4> QED BY <4>2
    <3>2. zero \in [SUBSET S -> Int]
        OBVIOUS
    <3> HIDE DEF zero, UpTo
    <3>3. 0 \notin Missing
        BY <3>1, <3>2
    <3> QED BY <3>3
  <2>3. n - 1 \in Nat /\ n - 1 \notin Missing
    <3>1. n \in Nat /\ n - 1 \in Nat /\ ~(n <= n - 1)
        BY <2>2
    <3> QED BY <2>1, <3>1
  <2>4. PICK g \in [SUBSET S -> Int] : UpTo(g, n - 1)
      BY <2>3
  <2> DEFINE h == [s \in SUBSET S |-> IF Cardinality(s) < n - 1 THEN g[s] ELSE
                                      IF s = {} THEN 0 ELSE f[Chosen(s)] + g[s \ {Chosen(s)}]]
  <2>5. h \in [SUBSET S -> Int]
    <3> SUFFICES ASSUME NEW s \in SUBSET S, s # {} PROVE f[Chosen(s)] + g[s \ {Chosen(s)}] \in Int
        OBVIOUS
    <3>1. Chosen(s) \in s /\ s \ {Chosen(s)} \in SUBSET S
        BY ChosenSmaller
    <3>2. f[Chosen(s)] \in Int /\ g[s \ {Chosen(s)}] \in Int
        BY <3>1
    <3> QED BY <3>2
  <2>6. ASSUME NEW s \in SUBSET S, Cardinality(s) < n PROVE Rule(h, s)
    <3>1. CASE s = {}
      <4>1. Cardinality(s) < n - 1 => g[s] = 0
          BY <2>4, <3>1
      <4> QED BY <3>1, <4>1
    <3>2. CASE s # {}
      <4> DEFINE c == Chosen(s)
      <4>1. /\ s \ {c} \in SUBSET S /\ Cardinality(s \ {c}) = Cardinality(s) - 1
            /\ Cardinality(s) \in Nat
          BY <3>2, ChosenSmaller
      <4>2. Cardinality(s \ {c}) < n - 1
          BY <2>3, <2>6, <4>1
      <4>3. h[s \ {c}] = g[s \ {c}]
          BY <4>1, <4>2
      <4>4. h[s] = f[c] + g[s \ {c}]
        <5>1. CASE Cardinality(s) < n - 1
            BY <2>4, <3>2, <5>1
        <5>2. CASE ~(Cardinality(s) < n - 1)
            BY <3>2, <5>2
        <5> QED BY <5>1, <5>2
      <4> QED BY <3>2, <4>3, <4>4
    <3> QED BY <3>1, <3>2
  <2>7. UpTo(h, n)
      BY <2>6
  <2> QED BY <2>5, <2>7
<1>2. Cardinality(S) + 1 \in Nat
  <2>1. Cardinality(S) \in Nat
      BY FS_CardinalityType
  <2> QED BY <2>1
<1>3. PICK g \in [SUBSET S -> Int] : UpTo(g, Cardinality(S) + 1)
    BY <1>1, <1>2
<1>4. ASSUME NEW s \in SUBSET S PROVE Rule(g, s)
  <2>1. Cardinality(s) <= Cardinality(S) /\ Cardinality(s) \in Nat /\ Cardinality(S) \in Nat
      BY FS_Subset, ChosenSmaller
  <2> QED BY <1>3, <2>1
<1>5. IsSum(g, f, S)
  <2>1. g = [s \in SUBSET S |-> g[s]]
      OBVIOUS
  <2> QED BY <1>4, <2>1 DEF IsSum
<1> QED BY <1>5

\* e is f, but for one more at x.
OneMore(e, f, x, S) ==
    IsFiniteSet(S) /\ f \in [S -> Nat] /\ x \in S /\ e = [f EXCEPT ![x] = @ + 1]

(* The sum of a function that is one more at x is one more.                 *)
LEMMA SumAddsOne ==
    ASSUME NEW S, NEW f, NEW e, NEW x, OneMore(e, f, x, S),
           NEW g, IsSum(g, f, S), NEW h, IsSum(h, e, S)
    PROVE  h[S] = g[S] + 1
<1>0. /\ IsFiniteSet(S) /\ f \in [S -> Nat] /\ x \in S
      /\ e \in [S -> Nat] /\ e[x] = f[x] + 1 /\ \A y \in S \ {x} : e[y] = f[y]
    BY DEF OneMore
<1>3. \A s \in SUBSET S :
        /\ s = {} => g[s] = 0
        /\ s # {} => g[s] = f[Chosen(s)] + g[s \ {Chosen(s)}]
    BY SumEquation
<1>4. \A s \in SUBSET S :
        /\ s = {} => h[s] = 0
        /\ s # {} => h[s] = e[Chosen(s)] + h[s \ {Chosen(s)}]
    BY SumEquation
<1> DEFINE More(s) == IF x \in s THEN 1 ELSE 0
           Bad == {s \in SUBSET S : h[s] # g[s] + More(s)}
           Sizes == {Cardinality(s) : s \in Bad}
<1>1. Bad = {}
  <2> SUFFICES ASSUME Bad # {} PROVE FALSE
      OBVIOUS
  <2>1. Sizes \in SUBSET Nat /\ Sizes # {}
    <3>1. \A s \in SUBSET S : Cardinality(s) \in Nat
        BY <1>0, ChosenSmaller
    <3> QED BY <3>1
  <2>2. PICK n \in Sizes : \A m \in Sizes : n <= m
      BY <2>1, LeastNatural
  <2>3. PICK s \in Bad : n = Cardinality(s)
      OBVIOUS
  <2>4. s # {}
    <3>1. g[{}] = 0 /\ h[{}] = 0
        BY <1>3, <1>4
    <3>2. h[{}] = g[{}] + More({})
        BY <3>1
    <3> QED BY <3>2
  <2> DEFINE c == Chosen(s)
  <2>5. c \in s /\ s \ {c} \in SUBSET S /\ Cardinality(s \ {c}) = n - 1 /\ n \in Nat
      BY <2>3, <2>4, <1>0, ChosenSmaller
  <2>6. h[s \ {c}] = g[s \ {c}] + More(s \ {c})
    <3>1. ~(n <= n - 1)
        BY <2>5
    <3>2. Cardinality(s \ {c}) \notin Sizes
        BY <2>2, <2>5, <3>1
    <3> QED BY <2>5, <3>2
  <2>7. h[s] = e[c] + h[s \ {c}] /\ g[s] = f[c] + g[s \ {c}]
      BY <1>3, <1>4, <2>4
  <2>8. /\ f[c] \in Nat /\ e[c] \in Nat /\ g[s \ {c}] \in Nat /\ h[s \ {c}] \in Nat
        /\ e[c] = f[c] + (IF x = c THEN 1 ELSE 0)
      BY <1>0, <2>5, SumNatural
  <2>9. More(s) = More(s \ {c}) + (IF x = c THEN 1 ELSE 0)
      BY <2>5
  <2> HIDE DEF More, c
  <2>10. More(s \ {c}) \in Nat
      BY DEF More
  <2> QED BY <2>3, <2>6, <2>7, <2>8, <2>9, <2>10
<1>2. S \in SUBSET S
    OBVIOUS
<1> QED BY <1>0, <1>1, <1>2

(* The sum of zeros is zero.                                                *)
LEMMA SumOfZeros ==
    ASSUME NEW S, IsFiniteSet(S), NEW f \in [S -> Nat], \A y \in S : f[y] = 0,
           NEW g, IsSum(g, f, S)
    PROVE  g[S] = 0
<1>2. \A s \in SUBSET S :
        /\ s = {} => g[s] = 0
        /\ s # {} => g[s] = f[Chosen(s)] + g[s \ {Chosen(s)}]
    BY SumEquation
<1> DEFINE Bad == {s \in SUBSET S : g[s] # 0}
           Sizes == {Cardinality(s) : s \in Bad}
<1>1. Bad = {}
  <2> SUFFICES ASSUME Bad # {} PROVE FALSE
      OBVIOUS
  <2>1. Sizes \in SUBSET Nat /\ Sizes # {}
    <3>1. \A s \in SUBSET S : Cardinality(s) \in Nat
        BY ChosenSmaller
    <3> QED BY <3>1
  <2>2. PICK n \in Sizes : \A m \in Sizes : n <= m
      BY <2>1, LeastNatural
  <2>3. PICK s \in Bad : n = Cardinality(s)
      OBVIOUS
  <2>4. s # {}
      BY <1>2
  <2> DEFINE c == Chosen(s)
  <2>5. c \in s /\ s \ {c} \in SUBSET S /\ Cardinality(s \ {c}) = n - 1 /\ n \in Nat
      BY <2>3, <2>4, ChosenSmaller
  <2>6. g[s \ {c}] = 0
    <3>1. ~(n <= n - 1)
        BY <2>5
    <3>2. Cardinality(s \ {c}) \notin Sizes
        BY <2>2, <2>5, <3>1
    <3> QED BY <2>5, <3>2
  <2>7. g[s] = f[c] + g[s \ {c}] /\ f[c] = 0
      BY <1>2, <2>4, <2>5
  <2> QED BY <2>3, <2>6, <2>7
<1> QED BY <1>1
=============================================================================
