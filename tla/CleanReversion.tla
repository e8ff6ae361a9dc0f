--------------------------- MODULE CleanReversion ---------------------------
(***************************************************************************)
(* The clean-room mean-reversion evaluator (v5) and the reference          *)
(* calculator written beside it, walking over the same sessions side by    *)
(* side.  One step is one session of both loops.  A price path is what the *)
(* signal does: cross the entry or the exit threshold, or neither.  Of the *)
(* accounts the weights (0 or TARGET_WEIGHT) and the numbers of fills and  *)
(* of interval returns are kept.                                           *)
(***************************************************************************)
EXTENDS CleanSessions

CONSTANTS CleanAssets,    \* ASSETS
          CleanWindow,    \* closes a signal looks back over
          CleanHold       \* maximum_holding_intervals

ASSUME CleanReversionAssumption ==
    /\ CleanWindow \in Nat \ {0} /\ CleanHold \in Nat \ {0} /\ IsFiniteSet(CleanAssets)

VARIABLES roll,       \* the sessions
          postponed,  \* delay_sessions
          sinceDate, \* start_timestamp, or 0
          traders,    \* active_assets
          passed,     \* sessions both loops have done
          account,    \* the evaluator's locals
          mirror      \* the reference's

cleanVars == <<roll, postponed, sinceDate, traders, passed, account, mirror>>

NoEntry == 0
NoDue == [at |-> 0, weight |-> 0]
NewAccount ==
    [closes |-> 0, weight |-> [a \in CleanAssets |-> 0],
     entry |-> [a \in CleanAssets |-> NoEntry], due |-> [a \in CleanAssets |-> NoDue],
     recovering |-> FALSE, count |-> 0, valued |-> FALSE, fills |-> 0, returns |-> 0,
     state |-> "running"]

Reject(p, why) == [p EXCEPT !.state = why]
Last == Len(roll)
Crossings == [CleanAssets -> {"entry", "exit", "none"}]

(* An incomplete session: fatal with exposure or an exit under way.         *)
CrossIncomplete(p) ==
    IF \E a \in traders : p.weight[a] = 1 \/ (p.due[a] # NoDue /\ p.due[a].weight = 0)
    THEN Reject(p, "risky_gap")
    ELSE [p EXCEPT !.closes = 0, !.due = [a \in CleanAssets |-> NoDue], !.valued = FALSE,
                   !.recovering = TRUE, !.count = 0]

(* The first CleanRecovery complete sessions after a gap. *)
CountRecovery(p) ==
    IF ~p.recovering THEN p
    ELSE [p EXCEPT !.count = @ + 1, !.recovering = p.count + 1 < CleanRecovery]

(* Weights and entries after the orders of some assets are filled. *)
Filled(p, filled, i) ==
    [p EXCEPT !.weight = [a \in CleanAssets |-> IF a \in filled THEN p.due[a].weight ELSE @[a]],
              !.entry = [a \in CleanAssets |-> IF a \notin filled THEN @[a]
                                               ELSE IF p.due[a].weight = 1 THEN i ELSE NoEntry],
              !.due = [a \in CleanAssets |-> IF a \in filled THEN NoDue ELSE @[a]],
              !.fills = @ + Cardinality(filled)]

FillDue(p, i) ==
    IF \E a \in traders : p.due[a] # NoDue /\ p.due[a].at < i THEN Reject(p, "skipped_index")
    ELSE Filled(p, {a \in traders : p.due[a] # NoDue /\ p.due[a].at = i}, i)

Entering(p, a, i, seen) ==
    /\ p.due[a] = NoDue /\ p.weight[a] = 0
    /\ ~p.recovering /\ p.closes > CleanWindow /\ seen[a] = "entry"

(* A holding clock that anticipates the fill of the exit. *)
LeavingEarlier(p, a, i, seen) ==
    /\ p.due[a] = NoDue /\ p.weight[a] = 1
    /\ \/ i + 1 - p.entry[a] >= CleanHold
       \/ ~p.recovering /\ p.closes > CleanWindow /\ seen[a] = "exit"

Leaving(p, a, i, seen) ==
    /\ p.due[a] = NoDue /\ p.weight[a] = 1
    /\ \/ i - p.entry[a] >= CleanHold
       \/ ~p.recovering /\ p.closes > CleanWindow /\ seen[a] = "exit"

(* Assets sold at once in the last session. *)
SoldNow(p, sold) ==
    [p EXCEPT !.weight = [a \in CleanAssets |-> IF a \in sold THEN 0 ELSE @[a]],
              !.entry = [a \in CleanAssets |-> IF a \in sold THEN NoEntry ELSE @[a]],
              !.fills = @ + Cardinality(sold)]

(* A target needs its session to be there and complete, or the path fails.  *)
Order(p, into, out, at) ==
    IF into \union out = {} THEN p
    ELSE IF at > Last \/ ~roll[at].complete THEN Reject(p, "no_exact_row")
    ELSE [p EXCEPT !.due = [a \in CleanAssets |->
                              IF a \in into THEN [at |-> at, weight |-> 1]
                              ELSE IF a \in out THEN [at |-> at, weight |-> 0] ELSE @[a]]]

DecideTargets(p, i, seen) ==
    LET into == {a \in traders : Entering(p, a, i, seen)}
        out == {a \in traders : Leaving(p, a, i, seen)}
        sold == IF i = Last THEN out ELSE {}
    IN  Order(SoldNow(p, sold), into, out \ sold, i + 1 + postponed)

(* A complete session of the evaluator. *)
EvaluateComplete(p, i, seen) ==
    LET q == CountRecovery(p)
        reset == [q EXCEPT !.weight = [a \in CleanAssets |-> 0],
                           !.due = [a \in CleanAssets |-> NoDue]]
        filled == FillDue(IF sinceDate # 0 /\ ~q.valued THEN reset ELSE q, i)
        marked == [filled EXCEPT !.closes = @ + 1]
        decided == DecideTargets(marked, i, seen)
    IN  IF roll[i].date < sinceDate THEN [q EXCEPT !.closes = @ + 1]
        ELSE IF filled.state # "running" THEN filled
        ELSE IF decided.state # "running" THEN decided
        ELSE [decided EXCEPT !.returns = IF q.valued THEN @ + 1 ELSE @, !.valued = TRUE]

(* The reference forgets orders at a gap, but neither exposure nor recovery *)
(* is looked at, and it decides without looking for an order under way.     *)
ReferenceTargets(p, i, seen) ==
    LET ready == p.closes > CleanWindow
        into == {a \in CleanAssets : p.weight[a] = 0 /\ ready /\ seen[a] = "entry"}
        out == {a \in CleanAssets : /\ p.weight[a] = 1
                                    /\ i - p.entry[a] >= CleanHold \/ (ready /\ seen[a] = "exit")}
        sold == IF i = Last THEN out ELSE {}
    IN  Order(SoldNow(p, sold), into, out \ sold, i + 1)

ReferenceComplete(p, i, seen) ==
    LET due == {a \in CleanAssets : p.due[a] # NoDue}
        decided == ReferenceTargets([Filled(p, due, i) EXCEPT !.closes = @ + 1], i, seen)
    IN  IF \E a \in due : p.due[a].at # i THEN Reject(p, "skipped_index")
        ELSE IF decided.state # "running" THEN decided
        ELSE [decided EXCEPT !.returns = IF p.valued THEN @ + 1 ELSE @, !.valued = TRUE]

ReferenceSession(p, i, seen) ==
    IF p.state # "running" THEN p
    ELSE IF roll[i].complete THEN ReferenceComplete(p, i, seen)
    ELSE [p EXCEPT !.closes = 0, !.due = [a \in CleanAssets |-> NoDue], !.valued = FALSE]

EvaluatorSession(p, i, seen) ==
    IF p.state # "running" THEN p
    ELSE IF roll[i].complete THEN EvaluateComplete(p, i, seen) ELSE CrossIncomplete(p)

(* The reference knows the frozen primary only. *)
Comparable == postponed = 0 /\ sinceDate = 0 /\ traders = CleanAssets

CleanSession ==
    /\ passed < Last /\ "running" \in {account.state, mirror.state}
    /\ \E seen \in Crossings :
         /\ account' = EvaluatorSession(account, passed + 1, seen)
         /\ mirror' = IF Comparable THEN ReferenceSession(mirror, passed + 1, seen) ELSE mirror
    /\ passed' = passed + 1
    /\ UNCHANGED <<roll, postponed, sinceDate, traders>>

(* What is still held is sold at the last close, which is a return more.    *)
LiquidateClean(p) ==
    LET held == {a \in CleanAssets : p.weight[a] = 1}
    IN  IF p.state # "running" THEN p
        ELSE [SoldNow(p, held) EXCEPT
                !.returns = IF held = {} THEN @ ELSE @ + 1,
                !.state = IF \E a \in traders : p.due[a] # NoDue THEN "not_cash" ELSE "completed"]

ReferenceEnd(p) ==
    LET held == {a \in CleanAssets : p.weight[a] = 1}
    IN  IF p.state # "running" THEN p
        ELSE [SoldNow(p, held) EXCEPT !.returns = IF held = {} THEN @ ELSE @ + 1,
                                      !.state = "completed"]

CleanClose ==
    /\ passed = Last /\ "running" \in {account.state, mirror.state}
    /\ account' = LiquidateClean(account)
    /\ mirror' = IF Comparable THEN ReferenceEnd(mirror) ELSE [mirror EXCEPT !.state = "completed"]
    /\ UNCHANGED <<roll, postponed, sinceDate, traders, passed>>

CleanInit(lists, subsets) ==
    /\ roll \in lists
    /\ postponed \in {0, 1} /\ sinceDate \in {0, 2} /\ traders \in subsets
    /\ passed = 0 /\ account = NewAccount /\ mirror = NewAccount

CleanNext == CleanSession \/ CleanClose

CleanSpec == CleanInit(SessionLists, SUBSET CleanAssets) /\ [][CleanNext]_cleanVars

-----------------------------------------------------------------------------
(* Two independent loops, one account: as long as no session was            *)
(* incomplete, evaluator and reference hold, order and count the same in    *)
(* every session, fail where the other fails and end alike; and an order    *)
(* never misses the session it names.                                       *)
CleanAgreesWithReference ==
    /\ Comparable /\ (\A i \in 1 .. passed : roll[i].complete) =>
         /\ account.weight = mirror.weight /\ account.due = mirror.due
         /\ account.entry = mirror.entry /\ account.fills = mirror.fills
         /\ account.returns = mirror.returns /\ account.state = mirror.state
    /\ account.state \notin {"skipped_index", "not_cash"}

(* The frozen contract: an entry filled at index j is in cash again at      *)
(* index j + maximum_holding_intervals.                                     *)
CleanHoldLimit ==
    account.state = "running" =>
        \A a \in traders : account.weight[a] = 1 => passed - account.entry[a] < CleanHold
=============================================================================
