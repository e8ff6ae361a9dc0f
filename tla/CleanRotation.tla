--------------------------- MODULE CleanRotation ---------------------------
(***************************************************************************)
(* The clean-room rotation evaluator (v5): evaluate_development over the   *)
(* daily sessions, with decide as its own reading of the rotation rule.    *)
(* One step is one session.  Scores are small integers and a median        *)
(* lookback return is positive or not, as in RotationPath, whose           *)
(* DecisionForScores is the rule as it is registered.                      *)
(***************************************************************************)
EXTENDS CleanSessions, RotationPath

VARIABLES agenda,   \* the sessions
          slack,    \* delay_sessions
          origin,   \* start_timestamp, or 0
          spec,     \* trial: cash_filter and gap
          turn,     \* sessions done
          owned,    \* actual
          awaited,  \* pending: session and target
          causal,   \* causal_sessions, which recovery_complete_sessions counts too
          priced,   \* previous_prices is set
          finish    \* "running", "completed" or the exception

cleanRotationVars == <<agenda, slack, origin, spec, turn, owned, awaited, causal, priced,
                       finish>>

NoneAwaited == [at |-> 0, target |-> Cash]

(* TRIALS, as far as decide tells them apart. *)
CleanTrials == {[cash_filter |-> TRUE, gap |-> 2, tie_btc |-> FALSE],
                [cash_filter |-> TRUE, gap |-> 0, tie_btc |-> FALSE],
                [cash_filter |-> FALSE, gap |-> 0, tie_btc |-> TRUE]}

(* decide, once both scores exist. *)
CleanDecide(t, score, up, actual) ==
    LET winner == IF score[Btc] >= score[Eth] THEN Btc ELSE Eth
        loser == IF winner = Btc THEN Eth ELSE Btc
        eligible == ~t.cash_filter \/ up[winner]
        leads == score[winner] - score[loser] >= t.gap
    IN  IF actual = winner THEN IF eligible THEN winner ELSE Cash
        ELSE IF eligible /\ leads THEN winner ELSE actual

Ended(why) ==
    /\ finish' = why
    /\ UNCHANGED <<agenda, slack, origin, spec, turn, owned, awaited, causal, priced>>
TurnTo(o, w, n, v) ==
    /\ owned' = o /\ awaited' = w /\ causal' = n /\ priced' = v /\ turn' = turn + 1
    /\ UNCHANGED <<agenda, slack, origin, spec, finish>>

Upcoming == turn + 1
AtTurn == finish = "running" /\ turn < Len(agenda)

(* A gap that only exposure is fatal at. *)
MeetIncompleteOwned ==
    /\ AtTurn /\ ~agenda[Upcoming].complete
    /\ IF owned # Cash THEN Ended("exposure_crosses_quarantine")
       ELSE TurnTo(owned, awaited, 0, FALSE)

(* A gap is fatal with exposure or any decision under way, into cash too.   *)
MeetIncomplete ==
    /\ AtTurn /\ ~agenda[Upcoming].complete
    /\ IF owned # Cash \/ awaited # NoneAwaited THEN Ended("exposure_crosses_quarantine")
       ELSE TurnTo(owned, awaited, 0, FALSE)

WarmUp ==
    /\ AtTurn /\ agenda[Upcoming].complete /\ agenda[Upcoming].date < origin
    /\ TurnTo(owned, awaited, causal + 1, priced)

(* pending[0] == index: what is held and ordered once the order is filled.  *)
OrderDue == awaited.at = Upcoming
OwnedNow == IF OrderDue THEN awaited.target ELSE owned
AwaitedNow == IF OrderDue THEN NoneAwaited ELSE awaited

TradedSession == AtTurn /\ agenda[Upcoming].complete /\ agenda[Upcoming].date >= origin

(* decide has its window, and its decision is one that is ordered.          *)
DecisionDue ==
    /\ TradedSession /\ Upcoming # Len(agenda) /\ AwaitedNow = NoneAwaited
    /\ causal + 1 > ScoreWindow /\ causal + 1 >= CleanRecovery

(* The order due now is filled; the last session sells, the others decide   *)
(* once the window is there and recovered, unless an order is under way.    *)
MeetSession ==
    /\ TradedSession
    /\ IF Upcoming = Len(agenda) THEN TurnTo(Cash, NoneAwaited, causal + 1, TRUE)
       ELSE IF ~DecisionDue THEN TurnTo(OwnedNow, AwaitedNow, causal + 1, TRUE)
       ELSE \E s \in Scores, u \in Medians :
              TurnTo(OwnedNow, [at |-> Upcoming + 1 + slack,
                                target |-> CleanDecide(spec, s, u, OwnedNow)],
                     causal + 1, TRUE)

CloseAgenda ==
    /\ finish = "running" /\ turn = Len(agenda)
    /\ Ended(IF owned # Cash \/ awaited # NoneAwaited THEN "terminal_cash" ELSE "completed")

CleanRotationInit(lists) ==
    /\ agenda \in lists
    /\ slack \in {0, 1} /\ origin \in {0, 2}
    /\ spec \in CleanTrials
    /\ turn = 0 /\ owned = Cash /\ awaited = NoneAwaited /\ causal = 0 /\ priced = FALSE
    /\ finish = "running"

CleanRotationNext == MeetIncomplete \/ WarmUp \/ MeetSession \/ CloseAgenda

CleanRotationSpec ==
    CleanRotationInit(SessionLists) /\ [][CleanRotationNext]_cleanRotationVars

-----------------------------------------------------------------------------
(* Exposure rests on an observed past: while anything is held or ordered,   *)
(* the sessions since CleanRecovery before the decision were complete; an   *)
(* order names a session still to come and at most delay_sessions + 1 away, *)
(* though orders are not replaced while one is under way; so a path never   *)
(* ends by refusing itself.                                                 *)
CleanRotationSound ==
    /\ finish = "running" /\ (owned # Cash \/ awaited # NoneAwaited) =>
         /\ causal >= CleanRecovery /\ causal > ScoreWindow
         /\ \A i \in turn - CleanRecovery + 1 .. turn : agenda[i].complete
    /\ finish = "running" /\ awaited # NoneAwaited =>
         awaited.at \in turn + 1 .. turn + 1 + slack
    /\ finish # "terminal_cash"

(* Whenever a decision is ordered, decide targets for the position then     *)
(* held what the registered rule targets (cash_exit_rule and tie_rule of    *)
(* the rotation's preregistration), whatever the scores and medians are.    *)
CleanDecidesFrozen ==
    DecisionDue =>
        \A s \in Scores, u \in Medians :
            CleanDecide(spec, s, u, OwnedNow) = DecisionForScores(spec, s, u, OwnedNow)
=============================================================================
