---------------------------- MODULE ReversionPath ----------------------------
(***************************************************************************)
(* One evaluated path of the standardized-shock strategy                   *)
(* (mean_reversion_v2_evaluator._path): a pass over the sessions that      *)
(* quarantines gaps, fills, decides and accounts, then checks its own      *)
(* trace.  One step is one iteration of the session loop; market, delay,   *)
(* first evaluated session and active assets are the path's arguments.     *)
(* "error" names the exception that ended the path.                        *)
(***************************************************************************)
EXTENDS JointSessions, ReversionClock

VARIABLES market,       \* the joint sessions of the bundle
          delay,        \* 0, or 1 for the delayed-execution stress
          first,        \* first session inside the evaluated window
          active,       \* assets the path may trade
          session,      \* next session of the loop
          clocks,       \* asset -> clock
          targets,      \* targets issued: [asset, session, index, time, weight]
          settled,      \* dispositions: [asset, session, kind, index, time]
          book,         \* accounting fills, one per evaluated identity
          error         \* "no" or why the path raised

pathVars == <<market, delay, first, active, session, clocks, targets, settled,
              book, error>>

Identity == FillIdentities(market)
HasIdentity(s) == s \in FillSessions(market)
Raised(cs) == {a \in Assets : cs[a].raised # "no"}

(* What one iteration changes; the operators below pass it along. *)
Locals == [clocks |-> clocks, targets |-> targets, settled |-> settled,
           book |-> book, error |-> "no"]

Fail(p, why) == IF p.error = "no" THEN [p EXCEPT !.error = why] ELSE p

(* apply_fill on the assets of "due", each recorded with its disposition.   *)
FillAt(p, due, time, index) ==
    LET cs == [a \in Assets |-> IF a \in due THEN ApplyFill(p.clocks[a], time, index)
                                             ELSE p.clocks[a]]
    IN  IF p.error # "no" THEN p
        ELSE IF Raised(cs) # {}
             THEN Fail(p, cs[CHOOSE a \in Raised(cs) : TRUE].raised)
        ELSE [p EXCEPT !.clocks = cs,
               !.settled = @ \union
                 {[asset |-> a, session |-> p.clocks[a].pending.session,
                   kind |-> "fill", index |-> index, time |-> time] : a \in due}]

TargetOf(a, pending) ==
    [asset |-> a, session |-> pending.session, index |-> pending.index,
     time |-> pending.time, weight |-> pending.weight]

Due(p, id) == {a \in Assets : /\ p.clocks[a].pending # NoTarget
                              /\ p.clocks[a].pending.index = id.index}

(* The block before a decision, for targets of an earlier session. *)
FillEarlier(p, id) ==
    LET time == IF delay = 1 THEN id.delayed ELSE id.base
    IN  IF Due(p, id) = {} THEN p
        ELSE IF time = NoTime THEN Fail(p, "missing_delayed_fill")
        ELSE FillAt(p, Due(p, id), time, id.index)

(* At the predeclared last fill a pending entry is cancelled, a pending     *)
(* exit is fatal and every open position gets a forced cash target.         *)
Terminate(p, id) ==
    LET waiting == {a \in Assets : p.clocks[a].pending # NoTarget}
        long == {a \in Assets : p.clocks[a].actual = Long}
        forced == [session |-> id.session, index |-> id.index, time |-> id.base,
                   weight |-> Flat]
        late == {a \in long : Decide(p.clocks[a], delay, id.session, id.base, NoTime,
                                     id.index, "none").raised # "no"}
    IN  IF p.error # "no" THEN p
        ELSE IF \E a \in waiting : p.clocks[a].pending.weight = Flat
             THEN Fail(p, "pending_exit_at_terminal")
        ELSE IF late # {} THEN Fail(p, "no_delayed_identity")
        ELSE [p EXCEPT
               !.clocks = [a \in Assets |->
                   [@[a] EXCEPT !.pending = IF a \in long THEN forced ELSE NoTarget]],
               !.targets = @ \union {TargetOf(a, forced) : a \in long},
               !.settled = @ \union
                   {[asset |-> a, session |-> p.clocks[a].pending.session,
                     kind |-> "terminal_cancel", index |-> NoIndex,
                     time |-> id.base] : a \in waiting}]

(* Ordinary sessions: every active asset decides on its own signal. *)
DecideAll(p, id, signal) ==
    LET cs == [a \in Assets |->
                 IF a \in active
                 THEN Decide(p.clocks[a], delay, id.session, id.base, id.delayed,
                             id.index, signal[a])
                 ELSE p.clocks[a]]
        new == {a \in Assets : cs[a].pending # p.clocks[a].pending}
    IN  IF p.error # "no" THEN p
        ELSE IF Raised(cs) # {} THEN Fail(p, "no_delayed_identity")
        ELSE [p EXCEPT !.clocks = cs,
                       !.targets = @ \union {TargetOf(a, cs[a].pending) : a \in new}]

(* Base targets execute after the decision; delayed ones only at the end. *)
FillBase(p, id, last) ==
    IF delay = 0 \/ last THEN FillAt(p, Due(p, id), id.base, id.index) ELSE p

(* One accounting vector per evaluated identity, at its execution time. *)
Account(p, id, last) ==
    LET time == IF delay = 0 \/ last THEN id.base ELSE id.delayed
    IN  IF p.error # "no" THEN p
        ELSE IF time = NoTime THEN Fail(p, "missing_accounting_vector")
        ELSE [p EXCEPT !.book = Append(@, [session |-> id.session, index |-> id.index,
                 segment |-> id.segment, time |-> time,
                 weight |-> [a \in Assets |-> p.clocks[a].actual]])]

(* A complete, eligible session inside the window. *)
Evaluate(id, signal) ==
    LET earlier == FillEarlier(Locals, id)
        last == id.session = TerminalSession(market)
        decided == IF last THEN Terminate(earlier, id) ELSE DecideAll(earlier, id, signal)
    IN  IF id.session < first THEN earlier
        ELSE Account(FillBase(decided, id, last), id, last)

(* An incomplete session: quarantine both clocks. *)
QuarantineAll ==
    LET cs == [a \in Assets |-> QuarantineClock(clocks[a])]
    IN  IF Raised(cs) # {} THEN Fail(Locals, "risky_quarantine")
        ELSE [Locals EXCEPT !.clocks = cs]

Become(p) ==
    /\ clocks' = p.clocks /\ targets' = p.targets /\ settled' = p.settled
    /\ book' = p.book /\ error' = p.error
    /\ session' = session + 1
    /\ UNCHANGED <<market, delay, first, active>>

PathRunning == error = "no" /\ session <= Days

SkipSession ==
    /\ PathRunning
    /\ Complete(market, session) /\ ~HasIdentity(session)
    /\ Become(Locals)

GapSession ==
    /\ PathRunning
    /\ ~Complete(market, session)
    /\ Become(QuarantineAll)

EvaluateSession ==
    /\ PathRunning
    /\ HasIdentity(session)
    /\ \E signal \in [Assets -> Signals] : Become(Evaluate(Identity[session], signal))

(* reconcile_target_outcomes: one disposition per target, and a fill at     *)
(* exactly the index and time the target names.                             *)
Reconciled ==
    /\ \A t \in targets :
         LET of == {d \in settled : d.asset = t.asset /\ d.session = t.session}
         IN  /\ Cardinality(of) = 1
             /\ \A d \in of : d.kind = "fill" => d.index = t.index /\ d.time = t.time
    /\ \A d \in settled : \E t \in targets : t.asset = d.asset /\ t.session = d.session

(* The checks after the loop, in their order. *)
Verdict ==
    IF book = <<>> \/ (\E a \in Assets : \/ clocks[a].actual = Long
                                         \/ clocks[a].pending # NoTarget) THEN "not_cash"
    ELSE IF Len(book) < 3 THEN "too_few_intervals"
    ELSE IF ~Reconciled THEN "trace_rejected"
    ELSE "completed"

FinishPath ==
    /\ error = "no" /\ session = Days + 1
    /\ error' = Verdict
    /\ UNCHANGED <<market, delay, first, active, session, clocks, targets, settled, book>>

PathInit(markets, subsets, starts) ==
    /\ market \in {m \in markets : FillSessions(m) # {}}
    /\ delay \in {0, 1} /\ first \in starts
    /\ active \in subsets
    /\ session = 1 /\ clocks = [a \in Assets |-> NewClock]
    /\ targets = {} /\ settled = {} /\ book = <<>> /\ error = "no"

PathNext == SkipSession \/ GapSession \/ EvaluateSession \/ FinishPath

(* Every market, every set of active assets and every window of evaluation. *)
PathSpec == PathInit([Sessions -> SUBSET Assets], SUBSET Assets, Nat) /\ [][PathNext]_pathVars

-----------------------------------------------------------------------------
(* Exposure never crosses a gap: two accounting vectors with a position     *)
(* between them are vectors of consecutive sessions of one segment, so a    *)
(* return of the path is never earned over minutes nobody observed.         *)
ExposureStaysInSegment ==
    \A i \in 1 .. Len(book) - 1 :
        (\E a \in Assets : book[i].weight[a] = Long) =>
            /\ book[i].segment = book[i + 1].segment
            /\ book[i + 1].session = book[i].session + 1

(* No position of a path is held over more than MaxHold accounting          *)
(* intervals, however fills, recoveries and the forced liquidation fall; a  *)
(* path that came to the end of its loop is in cash and its trace           *)
(* reconciles: the checks after the loop never have anything to reject.     *)
HoldsEnd ==
    /\ \A a \in Assets : \A i \in 1 .. Len(book) : i + MaxHold <= Len(book) =>
         \E j \in i .. i + MaxHold : book[j].weight[a] = Flat
    /\ error # "trace_rejected" /\ (error = "not_cash" => book = <<>>)

PathSound == ExposureStaysInSegment /\ HoldsEnd
=============================================================================
