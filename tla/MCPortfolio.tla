----------------------------- MODULE MCPortfolio -----------------------------
(***************************************************************************)
(* The programs of the portfolio research share nothing while they run:    *)
(* each is one process over its own data.  An instance chooses one of them *)
(* and its data in the initial state; the others rest in a fixed state.    *)
(***************************************************************************)
EXTENDS ReversionPath, ReversionPeriod, RotationPath, RotationPeriod, ParityPath,
        ManagedPath, TrendPath, CalendarPath, CleanReversion, CleanRotation, StudyGates,
        HoldoutLatch, ArchiveAudit, Route4Ledger

CONSTANTS MaxGaps,   \* incomplete sessions of a market
          MaxGone,   \* abnormal days of a period
          PlainRequest  \* a request that is answered or times out

VARIABLE program

(* The loss of a session is joint; the last of the window is never complete *)
(* (its last minute becomes available after it).                           *)
Markets ==
    {m \in [Sessions -> {Assets, {}}] :
       /\ m[Days] = {}
       /\ Cardinality({s \in 1 .. Days - 1 : m[s] # Assets}) <= MaxGaps}

Grids(days) ==
    {g \in [1 .. days -> SUBSET {"session", "fill"}] :
       Cardinality({d \in 1 .. days : g[d] # {"session", "fill"}}) <= MaxGone}
PeriodGrids ==
    {g \in [1 .. PeriodDays -> SUBSET {"session", "fill"}] :
       Cardinality({d \in 1 .. PeriodDays : g[d] # {"session", "fill"}}) <= 1}

(* Minute rows: both assets miss two minutes or a day, or one misses one.   *)
Hole(S) == [a \in Pair |-> Opens \ S]
MinuteMarkets ==
    {[a \in Pair |-> IF a = Btc THEN Opens \ {m} ELSE Opens] : m \in Opens}
      \union {Hole({x, y}) : x \in Opens, y \in Opens} \union {Hole({})}
      \union {Hole(MinutesOf(d)) : d \in 1 .. MarketDays - 2}
Windows == {<<0, MarketEnd>>, <<2 * Minutes, MarketEnd - Minutes>>}

(* Dates of the clean-room months: at most two of them abnormal.            *)
Calendars ==
    {c \in [1 .. CleanDays -> Coverage] :
       c[1] = "whole" /\ Cardinality({d \in 1 .. CleanDays : c[d] # "whole"}) <= 2}

(* Vectors the calendar study misses: two minutes, or four in a row.        *)
LostVectors ==
    {{x, y} : x \in 0 .. CalendarEnd - 2, y \in 0 .. CalendarEnd - 2} \union {{}}
      \union {x .. x + 3 : x \in 0 .. CalendarEnd - 5}

(* Archives of the symbols: at most two objects of the first symbol are not *)
(* there yet.                                                              *)
Buckets ==
    {b \in [Symbols -> [Months -> [Kinds -> 0 .. 1]]] :
       /\ \A s \in Symbols \ {1}, m \in Months, k \in Kinds : b[s][m][k] = 1
       /\ Cardinality({c \in Months \X Kinds : b[1][c[1]][c[2]] = 0}) <= 2}

(* Attempt records with right and wrong ordinals, lineage and actions; one  *)
(* request is only answered or times out.                                  *)
MCAttempts ==
    {r \in [request : LogicalRequests, ordinal : 1 .. 4, prior : 0 .. 2, outcome : Outcomes,
            bytes : BOOLEAN, action : NextActions, sound : {TRUE}] :
       /\ r.bytes = (r.outcome \in {"success", "retryable_error"})
       /\ r.prior \in {0, r.ordinal - 1}
       /\ r.action \in {ExpectedAction(r.outcome, r.ordinal), "retry"}
       /\ r.request = PlainRequest => r.outcome \in {"success", "retryable_silence"}}

(* Terminal records with right and wrong attempts, prefixes, summaries and  *)
(* states.                                                                 *)
MCTerminals ==
    {t \in [request : LogicalRequests, ids : {<<1>>, <<1, 2>>, <<1, 2, 3>>}, prefix : 1 .. 7,
            response : BOOLEAN, bytes : BOOLEAN, checked : BOOLEAN, state : TerminalStates,
            accepted : BOOLEAN, sound : {TRUE}] :
       /\ (t.bytes => t.response) /\ t.checked = t.bytes
       /\ t.accepted = (t.state = "SUCCEEDED") /\ t.prefix \in Len(t.ids) .. Len(t.ids) + 4
       /\ t.request = PlainRequest =>
            t.response = t.bytes /\ t.accepted = t.bytes /\ t.state # "NONRETRYABLE_FAILED"}

(* Contracts of the studies: what one of them implements, with gates left   *)
(* out or added, and those that ask for next to nothing.                    *)
AllPaths == {"primary", "neighbours", "doubled", "delayed", "folds"}
GatesOfStudies ==
    {AllPaths \union {"sharpe", "multiplicity", "quality"} \union s :
       s \in {{}, {"standalone"}, {"standalone", "leave_one_out"}}}
MCContracts ==
    {{}, {"primary"}, {"unknown"}, {"primary", "sharpe"}, {"multiplicity"}}
      \union {g \ out : g \in GatesOfStudies,
                out \in {{}, {"quality"}, {"multiplicity"}, {"doubled", "delayed"},
                         {"sharpe", "multiplicity", "quality"}}}
      \union {g \union {"unknown"} : g \in GatesOfStudies}
      \union {(g \ {"quality"}) \union {"unknown"} : g \in GatesOfStudies}

PathIdle ==
    /\ market = [s \in Sessions |-> {}] /\ delay = 0 /\ first = 1 /\ active = {}
    /\ session = 1 /\ clocks = <<>> /\ targets = {} /\ settled = {} /\ book = <<>>
    /\ error = "no"

PeriodIdle ==
    /\ grid = <<>> /\ lag = 0 /\ opening = 1 /\ closing = 1 /\ day = 1 /\ holding = FALSE
    /\ queued = NoQueue /\ held = 0 /\ streak = 0 /\ marks = <<>> /\ fault = "no"

RotationIdle ==
    /\ source = "grid" /\ grids = <<>> /\ absent = {} /\ trial = <<>> /\ late = FALSE
    /\ position = 0 /\ carried = Cash /\ queue = EmptyQueue /\ window = 0
    /\ inside = NoSegment /\ trace = <<>> /\ outcome = "completed"

RotationPeriodIdle ==
    /\ log = <<>> /\ schedule = "cash" /\ starting = 1 /\ today = 1 /\ asset = NoAsset
    /\ ordered = NoOrder /\ enabled = FALSE /\ counted = 0 /\ part = 0
    /\ awaiting = FALSE /\ ledger = <<>> /\ verdict = "completed"

ParityIdle ==
    /\ loaded = [vectors |-> {}, gaps |-> {}, planned |-> {}] /\ role = "trial"
    /\ span = <<0, 1>> /\ clock = NoMoment /\ opened = NoMoment /\ safetyDue = {}
    /\ trigger = NoMoment /\ fills = {} /\ fate = "completed"

ManagedIdle ==
    /\ data = [vectors |-> {}, lost |-> {}, gaps |-> {}, planned |-> {}]
    /\ style = "benchmark" /\ bounds = <<0, 1>> /\ instant = NoMoment /\ since = NoMoment
    /\ owed = {} /\ lastTrigger = NoMoment /\ cancelled = {} /\ done = {}
    /\ ending = "completed"

TrendIdle ==
    /\ tape = [sessions |-> {}, vectors |-> {}, targets |-> <<>>, fills |-> <<>>]
    /\ symbols = Pair /\ period = <<0, 1>> /\ visited = -1 /\ started = FALSE
    /\ orders = <<>> /\ ended = "completed"

CalendarIdle ==
    /\ joint = {} /\ minuteDelay = 0 /\ hour = CalendarEnd /\ weights = {}
    /\ quarantined = FALSE /\ resumeAt = NoHour /\ snapshots = <<>>
    /\ counters = [entries |-> 0, episodes |-> 0] /\ result = "idle"

CleanIdle ==
    /\ roll = <<>> /\ postponed = 0 /\ sinceDate = 0 /\ traders = {} /\ passed = 0
    /\ account = [NewAccount EXCEPT !.state = "completed"]
    /\ mirror = [NewAccount EXCEPT !.state = "completed"]

CleanRotationIdle ==
    /\ agenda = <<>> /\ slack = 0 /\ origin = 0 /\ spec = <<>> /\ turn = 1 /\ owned = Cash
    /\ awaited = NoneAwaited /\ causal = 0 /\ priced = FALSE /\ finish = "completed"

StudyIdle ==
    /\ study = "trend" /\ stage = 1 /\ won = {} /\ sharpe = "none" /\ defined = FALSE
    /\ panel = "none" /\ prior = "unread" /\ contract = Unread /\ report = "none"

ArchiveIdle ==
    /\ bucket = <<>> /\ published = 0 /\ step = "raised" /\ marker = 0 /\ found = {}
    /\ jobs = <<>> /\ listings = <<>> /\ records = <<>>

Route4Idle ==
    /\ attempts = [q \in LogicalRequests |-> <<>>] /\ prefixLength = 0
    /\ terminals = [q \in LogicalRequests |-> NoTerminal] /\ ledgerVerdict = "refused"

RestOf(p) ==
    /\ p # "reversion path" => PathIdle
    /\ p # "reversion period" => PeriodIdle
    /\ p # "rotation path" => RotationIdle
    /\ p # "rotation period" => RotationPeriodIdle
    /\ p # "parity" => ParityIdle
    /\ p # "managed" => ManagedIdle
    /\ p # "trend" => TrendIdle
    /\ p # "calendar" => CalendarIdle
    /\ p # "clean reversion" => CleanIdle
    /\ p # "clean rotation" => CleanRotationIdle
    /\ p # "study" => StudyIdle
    /\ p # "latch" => LatchInit
    /\ p # "archive" => ArchiveIdle
    /\ p # "route 4" => Route4Idle

Init ==
    \/ /\ program = "reversion path"
       /\ PathInit(Markets, {Assets, {Btc}}, 1 .. 2 + Recovery) /\ RestOf("reversion path")
    \/ /\ program = "reversion period"
       /\ PeriodInit(PeriodGrids) /\ RestOf("reversion period")
    \/ /\ program = "rotation path"
       /\ RotationInit(Markets) /\ RestOf("rotation path")
    \/ /\ program = "rotation period"
       /\ RotationPeriodInit(Grids(CalendarDays)) /\ RestOf("rotation period")
    \/ /\ program = "parity"
       /\ ParityInit(MinuteMarkets, Windows) /\ RestOf("parity")
    \/ /\ program = "managed"
       /\ ManagedInit(MinuteMarkets, Windows) /\ RestOf("managed")
    \/ /\ program = "trend"
       /\ TrendInit(MinuteMarkets, Windows) /\ RestOf("trend")
    \/ /\ program = "calendar"
       /\ CalendarInit(LostVectors) /\ RestOf("calendar")
    \/ /\ program = "clean reversion"
       /\ CleanInit({DailySessions(c) : c \in Calendars}, {CleanAssets, {Btc}})
       /\ RestOf("clean reversion")
    \/ /\ program = "clean rotation"
       /\ CleanRotationInit({DailySessions(c) : c \in Calendars})
       /\ RestOf("clean rotation")
    \/ /\ program = "study" /\ StudyInit /\ RestOf("study")
    \/ /\ program = "latch" /\ LatchInit /\ RestOf("latch")
    \/ /\ program = "archive" /\ ArchiveInit(Buckets) /\ RestOf("archive")
    \/ /\ program = "route 4" /\ Route4Init /\ RestOf("route 4")

Next ==
    \/ /\ program = "reversion path" /\ PathNext
       /\ UNCHANGED <<periodVars, rotationVars, rotationPeriodVars, parityVars,
                      managedVars, trendVars, calendarVars, cleanVars,
                      cleanRotationVars, studyVars, latchVars, archiveVars, route4Vars,
                      program>>
    \/ /\ program = "reversion period" /\ PeriodNext
       /\ UNCHANGED <<pathVars, rotationVars, rotationPeriodVars, parityVars,
                      managedVars, trendVars, calendarVars, cleanVars,
                      cleanRotationVars, studyVars, latchVars, archiveVars, route4Vars,
                      program>>
    \/ /\ program = "rotation path" /\ RotationNext
       /\ UNCHANGED <<pathVars, periodVars, rotationPeriodVars, parityVars, managedVars,
                      trendVars, calendarVars, cleanVars, cleanRotationVars, studyVars,
                      latchVars, archiveVars, route4Vars, program>>
    \/ /\ program = "rotation period" /\ RotationPeriodNext
       /\ UNCHANGED <<pathVars, periodVars, rotationVars, parityVars, managedVars,
                      trendVars, calendarVars, cleanVars, cleanRotationVars, studyVars,
                      latchVars, archiveVars, route4Vars, program>>
    \/ /\ program = "parity" /\ ParityNext
       /\ UNCHANGED <<pathVars, periodVars, rotationVars, rotationPeriodVars,
                      managedVars, trendVars, calendarVars, cleanVars,
                      cleanRotationVars, studyVars, latchVars, archiveVars, route4Vars,
                      program>>
    \/ /\ program = "managed" /\ ManagedNext
       /\ UNCHANGED <<pathVars, periodVars, rotationVars, rotationPeriodVars,
                      parityVars, trendVars, calendarVars, cleanVars, cleanRotationVars,
                      studyVars, latchVars, archiveVars, route4Vars, program>>
    \/ /\ program = "trend" /\ TrendNext
       /\ UNCHANGED <<pathVars, periodVars, rotationVars, rotationPeriodVars,
                      parityVars, managedVars, calendarVars, cleanVars,
                      cleanRotationVars, studyVars, latchVars, archiveVars, route4Vars,
                      program>>
    \/ /\ program = "calendar" /\ CalendarNext
       /\ UNCHANGED <<pathVars, periodVars, rotationVars, rotationPeriodVars,
                      parityVars, managedVars, trendVars, cleanVars, cleanRotationVars,
                      studyVars, latchVars, archiveVars, route4Vars, program>>
    \/ /\ program = "clean reversion" /\ CleanNext
       /\ UNCHANGED <<pathVars, periodVars, rotationVars, rotationPeriodVars,
                      parityVars, managedVars, trendVars, calendarVars,
                      cleanRotationVars, studyVars, latchVars, archiveVars, route4Vars,
                      program>>
    \/ /\ program = "clean rotation" /\ CleanRotationNext
       /\ UNCHANGED <<pathVars, periodVars, rotationVars, rotationPeriodVars,
                      parityVars, managedVars, trendVars, calendarVars, cleanVars,
                      studyVars, latchVars, archiveVars, route4Vars, program>>
    \/ /\ program = "study" /\ StudyNext
       /\ UNCHANGED <<pathVars, periodVars, rotationVars, rotationPeriodVars,
                      parityVars, managedVars, trendVars, calendarVars, cleanVars,
                      cleanRotationVars, latchVars, archiveVars, route4Vars, program>>
    \/ /\ program = "latch" /\ LatchNext
       /\ UNCHANGED <<pathVars, periodVars, rotationVars, rotationPeriodVars,
                      parityVars, managedVars, trendVars, calendarVars, cleanVars,
                      cleanRotationVars, studyVars, archiveVars, route4Vars, program>>
    \/ /\ program = "archive" /\ ArchiveNext
       /\ UNCHANGED <<pathVars, periodVars, rotationVars, rotationPeriodVars,
                      parityVars, managedVars, trendVars, calendarVars, cleanVars,
                      cleanRotationVars, studyVars, latchVars, route4Vars, program>>
    \/ /\ program = "route 4" /\ Route4Next
       /\ UNCHANGED <<pathVars, periodVars, rotationVars, rotationPeriodVars,
                      parityVars, managedVars, trendVars, calendarVars, cleanVars,
                      cleanRotationVars, studyVars, latchVars, archiveVars, program>>

allVars == <<pathVars, periodVars, rotationVars, rotationPeriodVars, parityVars,
             managedVars, trendVars, calendarVars, cleanVars, cleanRotationVars,
             studyVars, latchVars, archiveVars, route4Vars, program>>

Spec == Init /\ [][Next]_allVars
=============================================================================
