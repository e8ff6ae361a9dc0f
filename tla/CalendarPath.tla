---------------------------- MODULE CalendarPath ----------------------------
(***************************************************************************)
(* One development path of the calendar-seasonality study                  *)
(* (calendar_evaluator.execute_trial).  Every hour has a target that an    *)
(* earlier Monday's schedule fixed; the path fills it at the exact hour or *)
(* at the last minute of a short delay, liquidates and waits after a       *)
(* missing vector, and ends in cash an hour before the boundary.  Time     *)
(* counts minutes, HourMinutes of them to the hour (60).                   *)
(***************************************************************************)
EXTENDS Integers, Sequences, FiniteSets

CONSTANTS HourMinutes,   \* minutes of an hour
          DayHours,      \* hours of a day (24)
          WeekDays,      \* days from one refresh to the next (7)
          PathDays,      \* days of the path
          DelayMinutes,  \* the fill of the delay stress (5)
          ValidMinutes,  \* consecutive vectors that end a quarantine (60)
          TargetSets     \* sets of assets an hour may hold, {} is cash

ASSUME CalendarPathAssumption ==
    /\ HourMinutes \in Nat \ {0} /\ DayHours \in Nat \ {0} /\ PathDays \in Nat \ {0}
    /\ DelayMinutes \in 1 .. HourMinutes - 1 /\ ValidMinutes \in Nat \ {0}
    /\ WeekDays \in Nat \ {0} /\ {} \in TargetSets

VARIABLES joint,        \* minutes with a synchronized vector
          minuteDelay,  \* delay_minutes: 0 or DelayMinutes
          hour,         \* next hour of the loop
          weights,      \* assets held
          quarantined,  \* waiting for recovery
          resumeAt,     \* resume_at, or NoHour
          snapshots,    \* fills: [time, weights]
          counters,     \* entries and completed episodes
          result        \* "running", "completed" or the exception

calendarVars == <<joint, minuteDelay, hour, weights, quarantined, resumeAt, snapshots,
                  counters, result>>

CalendarEnd == PathDays * DayHours * HourMinutes
DayLength == DayHours * HourMinutes
WeekLength == WeekDays * DayLength
PathHours == {t \in 0 .. CalendarEnd - 1 : t % HourMinutes = 0}
NoHour == -1
Unpriced == -1

(* monday_refresh and schedule_for_interval: the hour of a refresh itself   *)
(* still follows the schedule of the week before.                           *)
MondayRefresh(t) == (t \div WeekLength) * WeekLength
ScheduleFor(t) ==
    IF t = MondayRefresh(t) THEN MondayRefresh(t) - WeekLength ELSE MondayRefresh(t)
DeadlineFor(t) == t - 1

(* estimator_intervals that fit_schedules lets into a refresh: both hourly  *)
(* endpoints observed, and known before the refresh.                        *)
FittedIntervals(refresh) ==
    {t \in PathHours : /\ t \in joint /\ t + HourMinutes \in joint
                       /\ t < refresh /\ t + HourMinutes + 1 < refresh}

(* _first_joint_after *)
FirstJointAfter(t) ==
    LET later == {u \in joint : u > t}
    IN  IF later = {} THEN Unpriced ELSE CHOOSE u \in later : \A v \in later : u <= v

(* _resume_hour: the hour after the first run of valid minutes. *)
ResumeHour(anchor) ==
    LET ends == {u \in joint : /\ u >= anchor + ValidMinutes
                               /\ \A v \in u - ValidMinutes + 1 .. u : v \in joint}
        sixtieth == CHOOSE u \in ends : \A v \in ends : u <= v
        boundary == (sixtieth \div HourMinutes + 1) * HourMinutes
    IN  IF ends = {} \/ boundary >= CalendarEnd THEN NoHour ELSE boundary

(* _execution_vector: the first missing minute it meets, or the fill.       *)
Missing(h) ==
    IF minuteDelay = 0
    THEN IF h \notin joint THEN {h}
         ELSE IF h > 0 /\ h - 1 \notin joint THEN {h - 1} ELSE {}
    ELSE {u \in h + 1 .. h + DelayMinutes : u \notin joint}
TriggerOf(h) == CHOOSE u \in Missing(h) : \A v \in Missing(h) : u <= v
FillOf(h) == h + minuteDelay

(* No cash target for the last hour. *)
TargetsToTheEnd(h) == TargetSets

(* _target_for: cash in the last hour, else what the schedule says.         *)
TargetsFor(h) == IF h >= CalendarEnd - HourMinutes THEN {{}} ELSE TargetSets

(* Counters.completed_fill *)
CompletedFill(old, new) ==
    [entries |-> counters.entries + (IF old = {} /\ new # {} THEN 1 ELSE 0),
     episodes |-> counters.episodes + (IF old # {} /\ new = {} THEN 1 ELSE 0)]

CalendarRunning == result = "running" /\ hour < CalendarEnd
Waiting == quarantined /\ (resumeAt = NoHour \/ hour < resumeAt)

WaitQuarantine ==
    /\ CalendarRunning /\ Waiting
    /\ hour' = hour + HourMinutes
    /\ UNCHANGED <<joint, minuteDelay, weights, quarantined, resumeAt, snapshots,
                   counters, result>>

(* A missing vector: exposure is liquidated at the next vector, then the    *)
(* recovery counts from there.                                              *)
EnterQuarantine ==
    LET trigger == TriggerOf(hour)
        sale == FirstJointAfter(trigger)
    IN  /\ CalendarRunning /\ ~Waiting /\ Missing(hour) # {}
        /\ IF weights # {} /\ sale = Unpriced
           THEN /\ result' = "liquidation_unavailable"
                /\ UNCHANGED <<hour, weights, quarantined, resumeAt, snapshots, counters>>
           ELSE /\ quarantined' = TRUE
                /\ resumeAt' = ResumeHour(IF weights = {} THEN trigger ELSE sale)
                /\ snapshots' = IF weights = {} THEN snapshots
                                ELSE Append(snapshots, [time |-> sale, weights |-> {}])
                /\ counters' = CompletedFill(weights, {})
                /\ weights' = {} /\ hour' = hour + HourMinutes
                /\ UNCHANGED result
        /\ UNCHANGED <<joint, minuteDelay>>

FillHour ==
    /\ CalendarRunning /\ ~Waiting /\ Missing(hour) = {}
    /\ \E target \in TargetsFor(hour) :
         /\ weights' = target
         /\ counters' = CompletedFill(weights, target)
         /\ snapshots' = Append(snapshots, [time |-> FillOf(hour), weights |-> target])
    /\ quarantined' = FALSE /\ resumeAt' = NoHour /\ hour' = hour + HourMinutes
    /\ UNCHANGED <<joint, minuteDelay, result>>

(* _daily_returns marks exposure at every midnight. *)
HeldAt(t) ==
    LET done == {i \in 1 .. Len(snapshots) : snapshots[i].time <= t}
    IN  IF done = {} THEN {}
        ELSE snapshots[CHOOSE i \in done : \A j \in done : j <= i].weights

CloseCalendar ==
    /\ result = "running" /\ hour >= CalendarEnd
    /\ result' = IF weights # {} THEN "terminal_exposure"
                 ELSE IF \E d \in 1 .. PathDays : HeldAt(d * DayLength) # {} /\
                                                  d * DayLength \notin joint
                 THEN "unpriced_boundary" ELSE "completed"
    /\ UNCHANGED <<joint, minuteDelay, hour, weights, quarantined, resumeAt, snapshots,
                   counters>>

(* The prefix before the boundary lacks its last minute, known only then.   *)
CalendarInit(lossSets) ==
    /\ \E lost \in lossSets : joint = (0 .. CalendarEnd - 2) \ lost
    /\ minuteDelay \in {0, DelayMinutes}
    /\ hour = 0 /\ weights = {} /\ quarantined = FALSE /\ resumeAt = NoHour
    /\ snapshots = <<>> /\ counters = [entries |-> 0, episodes |-> 0] /\ result = "running"

CalendarNext == WaitQuarantine \/ EnterQuarantine \/ FillHour \/ CloseCalendar

CalendarSpec == CalendarInit(SUBSET (0 .. CalendarEnd - 2)) /\ [][CalendarNext]_calendarVars

-----------------------------------------------------------------------------
(* A position lives from one hourly fill to the next: when it lasts longer, *)
(* no vector existed in between.  It is never closed by the end of the loop *)
(* itself, every entry has its exit, and entries and exits alternate in     *)
(* time whatever triggers, sales and recoveries happened between them.  The *)
(* schedule an hour follows was fixed before the hour's deadline, from      *)
(* intervals whose last price was available before the refresh.             *)
CalendarObserved ==
    /\ \A i \in 1 .. Len(snapshots) - 1 :
         /\ snapshots[i].time < snapshots[i + 1].time
         /\ snapshots[i].weights # {} =>
              snapshots[i].time + HourMinutes .. snapshots[i + 1].time - 1
                 \intersect joint = {}
    /\ result # "terminal_exposure"
    /\ result = "completed" => counters.entries = counters.episodes
    /\ hour = 0 => \A h \in PathHours :
         /\ ScheduleFor(h) < DeadlineFor(h)
         /\ \A t \in FittedIntervals(ScheduleFor(h)) : t + HourMinutes + 1 < DeadlineFor(h)
=============================================================================
