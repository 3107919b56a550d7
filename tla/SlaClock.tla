------------------------------- MODULE SlaClock --------------------------------
(***************************************************************************)
(* The deadlines, verdicts and penalties of the maintenance agreement:     *)
(* utils/sla_utils.py and services/penalty_calculator.py.                  *)
(*                                                                         *)
(* A time is a number of minutes since the start of some Monday, in South  *)
(* African time, which has no daylight saving: the conversion of _to_sa is *)
(* a shift that the epoch absorbs.  Seconds are left out.                  *)
(***************************************************************************)
EXTENDS Integers, FiniteSets

\* No deadline, no stamp: times are natural numbers.
None == -1

Day      == 24 * 60
BizStart == 8 * 60
BizEnd   == 16 * 60 + 30

DayOf(t)      == t \div Day
TimeOfDay(t)  == t % Day
Working(day)  == day % 7 < 5

IsBusinessHours(t) == Working(DayOf(t)) /\ TimeOfDay(t) \in BizStart .. BizEnd

\* Slip: Saturday is taken for a working day.
NextWorkingDaySixDays(day) ==
    CHOOSE d \in day + 1 .. day + 3 : d % 7 < 6 /\ \A e \in day + 1 .. d - 1 : e % 7 = 6

NextWorkingDay(day) ==
    CHOOSE d \in day + 1 .. day + 3 : Working(d) /\ \A e \in day + 1 .. d - 1 : ~ Working(e)

\* 08:00 of a later day, even of a time before 08:00 on a working day.
NextBusinessDayStart(t) == NextWorkingDay(DayOf(t)) * Day + BizStart

\* The day on which the count of add_business_days begins.
CountFrom(t) ==
    IF ~ IsBusinessHours(t) \/ TimeOfDay(t) >= BizEnd THEN DayOf(NextBusinessDayStart(t))
                                                      ELSE DayOf(t)

AddBusinessDays(t, days) ==
    LET after[n \in 0 .. days] == IF n = 0 THEN CountFrom(t) ELSE NextWorkingDay(after[n - 1])
    IN  after[days] * Day + BizEnd
-----------------------------------------------------------------------------
(* Milestones and their deadlines.                                         *)

Severities == {"critical", "major", "minor", "query"}

SlaMilestones == {"respond", "onsite", "temp_restore"}

\* SLA_MILESTONES, where a severity is answered around the clock.
MinutesAllowed ==
    [critical |-> [respond |-> 1,  onsite |-> 120, temp_restore |-> 240],
     major    |-> [respond |-> 30, onsite |-> 240, temp_restore |-> 480]]

\* calculate_sla_deadlines, a milestone at a time.
Deadline(severity, milestone, raised) ==
    CASE severity \in {"critical", "major"} -> raised + MinutesAllowed[severity][milestone]
      [] severity = "minor" /\ milestone = "onsite"       -> NextBusinessDayStart(raised)
      [] severity = "minor" /\ milestone = "temp_restore" -> AddBusinessDays(raised, 2)
      [] severity = "query" /\ milestone = "temp_restore" -> AddBusinessDays(raised, 20)
      [] OTHER -> None

AtRisk == 30

\* get_milestone_status.
MilestoneStatus(deadline, actual, now) ==
    CASE deadline = None                             -> "not_applicable"
      [] actual # None /\ actual <= deadline         -> "met"
      [] actual # None /\ actual > deadline          -> "breached"
      [] actual = None /\ deadline <= now            -> "breached"
      [] actual = None /\ deadline - now \in 1 .. AtRisk -> "at_risk"
      [] OTHER -> "pending"
-----------------------------------------------------------------------------
(* Penalties, in per cent of the quarterly fee.                            *)

PerFaultCap == 10

\* The table of Annexure H, of a delay in minutes.
PenaltyPercentage(delay) ==
    CASE delay < 4 * 60  -> 0
      [] delay >= 4 * 60  /\ delay < 8 * 60  -> 10
      [] delay >= 8 * 60  /\ delay < 16 * 60 -> 15
      [] delay >= 16 * 60 /\ delay < 24 * 60 -> 20
      [] OTHER -> 30

Capped(percent, cap) == IF percent < cap THEN percent ELSE cap

\* What a milestone costs: an unstamped one of a fault that is not resolved is
\* judged by the time it is now, one of a resolved fault not at all.
MilestonePenalty(deadline, actual, resolved, now) ==
    LET reached == IF actual # None THEN actual ELSE IF resolved THEN None ELSE now IN
    IF deadline = None \/ reached = None THEN 0
    ELSE Capped(PenaltyPercentage(reached - deadline), PerFaultCap)

\* Only the arrival on site and the temporary restoration cost anything.
FaultPenalty(deadlines, stamps, resolved, now) ==
    Capped(MilestonePenalty(deadlines["onsite"], stamps["onsite"], resolved, now)
             + MilestonePenalty(deadlines["temp_restore"], stamps["temp_restore"], resolved, now),
           PerFaultCap)
-----------------------------------------------------------------------------
(* The calendar, defined apart from the code: the days of a deadline are       *)
(* counted, not stepped through.                                               *)

BusinessDaysIn(from, to) == Cardinality({d \in from + 1 .. to : Working(d)})

\* The first working day that is not over at t.
FirstWorkingDay(t) ==
    CHOOSE d \in DayOf(t) .. DayOf(t) + 3 :
       /\ Working(d) /\ t < d * Day + BizEnd
       /\ \A e \in DayOf(t) .. d - 1 : ~ (Working(e) /\ t < e * Day + BizEnd)

EndOfBusinessDays(t, days) ==
    LET from == FirstWorkingDay(t)
        last == CHOOSE d \in from .. from + 2 * days + 2 :
                   /\ BusinessDaysIn(from, d) = days
                   /\ \A e \in from .. d - 1 : BusinessDaysIn(from, e) < days
    IN  last * Day + BizEnd

BeforeHours(t) == Working(DayOf(t)) /\ TimeOfDay(t) < BizStart

\* The deadline of a fault is the end of the business day the agreement names, but for
\* one raised on a working day before 08:00, which has a business day more, as if it
\* had been raised after hours (add_business_days, next_business_day_start).
DeadlineByCalendar(t) ==
    \A severity \in {"minor", "query"} :
       LET days == IF severity = "minor" THEN 2 ELSE 20 IN
       Deadline(severity, "temp_restore", t)
          = EndOfBusinessDays(t, IF BeforeHours(t) THEN days + 1 ELSE days)
=============================================================================
