---------------------------------- MODULE Sla ----------------------------------
(***************************************************************************)
(* The SLA checker: services/sla_checker.py, run by core/scheduler.py on   *)
(* one of the instances and by POST /incidents/check-sla on any of them,   *)
(* over the columns of models/incident.py that it reads.                   *)
(*                                                                         *)
(* A scan fixes its time, reads the active incidents, and judges one after *)
(* the other; it commits the notices of a milestone before it goes on, and *)
(* sends an e-mail and a webhook after that.  Meanwhile the clock moves    *)
(* and requests stamp, resolve, delete and reclassify the incidents.       *)
(*                                                                         *)
(* Left out: who is told, which is read once at the start, the e-mail and  *)
(* the webhook, which nobody waits for, and the totals of a quarter, which *)
(* add up what the faults cost.  There is one clock: the hosts of the      *)
(* instances are taken to agree on the time.  How requests on one incident *)
(* overlap is the subject of module Incidents: here a milestone alone is   *)
(* stamped in two steps, with a time that is older than its commit.        *)
(***************************************************************************)
EXTENDS Scheduler, SlaClock

CONSTANTS Incidents,
          Callers,       \* requests for a scan, which take no lock
          Requests,      \* requests that stamp a milestone
          Milestones, Kinds,  \* the milestones and severities of the instance
          Instants,      \* the times the clock shows
          MaxScans,      \* a bound on the scans under way at once
          MaxFailures    \* a bound on the scans and requests that fail and the crashes

ASSUME SlaAssumption ==
    /\ Instants \subseteq Nat /\ Instants # {} /\ IsFiniteSet(Instants)
    /\ Milestones \subseteq SlaMilestones /\ Kinds \subseteq Severities
    /\ MaxScans \in Nat /\ MaxFailures \in Nat
    /\ Null \notin Incidents

Runners == Instances \cup Callers

Times == Instants \cup {None}

\* `raised' is start_time, or created_at without one.
IncidentRow == [live : BOOLEAN, resolved : BOOLEAN, severity : Kinds, raised : Instants,
                stamps : [Milestones -> Times]]

\* Of a milestone that is to be alerted: whether it was missed, the deadline it was
\* judged by, and whether a request was about to stamp it when the scan read the row.
Notice == [milestone : Milestones, missed : BOOLEAN, deadline : Int, marking : BOOLEAN]

\* A scan: its time, the incidents of its list still to come and the rows it read of
\* them, whether it has committed since, which makes the session read a row anew, and
\* what is to be alerted of the incident whose turn it is.
Scan == [pc : {"idle", "scanning"}, now : Times, todo : SUBSET Incidents,
         rows : [Incidents -> IncidentRow \cup {Null}], expired : BOOLEAN,
         marking : SUBSET (Incidents \X Milestones),
         inc : Incidents \cup {Null}, pending : SUBSET Notice]

NoRows == [i \in Incidents |-> Null]

NoScan == [pc |-> "idle", now |-> None, todo |-> {}, rows |-> NoRows, expired |-> FALSE,
           marking |-> {}, inc |-> Null, pending |-> {}]

VARIABLES
    clock,     \* the time
    incident,  \* the table incidents
    mark,      \* the requests that have taken a time for a stamp and not committed it
    scan,      \* the scans under way
    alert,     \* of each milestone, the deadline whose breach was last alerted while
               \* no request was stamping it
    failures   \* how many scans and requests have failed and instances crashed
slaVars == <<clock, incident, mark, scan, alert, failures>>
vars == <<lock, due, clock, incident, mark, scan, alert, failures>>

NoMark == [inc |-> Null, milestone |-> Null, at |-> None]

SlaTypeOK ==
    /\ SchedulerTypeOK
    /\ clock \in Instants
    /\ incident \in [Incidents -> IncidentRow]
    /\ mark \in [Requests -> [inc : Incidents \cup {Null}, milestone : Milestones \cup {Null}, at : Times]]
    /\ scan \in [Runners -> Scan]
    /\ alert \in [Incidents -> [Milestones -> Int]]
    /\ failures \in 0 .. MaxFailures

First == CHOOSE t \in Instants : \A u \in Instants : t <= u

Init ==
    /\ SchedulerInit
    /\ clock = First
    /\ incident \in [Incidents -> {[live |-> TRUE, resolved |-> FALSE, severity |-> k,
                                    raised |-> First, stamps |-> [m \in Milestones |-> None]] : k \in Kinds}]
    /\ mark = [r \in Requests |-> NoMark]
    /\ scan = [r \in Runners |-> NoScan]
    /\ alert = [i \in Incidents |-> [m \in Milestones |-> None]]
    /\ failures = 0

Deadlines == [k \in Kinds |-> [m \in Milestones |-> [t \in Instants |-> Deadline(k, m, t)]]]

DeadlineOf(row, m) == Deadlines[row.severity][m][row.raised]

Active(row) == row.live /\ ~ row.resolved

\* The clock shows its next time.
Advance ==
    /\ \E t \in Instants : /\ clock < t /\ \A u \in Instants : clock < u => t <= u
                           /\ clock' = t
    /\ UNCHANGED <<lock, due, incident, mark, scan, alert, failures>>
-----------------------------------------------------------------------------
(* Requests on the incidents.                                              *)

\* resolve_incident, start_incident, which opens a resolved one again, and
\* delete_incident.
Conclude(i) ==
    /\ incident[i].live
    /\ \/ incident' = [incident EXCEPT ![i].resolved = TRUE]
       \/ incident' = [incident EXCEPT ![i].resolved = FALSE]
       \/ incident' = [incident EXCEPT ![i].live = FALSE]
    /\ UNCHANGED <<lock, due, clock, mark, scan, alert, failures>>

\* A PATCH of the severity moves the deadlines.
Reclassify(i) ==
    /\ incident[i].live
    /\ \E k \in Kinds : incident' = [incident EXCEPT ![i].severity = k]
    /\ UNCHANGED <<lock, due, clock, mark, scan, alert, failures>>

\* mark_*: the handler loads the incident and, if the milestone is not stamped, takes
\* the time it will stamp it with.
TakeTime(r, i, m) ==
    /\ mark[r] = NoMark /\ incident[i].live /\ incident[i].stamps[m] = None
    /\ mark' = [mark EXCEPT ![r] = [inc |-> i, milestone |-> m, at |-> clock]]
    /\ UNCHANGED <<lock, due, clock, incident, scan, alert, failures>>

\* Slip: the stamp is the time it took to reach the milestone.
StampElapsed(row, m, at) == [row EXCEPT !.stamps[m] = at - row.raised]

Stamp(row, m, at) == [row EXCEPT !.stamps[m] = at]

CommitStamp(r) ==
    /\ mark[r] # NoMark
    /\ LET w == mark[r] IN incident' = [incident EXCEPT ![w.inc] = Stamp(@, w.milestone, w.at)]
    /\ mark' = [mark EXCEPT ![r] = NoMark]
    /\ UNCHANGED <<lock, due, clock, scan, alert, failures>>

FailStamp(r) ==
    /\ mark[r] # NoMark /\ failures < MaxFailures
    /\ mark' = [mark EXCEPT ![r] = NoMark] /\ failures' = failures + 1
    /\ UNCHANGED <<lock, due, clock, incident, scan, alert>>

Marking == {<<mark[r].inc, mark[r].milestone>> : r \in {q \in Requests : mark[q] # NoMark}}
-----------------------------------------------------------------------------
(* The scan, check_sla_breaches.                                           *)

\* The time and the one query of the active incidents.
Started ==
    LET active == {i \in Incidents : Active(incident[i])} IN
    [NoScan EXCEPT !.pc = "scanning", !.now = clock, !.todo = active, !.marking = Marking,
                   !.rows = [i \in Incidents |-> IF i \in active THEN incident[i] ELSE Null]]

MoreScans == Cardinality({r \in Runners : scan[r].pc # "idle"}) < MaxScans

\* The interval is over: _sla_job fires on instance i and wins the lock.
Fire(i) ==
    /\ scan[i].pc = "idle" /\ MoreScans /\ TryLock(i)
    /\ scan' = [scan EXCEPT ![i] = Started]
    /\ UNCHANGED <<clock, incident, mark, alert, failures>>

\* POST /incidents/check-sla, whether or not the job is running.
Call(c) ==
    /\ scan[c].pc = "idle" /\ MoreScans
    /\ scan' = [scan EXCEPT ![c] = Started]
    /\ UNCHANGED <<lock, due, clock, incident, mark, alert, failures>>

Interval == NextTick /\ UNCHANGED slaVars

Skip(i) == SkipTick(i) /\ UNCHANGED slaVars

\* Slip: a milestone that was reached in time is judged all the same.
VerdictByClock(deadline, actual, now) ==
    CASE deadline # None /\ now >= deadline -> "breach"
      [] deadline # None /\ now < deadline /\ deadline - now <= AtRisk -> "warning"
      [] OTHER -> "none"

\* A milestone is judged while it is not stamped: one that was stamped late between
\* two scans is not alerted any more.
Verdict(deadline, actual, now) ==
    CASE deadline # None /\ actual = None /\ now >= deadline -> "breach"
      [] deadline # None /\ actual = None /\ now < deadline /\ deadline - now <= AtRisk -> "warning"
      [] OTHER -> "none"

Notices(i, row, now, marking) ==
    {[milestone |-> m, missed |-> Verdict(DeadlineOf(row, m), row.stamps[m], now) = "breach",
      deadline |-> DeadlineOf(row, m), marking |-> <<i, m>> \in marking] :
        m \in {k \in Milestones : Verdict(DeadlineOf(row, k), row.stamps[k], now) # "none"}}

\* The turn of incident i: its row is the one of the list, or is read anew if the scan
\* has committed since, also if it was resolved or deleted meanwhile.
Turn(r, i) ==
    /\ scan[r].pc = "scanning" /\ scan[r].pending = {} /\ i \in scan[r].todo
    /\ LET s == scan[r]
           judged == IF s.expired THEN Notices(i, incident[i], s.now, Marking)
                                  ELSE Notices(i, s.rows[i], s.now, s.marking) IN
       scan' = [scan EXCEPT ![r] = [s EXCEPT !.todo = @ \ {i}, !.inc = i, !.rows[i] = Null,
                                             !.pending = judged]]
    /\ UNCHANGED <<lock, due, clock, incident, mark, alert, failures>>

\* The milestones are judged in this order.
Comes == [respond |-> 1, onsite |-> 2, temp_restore |-> 3]

\* The notices of a milestone, a warning or a breach, are committed, and the rows of
\* the session expire.
Alert(r) ==
    LET s == scan[r] IN
    /\ \E n \in s.pending :
          /\ \A k \in s.pending : Comes[n.milestone] <= Comes[k.milestone]
          /\ alert' = IF n.missed /\ ~ n.marking
                      THEN [alert EXCEPT ![s.inc][n.milestone] = n.deadline] ELSE alert
          /\ scan' = [scan EXCEPT ![r] = [s EXCEPT !.pending = @ \ {n}, !.expired = TRUE,
                                                   !.rows = NoRows, !.marking = {}]]
    /\ UNCHANGED <<lock, due, clock, incident, mark, failures>>

\* The scan returns, or ends in an exception, which rolls back nothing it committed;
\* either way _run_locked gives the lock back.
End(r, failed) ==
    /\ scan[r].pc # "idle"
    /\ \/ ~ failed /\ scan[r].pc = "scanning" /\ scan[r].pending = {} /\ scan[r].todo = {}
       \/ failed /\ failures < MaxFailures
    /\ failures' = failures + (IF failed THEN 1 ELSE 0)
    /\ scan' = [scan EXCEPT ![r] = NoScan]
    /\ IF r \in Instances THEN Unlock(r, failed) ELSE UNCHANGED <<lock, due>>
    /\ UNCHANGED <<clock, incident, mark, alert>>

Crash(i) ==
    /\ failures < MaxFailures /\ failures' = failures + 1
    /\ InstanceCrash(i)
    /\ scan' = [scan EXCEPT ![i] = NoScan]
    /\ UNCHANGED <<clock, incident, mark, alert>>

Proceed(r) == (\E i \in Incidents : Turn(r, i)) \/ Alert(r) \/ End(r, FALSE)

Next ==
    \/ Advance
    \/ \E i \in Incidents : Conclude(i) \/ Reclassify(i)
    \/ \E r \in Requests : \/ \E i \in Incidents, m \in Milestones : TakeTime(r, i, m)
                           \/ CommitStamp(r)
                           \/ FailStamp(r)
    \/ Interval
    \/ \E i \in Instances : Fire(i) \/ Skip(i) \/ Crash(i)
    \/ \E c \in Callers : Call(c)
    \/ \E r \in Runners : Proceed(r) \/ End(r, TRUE)

Spec == Init /\ [][Next]_vars

\* The interval comes round, a job or a request that runs goes on, and an instance that fires again
\* and again does not come too late or find the lock held every time.
Fairness == /\ WF_vars(Interval)
            /\ \A r \in Runners : WF_vars(Proceed(r))
            /\ \A r \in Requests : WF_vars(CommitStamp(r))
            /\ \A i \in Instances : SF_vars(Fire(i))

FairSpec == Spec /\ Fairness
-----------------------------------------------------------------------------
(* What the service answers of an incident.                                *)

StatusOf(row, m) == MilestoneStatus(DeadlineOf(row, m), row.stamps[m], clock)

\* Slip: at risk is looked for first.
OverallAtRiskFirst(row) ==
    LET statuses == {StatusOf(row, m) : m \in Milestones} IN
    CASE row.resolved -> "resolved"
      [] ~ row.resolved /\ "at_risk" \in statuses -> "at_risk"
      [] ~ row.resolved /\ "at_risk" \notin statuses /\ "breached" \in statuses -> "breached"
      [] OTHER -> "ok"

\* get_sla_status_for_incident.
Overall(row) ==
    LET statuses == {StatusOf(row, m) : m \in Milestones} IN
    CASE row.resolved -> "resolved"
      [] ~ row.resolved /\ "breached" \in statuses -> "breached"
      [] ~ row.resolved /\ "breached" \notin statuses /\ "at_risk" \in statuses -> "at_risk"
      [] OTHER -> "ok"

\* get_incident_penalty_exposure.
Penalty(row) ==
    FaultPenalty([m \in Milestones |-> DeadlineOf(row, m)], row.stamps, row.resolved, clock)

\* The faults get_quarter_penalty_summary is given.
QuarterFaults == {i \in Incidents : incident[i].live}
-----------------------------------------------------------------------------
(* Properties.                                                             *)

\* A breach is alerted of a milestone that was missed: no stamp turns up later that is
\* before the deadline the scan judged by, but for one whose request had taken its time
\* and not committed it as the scan read the incident (lines 106-146 and 213).  At the
\* very deadline the scan says breached (213), while a stamp of that time counts as met
\* (sla_utils.py:149).
AlertedWasMissed ==
    \A i \in Incidents, m \in Milestones :
       LET actual == incident[i].stamps[m] IN
       alert[i][m] # None => actual = None \/ actual >= alert[i][m]

Overdue(i, m) ==
    /\ Active(incident[i]) /\ incident[i].stamps[m] = None
    /\ DeadlineOf(incident[i], m) # None /\ clock >= DeadlineOf(incident[i], m)

\* A milestone past its deadline on an active incident is alerted, whatever scans fail
\* and instances crash, unless it is stamped, the incident is closed or the deadline
\* moves first: the lock is always given back and the next scan starts afresh.
BreachAlerted ==
    \A i \in Incidents, m \in Milestones :
       Overdue(i, m) ~> (~ Overdue(i, m) \/ alert[i][m] # None)

\* A fault that costs a penalty is not shown as within its SLA: the exposure and the
\* status are computed apart, from the same stamps (penalty_calculator.py:61,
\* sla_checker.py:42).
PenaltyMeansBreached ==
    \A i \in QuarterFaults :
       Penalty(incident[i]) > 0 => Overall(incident[i]) \in {"breached", "resolved"}
=============================================================================
