------------------------------ MODULE Schedules ------------------------------
(***************************************************************************)
(* Weekly maintenance schedules: services/maintenance_schedule.py, its     *)
(* endpoints, and services/weekly_checker.py run by core/scheduler.py or   *)
(* by POST /maintenance-schedules/check-weekly.                            *)
(*                                                                         *)
(* One site and one schedule type stand for all: no handler relates two    *)
(* sites, and two types of a site only share the technician's alert.  The  *)
(* due date, the names and the technician who was covered are left out, as *)
(* they are only displayed, and so are dates after the current week and a  *)
(* PATCH that moves a schedule to another type.  A patrol of a fibre route *)
(* (services/route_patrol.py) counts where the type is routine_drive.      *)
(*                                                                         *)
(* Weeks are counted back from the current one, 0, so time has no bound:   *)
(* at the end of a week every stored week moves back, down to Earliest,    *)
(* which stands for every earlier week.                                    *)
(***************************************************************************)
EXTENDS Integers, UnitOfWork, Scheduler

CONSTANTS Technicians, ScheduleIds, CoverageIds, Requests,
          Operations       \* the handlers the instance's requests call

AllOperations == {"list", "set_sites", "check_weekly", "create_coverage", "cancel_coverage",
                  "field_work", "patrol", "create_schedule", "update_schedule", "mark_done",
                  "delete_schedule", "update_site"}

ASSUME SchedulesAssumption ==
    /\ Operations \subseteq AllOperations
    /\ Instances \cap Requests = {}
    /\ Null \notin Technicians \cup ScheduleIds \cup CoverageIds

Earliest  == -2
Weeks     == Earliest..0
Wednesday == 2
Friday    == 4
Weekdays  == {0, Wednesday, Friday}        \* 0 is any day on which the checker does nothing

ASSUME NullAssumption == Null \notin Weeks

Before(w) == IF w = Earliest THEN Earliest ELSE w - 1

ScheduleRow == [life : Life, owner : Technicians \cup {Null}, active : BOOLEAN,
                weekly : BOOLEAN, lastRun : Weeks \cup {Null}]
CoverageRow == [life : Life, schedule : ScheduleIds \cup {Null}, week : Weeks,
                assigned : Technicians \cup {Null}, cancelled : BOOLEAN,
                completed : Weeks \cup {Null}]

NoScheduleRow == [life |-> "unused", owner |-> Null, active |-> FALSE, weekly |-> FALSE,
                  lastRun |-> Null]
NoCoverageRow == [life |-> "unused", schedule |-> Null, week |-> 0, assigned |-> Null,
                  cancelled |-> FALSE, completed |-> Null]

Workers == Requests \cup Instances

Work == [pc : {"idle", "ensure", "planned", "group", "alert", "insert", "cancel", "mark", "end"},
         op : AllOperations \cup {Null},
         techs : SUBSET Technicians,               \* whose assignments are looked at
         week : Weeks,                             \* the week it was begun in, or works for
         toggled : SUBSET ScheduleIds, active : BOOLEAN,   \* is_active to be set
         weekly : SUBSET ScheduleIds,              \* frequency to be set
         missing : SUBSET Technicians,             \* whose schedule is to be inserted
         tech : Technicians \cup {Null},
         schedule : ScheduleIds \cup {Null}, coverage : CoverageIds \cup {Null},
         group : SUBSET (Technicians \X ScheduleIds)]      \* the alerts still to be decided

NoWork == [pc |-> "idle", op |-> Null, techs |-> {}, week |-> 0, toggled |-> {},
           active |-> FALSE, weekly |-> {}, missing |-> {}, tech |-> Null,
           schedule |-> Null, coverage |-> Null, group |-> {}]

VARIABLES
    schedule,   \* the table maintenance_schedules
    coverage,   \* the table maintenance_schedule_coverages
    assigned,   \* the technicians of the site (technician_sites)
    wanted,     \* does the site's type call for the schedule type?
    weekday,    \* today
    told,       \* alerts each technician got from today's scheduled checks, capped at 2
    work        \* what each request and each scheduler instance is doing

vars == <<schedule, coverage, assigned, wanted, weekday, told, work, lock, due>>

TypeOK ==
    /\ SchedulerTypeOK
    /\ schedule \in [ScheduleIds -> ScheduleRow]
    /\ coverage \in [CoverageIds -> CoverageRow]
    /\ assigned \subseteq Technicians
    /\ wanted \in BOOLEAN
    /\ weekday \in Weekdays
    /\ told \in [Technicians -> 0..2]
    /\ work \in [Workers -> Work]

Init ==
    /\ SchedulerInit
    /\ schedule = [s \in ScheduleIds |-> NoScheduleRow]
    /\ coverage = [c \in CoverageIds |-> NoCoverageRow]
    /\ assigned = {}
    /\ wanted = TRUE
    /\ weekday = 0
    /\ told = [k \in Technicians |-> 0]
    /\ work = [r \in Workers |-> NoWork]

tables    == <<schedule, coverage, assigned, wanted>>
scheduler == <<lock, due>>
clock     == <<weekday, told>>
-----------------------------------------------------------------------------
(* Reading the tables. *)

\* Slip: looks at the current week whatever week it is asked about.
CoveragesThisWeek(s, w) ==
    {c \in CoverageIds : /\ coverage[c].life = "live" /\ ~coverage[c].cancelled
                         /\ coverage[c].schedule = s /\ coverage[c].week = 0}

\* _active_coverage_for_schedule
ActiveCoverages(s, w) ==
    {c \in CoverageIds : /\ coverage[c].life = "live" /\ ~coverage[c].cancelled
                         /\ coverage[c].schedule = s /\ coverage[c].week = w}

\* _effective_technician_id
Effective(s, w) ==
    IF ActiveCoverages(s, w) = {} THEN {schedule[s].owner}
    ELSE {coverage[c].assigned : c \in ActiveCoverages(s, w)}

LiveOf(k) == {s \in ScheduleIds : schedule[s].life = "live" /\ schedule[s].owner = k}
-----------------------------------------------------------------------------
(* ensure_weekly_due_diligence_schedules: reads, then one commit. *)

\* What follows it in the handler.
AfterEnsure(op) == IF op = "check_weekly" THEN "group" ELSE "end"

Ensuring(op, ks) == [NoWork EXCEPT !.pc = "ensure", !.op = op, !.techs = ks]

Ensured(q) == [NoWork EXCEPT !.pc = AfterEnsure(q.op), !.op = q.op, !.week = q.week]

\* Without a difference there is no commit.
Planned(q, toggled, weekly, missing) ==
    IF toggled = {} /\ weekly = {} /\ missing = {} THEN Ensured(q)
    ELSE [q EXCEPT !.pc = "planned", !.toggled = toggled, !.active = wanted,
                   !.weekly = weekly, !.missing = missing]

EnsureLoad(r) ==
    LET ks      == work[r].techs \cap assigned
        toggled == {s \in ScheduleIds : \E k \in ks : s \in LiveOf(k) /\ schedule[s].active # wanted}
        missing == {k \in ks : wanted /\ LiveOf(k) = {}} IN
    /\ work[r].pc = "ensure"
    /\ \E first \in [{k \in ks : wanted /\ LiveOf(k) # {}} -> ScheduleIds] :
          LET weekly == {s \in ScheduleIds : ~schedule[s].weekly
                                             /\ \E k \in DOMAIN first : first[k] = s} IN
          /\ \A k \in DOMAIN first : first[k] \in LiveOf(k)
          /\ work' = [work EXCEPT ![r] = Planned(@, toggled, weekly, missing)]
    /\ UNCHANGED <<tables, scheduler, clock>>

NewSchedule(k) == [NoScheduleRow EXCEPT !.life = "live", !.owner = k, !.active = TRUE,
                                        !.weekly = TRUE]

EnsureCommit(r) ==
    LET w == work[r] IN
    /\ w.pc = "planned"
    /\ \E new \in [w.missing -> {s \in ScheduleIds : schedule[s].life = "unused"}] :
          /\ \A j, k \in w.missing : new[j] = new[k] => j = k
          /\ schedule' = [s \in ScheduleIds |->
                IF \E k \in w.missing : new[k] = s
                THEN NewSchedule(CHOOSE k \in w.missing : new[k] = s)
                ELSE [schedule[s] EXCEPT
                        !.active = IF s \in w.toggled THEN w.active ELSE @,
                        !.weekly = IF s \in w.weekly THEN TRUE ELSE @]]
    /\ work' = [work EXCEPT ![r] = Ensured(w)]
    /\ UNCHANGED <<coverage, assigned, wanted, scheduler, clock>>
-----------------------------------------------------------------------------
(* The endpoints.  A handler whose commit writes nothing that depends on what *)
(* it read is one step.                                                       *)

\* GET / and GET /due create what is missing before they answer.
ListSchedules(r) ==
    /\ work[r].pc = "idle" /\ "list" \in Operations
    /\ \E ks \in {Technicians} \cup {{k} : k \in Technicians} :
          work' = [work EXCEPT ![r] = Ensuring("list", ks)]
    /\ UNCHANGED <<tables, scheduler, clock>>

\* PUT /technicians/{id}/sites commits the assignments before it ensures the schedules.
SetSites(r) ==
    /\ work[r].pc = "idle" /\ "set_sites" \in Operations
    /\ \E k \in Technicians :
          /\ assigned' \in {assigned \cup {k}, assigned \ {k}}
          /\ work' = [work EXCEPT ![r] = Ensuring("set_sites", {k})]
    /\ UNCHANGED <<schedule, coverage, wanted, scheduler, clock>>

\* PATCH /sites/{id} changes the site's type.
UpdateSite ==
    /\ "update_site" \in Operations
    /\ wanted' = ~wanted
    /\ UNCHANGED <<schedule, coverage, assigned, scheduler, clock, work>>

CreateSchedule(s) ==
    /\ "create_schedule" \in Operations
    /\ schedule[s].life = "unused"
    /\ \E k \in Technicians \cup {Null}, active, weekly \in BOOLEAN, run \in Weeks \cup {Null} :
          schedule' = [schedule EXCEPT ![s] =
             [life |-> "live", owner |-> k, active |-> active, weekly |-> weekly, lastRun |-> run]]
    /\ UNCHANGED <<coverage, assigned, wanted, scheduler, clock, work>>

\* exclude_none: a PATCH cannot clear the technician or the last run.
UpdateSchedule(s) ==
    /\ "update_schedule" \in Operations
    /\ schedule[s].life = "live"
    /\ \E k \in Technicians \cup {schedule[s].owner}, active, weekly \in BOOLEAN,
          run \in Weeks \cup {schedule[s].lastRun} :
          schedule' = [schedule EXCEPT ![s] =
             [@ EXCEPT !.owner = k, !.active = active, !.weekly = weekly, !.lastRun = run]]
    /\ UNCHANGED <<coverage, assigned, wanted, scheduler, clock, work>>

\* PATCH /{id}/mark-done, whoever is covering.
MarkDone(s) ==
    /\ "mark_done" \in Operations
    /\ schedule[s].life = "live"
    /\ schedule' = [schedule EXCEPT ![s].lastRun = 0]
    /\ UNCHANGED <<coverage, assigned, wanted, scheduler, clock, work>>

DeleteSchedule(s) ==
    /\ "delete_schedule" \in Operations
    /\ schedule[s].life = "live"
    /\ schedule' = [schedule EXCEPT ![s] = SoftDeleted(@)]
    /\ UNCHANGED <<coverage, assigned, wanted, scheduler, clock, work>>

Inserting(s, k) == [NoWork EXCEPT !.pc = "insert", !.op = "create_coverage",
                                  !.schedule = s, !.tech = k]
Ended == [NoWork EXCEPT !.pc = "end"]

\* create_coverage up to its insert ...
CreateCoverage(r) ==
    /\ work[r].pc = "idle" /\ "create_coverage" \in Operations
    /\ \E s \in ScheduleIds, k \in Technicians :
          /\ schedule[s].life = "live" /\ schedule[s].active /\ schedule[s].owner # k
          /\ ActiveCoverages(s, 0) = {}
          /\ work' = [work EXCEPT ![r] = Inserting(s, k)]
    /\ UNCHANGED <<tables, scheduler, clock>>

NewCoverage(q) == [NoCoverageRow EXCEPT !.life = "live", !.schedule = q.schedule,
                                        !.week = q.week, !.assigned = q.tech]

\* Slip: the first look is trusted and there is no index.
InsertCoverageUnchecked(r) ==
    LET w == work[r] IN
    /\ w.pc = "insert"
    /\ \E c \in CoverageIds :
          /\ coverage[c].life = "unused"
          /\ coverage' = [coverage EXCEPT ![c] = NewCoverage(w)]
    /\ work' = [work EXCEPT ![r] = Ended]
    /\ UNCHANGED <<schedule, assigned, wanted, scheduler, clock>>

\* Slip: the week is filed under its end.
InsertCoverageNextWeek(r) ==
    LET w == work[r] IN
    /\ w.pc = "insert"
    /\ ActiveCoverages(w.schedule, w.week) = {}
    /\ \E c \in CoverageIds :
          /\ coverage[c].life = "unused"
          /\ coverage' = [coverage EXCEPT ![c] =
                [NewCoverage(w) EXCEPT !.week = w.week + 1]]
    /\ work' = [work EXCEPT ![r] = Ended]
    /\ UNCHANGED <<schedule, assigned, wanted, scheduler, clock>>

\* ... and the insert, which the partial unique index of scripts/0041 may refuse.
InsertCoverage(r) ==
    LET w == work[r] IN
    /\ w.pc = "insert"
    /\ \/ /\ ActiveCoverages(w.schedule, w.week) # {}
          /\ UNCHANGED coverage
       \/ /\ ActiveCoverages(w.schedule, w.week) = {}
          /\ \E c \in CoverageIds :
                /\ coverage[c].life = "unused"
                /\ coverage' = [coverage EXCEPT ![c] = NewCoverage(w)]
    /\ work' = [work EXCEPT ![r] = Ended]
    /\ UNCHANGED <<schedule, assigned, wanted, scheduler, clock>>

Cancelling(c) == [NoWork EXCEPT !.pc = "cancel", !.op = "cancel_coverage", !.coverage = c]

\* cancel_coverage up to its commit, and the commit.
CancelCoverage(r) ==
    /\ work[r].pc = "idle" /\ "cancel_coverage" \in Operations
    /\ \E c \in CoverageIds :
          /\ coverage[c].life = "live" /\ ~coverage[c].cancelled /\ coverage[c].completed = Null
          /\ work' = [work EXCEPT ![r] = Cancelling(c)]
    /\ UNCHANGED <<tables, scheduler, clock>>

CancelCommit(r) ==
    /\ work[r].pc = "cancel"
    /\ coverage' = [coverage EXCEPT ![work[r].coverage].cancelled = TRUE]
    /\ work' = [work EXCEPT ![r] = Ended]
    /\ UNCHANGED <<schedule, assigned, wanted, scheduler, clock>>

Marking(s, w, c) == [NoWork EXCEPT !.pc = "mark", !.op = "field_work", !.schedule = s,
                                   !.week = w, !.coverage = c]

\* mark_schedule_done_for_field_work, called for work of technician k done in
\* week w (performed_at may lie back) and committed with the report.
FieldWorkDone(r) ==
    /\ work[r].pc = "idle" /\ "field_work" \in Operations
    /\ \E s \in ScheduleIds, k \in Technicians, w \in {-1, 0} :
          /\ schedule[s].life = "live" /\ schedule[s].active /\ k \in Effective(s, w)
          /\ \E c \in IF ActiveCoverages(s, w) = {} THEN {Null} ELSE ActiveCoverages(s, w) :
                work' = [work EXCEPT ![r] = Marking(s, w,
                           IF c # Null /\ coverage[c].completed = Null THEN c ELSE Null)]
    /\ UNCHANGED <<tables, scheduler, clock>>

\* _mark_routine_drive_done of services/route_patrol.py.  A patrol of no site makes no
\* report; once it is committed, a second commit moves the schedule its technician owns.
\* Who covers for them is not asked, and no reassignment is completed.
PatrolDone(r) ==
    /\ work[r].pc = "idle" /\ "patrol" \in Operations
    /\ \E s \in ScheduleIds :
          /\ schedule[s].life = "live" /\ schedule[s].active /\ schedule[s].owner \in Technicians
          /\ work' = [work EXCEPT ![r] = Marking(s, 0, Null)]
    /\ UNCHANGED <<tables, scheduler, clock>>

\* Slip: a covered week is put down to the coverage alone.
MarkCoverageOnly(r) ==
    LET w == work[r] IN
    /\ w.pc = "mark"
    /\ schedule' = IF w.coverage = Null THEN [schedule EXCEPT ![w.schedule].lastRun = w.week]
                   ELSE schedule
    /\ coverage' = IF w.coverage = Null THEN coverage
                   ELSE [coverage EXCEPT ![w.coverage].completed = w.week]
    /\ work' = [work EXCEPT ![r] = Ended]
    /\ UNCHANGED <<assigned, wanted, scheduler, clock>>

MarkCommit(r) ==
    LET w == work[r] IN
    /\ w.pc = "mark"
    /\ schedule' = [schedule EXCEPT ![w.schedule].lastRun = w.week]
    /\ coverage' = IF w.coverage = Null THEN coverage
                   ELSE [coverage EXCEPT ![w.coverage].completed = w.week]
    /\ work' = [work EXCEPT ![r] = Ended]
    /\ UNCHANGED <<assigned, wanted, scheduler, clock>>
-----------------------------------------------------------------------------
(* check_weekly_scheduled_tasks. *)

CheckDay == weekday \in {Wednesday, Friday}

\* Today's tick on instance i; the job looks at the weekday once it has the lock.
ScheduledCheck(i) ==
    /\ work[i].pc = "idle"
    /\ TryLock(i)
    /\ work' = [work EXCEPT ![i] =
          IF CheckDay THEN Ensuring("check_weekly", Technicians)
          ELSE Ended]
    /\ UNCHANGED <<tables, clock>>

MissTick(i) == SkipTick(i) /\ UNCHANGED <<tables, clock, work>>

\* POST /check-weekly takes no lock.
ManualCheck(r) ==
    /\ work[r].pc = "idle" /\ "check_weekly" \in Operations
    /\ CheckDay
    /\ work' = [work EXCEPT ![r] = Ensuring("check_weekly", Technicians)]
    /\ UNCHANGED <<tables, scheduler, clock>>

\* Which technician answers for which schedule this week.
GroupSchedules(r) ==
    /\ work[r].pc = "group"
    /\ work' = [work EXCEPT ![r].pc = "alert", ![r].group =
          {ks \in Technicians \X ScheduleIds :
              /\ schedule[ks[2]].life = "live" /\ schedule[ks[2]].active /\ schedule[ks[2]].weekly
              /\ ks[1] \in Effective(ks[2], 0)}]
    /\ UNCHANGED <<tables, scheduler, clock>>

\* One technician: the rows are read again, as the previous commit expired them.
\* Reading them and committing the notices is one step, since no handler reads
\* the notices.
AlertTechnician(r) ==
    \E k \in Technicians :
       LET mine    == {ks \in work[r].group : ks[1] = k}
           overdue == {ks \in mine : schedule[ks[2]].lastRun # work[r].week} IN
       /\ work[r].pc = "alert" /\ mine # {}
       /\ told' = IF overdue # {} /\ r \in Instances /\ told[k] < 2
                  THEN [told EXCEPT ![k] = @ + 1] ELSE told
       /\ work' = [work EXCEPT ![r].group = @ \ mine]
       /\ UNCHANGED <<tables, scheduler, weekday>>

CheckDone(r) ==
    /\ work[r].pc = "alert" /\ work[r].group = {}
    /\ work' = [work EXCEPT ![r] = Ended]
    /\ UNCHANGED <<tables, scheduler, clock>>
-----------------------------------------------------------------------------
\* A statement fails: rollback, and the handler raises.
Fail(r) ==
    /\ work[r].pc \notin {"idle", "end"}
    /\ IF r \in Instances THEN Unlock(r, TRUE) ELSE UNCHANGED scheduler
    /\ work' = [work EXCEPT ![r] = NoWork]
    /\ UNCHANGED <<tables, clock>>

\* The answer goes out, or the job returns.
End(r) ==
    /\ work[r].pc = "end"
    /\ IF r \in Instances THEN Unlock(r, FALSE) ELSE UNCHANGED scheduler
    /\ work' = [work EXCEPT ![r] = NoWork]
    /\ UNCHANGED <<tables, clock>>

Crash(i) ==
    /\ InstanceCrash(i)
    /\ work' = [work EXCEPT ![i] = NoWork]
    /\ UNCHANGED <<tables, clock>>

\* Bounds: a check ends on its day, a request within a week of its beginning.
InTime == /\ \A i \in Instances : work[i].pc = "idle"
          /\ weekday = Friday => \A r \in Requests : work[r].week = 0

\* A week later.
AgedSchedule(row) == [row EXCEPT !.lastRun = IF @ = Null THEN Null ELSE Before(@)]
AgedCoverage(row) == IF row.life = "unused" THEN row
                     ELSE [row EXCEPT !.week = Before(@),
                                      !.completed = IF @ = Null THEN Null ELSE Before(@)]
AgedWork(q) == IF q.pc = "idle" THEN q ELSE [q EXCEPT !.week = Before(@)]

\* The next day of interest; after Friday a new week.
NextDay ==
    /\ InTime
    /\ NextTick
    /\ told' = [k \in Technicians |-> 0]
    /\ weekday' = IF weekday = Friday THEN 0 ELSE weekday + 2
    /\ \/ /\ weekday = Friday
          /\ schedule' = [s \in ScheduleIds |-> AgedSchedule(schedule[s])]
          /\ coverage' = [c \in CoverageIds |-> AgedCoverage(coverage[c])]
          /\ work' = [r \in Workers |-> AgedWork(work[r])]
       \/ /\ weekday # Friday
          /\ UNCHANGED <<schedule, coverage, work>>
    /\ UNCHANGED <<assigned, wanted>>

Proceed(r) ==
    \/ EnsureLoad(r) \/ EnsureCommit(r) \/ InsertCoverage(r) \/ CancelCommit(r)
    \/ MarkCommit(r) \/ GroupSchedules(r) \/ AlertTechnician(r) \/ CheckDone(r)
    \/ Fail(r) \/ End(r)

Next ==
    \/ \E r \in Workers : Proceed(r)
    \/ \E r \in Requests :
          \/ ListSchedules(r) \/ SetSites(r) \/ CreateCoverage(r) \/ CancelCoverage(r)
          \/ FieldWorkDone(r) \/ PatrolDone(r) \/ ManualCheck(r)
    \/ \E i \in Instances : ScheduledCheck(i) \/ MissTick(i) \/ Crash(i)
    \/ \E s \in ScheduleIds :
          CreateSchedule(s) \/ UpdateSchedule(s) \/ MarkDone(s) \/ DeleteSchedule(s)
    \/ UpdateSite \/ NextDay

Spec == Init /\ [][Next]_vars

\* Threads that run keep running; requests, ticks and days need not come.
FairSpec == Spec /\ \A r \in Workers : WF_vars(Proceed(r))
-----------------------------------------------------------------------------
(* Properties. *)

\* A schedule has at most one active reassignment for a week, however the
\* requests that make one race (create_coverage, scripts/0041).
OneActiveCoverage ==
    \A c, d \in CoverageIds :
        /\ coverage[c].life = "live" /\ ~coverage[c].cancelled
        /\ coverage[d].life = "live" /\ ~coverage[d].cancelled
        /\ coverage[c].schedule = coverage[d].schedule
        /\ coverage[c].week = coverage[d].week /\ coverage[c].week # Earliest
        => c = d

\* A reassignment is completed by work done in its own week, even when the
\* paperwork is handed in a week late (mark_schedule_done_for_field_work).
CompletedInItsWeek ==
    \A c \in CoverageIds : coverage[c].completed \in {Null, coverage[c].week}

\* A completed reassignment means that its schedule has run: the two rows are
\* written by one commit and no PATCH clears last_run_at.
CompletedMeansRan ==
    \A c \in CoverageIds :
        coverage[c].completed # Null => schedule[coverage[c].schedule].lastRun # Null

\* A completion is of its week and moved its schedule's last run.
CompletionStands == CompletedInItsWeek /\ CompletedMeansRan

\* Two instances are never inside the job at once (_run_locked).
OneRunner ==
    \A i, j \in Instances : work[i].pc # "idle" /\ work[j].pc # "idle" => i = j

\* The advisory lock is given back, whether the job returns, raises or dies.
LockFreed == \A i \in Instances : lock = i ~> lock # i

\* Claimed, and refuted by a run of their own.

\* "only one runner executes a given job per tick": the scheduled checks of one
\* day alert a technician at most once.
AlertedOncePerTick == \A k \in Technicians : told[k] <= 1
=============================================================================
