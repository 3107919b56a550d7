# FieldCore backend in TLA+

A model of the FieldCore backend (FastAPI, SQLModel over PostgreSQL, Celery,
APScheduler), the instances TLC checks and the theorems TLAPS proves about it.
Paths below are relative to `src/app/`, those of tests and scripts to `src/`.

## 1. The system

Seacom's field operations: technicians are given tasks, hand in reports on
them, do the weekly due diligence of their sites, attend to incidents under an
SLA, and fill in safety (SHEQ) checklists; operators and managers plan, watch and
sign off. Every endpoint of `api/v1` calls one service method with a database
session of its own. Endpoints are plain functions, so FastAPI runs them in a
thread pool, several at a time and in any number of processes; all state they
share is in PostgreSQL at READ COMMITTED. No handler takes a row lock
and no table has a version column.

**One unit of work.** A handler loads rows, judges them, assigns attributes of
the loaded objects and commits. The flush writes, by primary key, exactly the
columns whose assigned value differs from the loaded one. Almost every hazard of
this system comes from that sentence: a decision is made on a row that may have
changed when the write arrives, and the write may be of some columns only.

### Inventory

| Component | State | Operations | What makes it correct |
|---|---|---|---|
| Tasks (`services/task.py`) | `tasks`: type, status, held_at, completed_at | create, PATCH, delete, start, complete, feedback, fail, hold, resume; creates the automatic report | the stamps agree with the status; one active report however handlers race; notice at most once |
| Reports (`services/report.py`) | `reports` | create, start, complete, PATCH with lock retries, delete | completing one completes the task it belongs to and marks its schedule, for work that was done |
| Field work (`services/field_work.py`) | none of its own | start, submit of self-started work | task, report and schedule move together |
| Maintenance schedules (`services/maintenance_schedule.py`) | `maintenance_schedules`, `..._coverages` | ensure due diligence, CRUD, reassign, cancel, mark done | one active reassignment a week; completed by work of its own week |
| Weekly checker, scheduler (`services/weekly_checker.py`, `core/scheduler.py`) | advisory lock | tick, check, alert | one instance in the job; the lock comes back |
| SHEQ submissions (`services/sheq_*.py`) | `sheq_submissions`: data, attachments, status, signatures, summary | create, PATCH, delete, sign | submitted ones are valid; signed-off ones are final and what was signed |
| Incidents (`services/incident.py`) | `incidents`: status, four milestones | create, PATCH, start, resolve, mark milestone, delete | a milestone keeps its first time |
| Incident reports (`services/incident_report.py`) | `incident_reports` | create, PATCH, delete, upload photograph | one per incident, of begun work; no upload lost |
| Background notices (`tasks/notifications.py`, `core/celery_app.py`) | the broker's queue | enqueue, deliver, redeliver | no restart loses a notice |
| SLA checker, penalties (`services/sla_checker.py`, `utils/sla_utils.py`, `services/penalty_calculator.py`) | none of their own | scan, status, exposure of a fault | each breach alerted, a met milestone never; status and exposure agree |
| Sessions (`services/auth.py`, `core/security.py`) | `users`: two stamps; tokens nobody stores | login, renewal, logout, password change | what was ended stays ended |
| Passkeys (`services/auth.py`) | ceremonies, passkeys | start and finish a registration or an authentication | a ceremony is used once |
| Users and technicians (`services/user.py`, `technician.py`) | `users`, `technicians` | create, restore, change role, activate, delete | an active technician has a profile; a profile stays with whom it was given to |
| Presence (`services/presence.py`) | Redis keys or `user_sessions` | upsert, heartbeat, deactivate, list | who is active is listed, whichever store serves |
| Settings (`services/system_settings.py`, `core/debug_middleware.py`) | `system_settings`, the middleware's copy | change, bulk change, look up, announce | a request is served values no older than the copy may be |
| Forms (`services/form_*.py`, `template_category.py`) | templates, submissions | edit, publish, file, amend | what is filed fits the version it names |
| Inspections, access requests (`services/routine_inspection.py`, `access_request.py`) | one table each | change, submit, reject, tell | completed and told once |
| Route patrols (`services/route_patrol.py`) | `route_patrols` | create, change, delete | moves the schedule of the routine drive |
| Report histories (`services/report.py`, `report_support.py`) | none of their own | diesel history, progress and gaps of a sheet | fill-ups add up; progress and gaps agree |
| SHEQ compliance (`services/sheq_compliance.py`) | none of its own | report of a period | filters neither add nor lose a finding |
| Clients, sites (`services/client.py`, `site.py`) | a table each | create, change, activate | one holder of a name and of a code |
| Notifications (`services/notification.py`) | `notifications` | deliver, call for help, mark, mark all, delete | nothing is marked unseen; what is counted is stored |
| Fault updates (`services/fault_update.py`) | `fault_updates` | classify against the last one | |
| Dashboards, GraphQL, files, PDF, e-mail, webhooks | tables or none | queries, rendering, output | no rule that relates steps |

How they interact: tasks, reports, field work and route patrols mark the
maintenance schedule of what they complete; the weekly checker reads schedules
and reassignments and writes notifications; the SLA checker reads the milestones
that incident handlers stamp; incident endpoints queue notices after their
commit; `Inbox` is where the other parts' notices arrive; administrators' changes of
settings reach requests through the middleware's copy only; everything else meets
in the database only.

What is hard: two requests between each other's read and commit; several commits
in one handler with a failure in between; unique indexes as the last judge of a
lost race; retries from a fresh read; the same scheduled tick on several
instances; late paperwork across the end of a week; redelivery after a crash; a store
that fails between two commands of one call; copies that outlive what they copy; tokens
nobody can take back; the same figure computed in two places.
`PROJECT.json` lists each at its line.

## 2. Modules

| Module | Models | Proved in |
|---|---|---|
| `UnitOfWork` | what a flush writes (`Written`), soft deletion | |
| `FieldWork` | tasks, reports, field work | `FieldWorkProofs` |
| `Scheduler` | ticks and the advisory lock of `_run_locked` | `ScheduleProofs` |
| `Schedules` | maintenance schedules, reassignments, weekly checker, the schedule a patrol moves; extends `Scheduler` | `ScheduleProofs` |
| `Incidents` | incidents, incident reports, the Celery notices | `IncidentProofs` |
| `SlaClock` | business days, deadlines, verdicts, penalties, as functions | `SlaProofs` |
| `Sla` | the scan, milestones, status and exposure; extends `Scheduler` and `SlaClock` | `SlaProofs` |
| `Sheq` | SHEQ submissions with their rule books, summary and signatures | `SheqProofs` |
| `Sessions`, `Passkeys` | tokens and what ends them; ceremonies | `AccountProofs` |
| `Technicians` | users with that role and their profiles | `AccountProofs` |
| `Roster` | what the presence service promises | `PresenceProofs` |
| `Presence` | Redis and the table behind it; refines `Roster` | `PresenceProofs` |
| `Settings` | settings and the middleware's copy | `AccountProofs` |
| `Forms` | templates, versions, submissions, validation | `ServiceProofs` |
| `Paperwork` | inspections and rejections: status first, notice second | `ServiceProofs` |
| `Diesel`, `HostedSite` | the fill-ups of a site; sections, progress, gaps of a sheet | `ServiceProofs` |
| `Compliance` | the SHEQ report of a period over what it reads | `ServiceProofs` |
| `Clients` | names and codes under two indexes | `ServiceProofs` |
| `Inbox` | the notices of a user | `ServiceProofs` |
| `MCFieldWork`, `MCFieldWorkRaces`, `MCSchedules`, `MCSheq`, `MCIncidents` | symmetry, sets of operations and bounds of the runs | |
| `MCSla` | the times of its run, and raise times of a fortnight for the calendar | `SlaProofs` |
| `MCServices` | thirteen modules that share no table, in one run: a behaviour is of one of them | `ServiceProofs` |

**Correspondence.** A table is a function from ids to rows; a row's `life` says
whether it was inserted and whether `deleted_at` is set. A request is a record
(`req` in `FieldWork`, `work` elsewhere) with a `pc`, the rows its handler loaded
and what it decided. An action is what happens between two points at which other
requests may interleave: loading and judging (up to the first commit), each
commit, each later read. A handler with one commit that depends on nothing it
read earlier is one action. Columns no property tells apart are left out; contents
of a form are members of a small set named for the rule they meet or break.

- `FieldWork`: `LoadTask`/`LoadReport` are the reads of `_get_task`/`_get_report`
  with the handler's status checks; `StartTask` ... `ResumeTask`, `CompleteReport`,
  `DeleteReport`, `UpdateReport` are the first commits; `EnsureReport`,
  `InsertReport`, `RereadReport` are `_ensure_auto_report_for_task` with its
  `IntegrityError` branch; `Notify`, `NotifySelfHeal` the later commits, of whose
  notices the technician's is kept and the broadcast to NOC users is not;
  `LockTimeout`, `RetryUpdate` the retry loop of `update_report`; `DatabaseError`
  and `Crash` end a request anywhere. `ActiveReportIndex` says whether the
  unique index of `scripts/0011` exists: the code is written for it and the
  README calls it critical, but the repository no longer creates it.
- `Schedules`: one site and one schedule type. Weeks are counted back from the
  current one, down to `Earliest`, which stands for all before it, so that time
  goes on without a bound; `NextDay` ages every stored week. `EnsureLoad` and
  `EnsureCommit` are `ensure_weekly_due_diligence_schedules`; `GroupSchedules`,
  `AlertTechnician` and `CheckDone` the weekly check, one commit per alert.
  `Scheduler` is instantiated by extension: `ScheduledCheck` wins the lock,
  `End`/`Fail` release it, `Crash` drops it with the connection.
  `PatrolDone` is the second commit of a route patrol, which moves the schedule the
  technician owns and no reassignment.
- `Sheq`: `Load*` compute the object the handler assigns to from the row it
  read (`Edited`, `Signed`, `SoftDeleted`), `CommitWork` flushes the difference,
  `Refresh` and `Announce` are what `create_submission` and `update_submission` do
  after their commit. `data_hash` is the data itself: SHA-256 of the canonical
  JSON tells contents apart.
- `Incidents`: the methods of the model are `Assigned`, the flush is `Flushed`;
  `Enqueue` is the `.delay` after the commit, `PickUp`, `EndTask`, `RestartWorker`
  a worker under `task_acks_late`. `EndTask` may lose the notice, as the
  `_bg_notify_*` helpers swallow every exception and the retry is never reached.
  Without a broker the task runs in the request: a worker that picks it up at
  once. `told`, `kept` and `raced` record history and feed no guard but one:
  a photograph is uploaded once.
- `Sla`: `Fire` and `Call` start a scan on an instance or a request: it fixes `now`
  and reads the rows; `Turn` judges the next incident, `Alert` commits one notice at a
  time, `End` and `Crash` give the lock back. `TakeTime` and `CommitStamp` are the two
  halves of a milestone, whose time is older than its commit. `SlaClock` counts
  minutes from a Monday; deadlines are functions of them, stepped through day by day as
  the code does. One clock serves every instance and caller: their hosts are taken to agree
  on the time. `DeadlineByCalendar` says what they are by counting the working days of
  the calendar instead.
- `Sessions`: `Mint` after `LoadLogin` or `LoadRenewal`, `CommitEnd` after `TakeMoment`.
  A token's `iat` is the second its moment falls in, as in `decode_token`. `Passkeys`
  has one action per half of a ceremony; a person stands between the two.
- `Technicians`: loads hold rows (`clerk`), `FlushUser`, `InsertProfile` and
  `CommitClerk` write; `contested` collects what two requests have held at once.
- `Presence`: one action per Redis command (`Hset`, `Zadd`, `Renew`, `Zrem`, `Del`), a
  `FallBack` at any of them, `LoadRow` and `CommitBeat` in the table; `ExpireHash` is
  Redis's own.
- `Settings`: a lookup takes the time, reads, and stores values and time apart; the
  copy is two attributes, of the class until the instance has its own. A lookup that
  finds no engine (`core/debug_middleware.py:66`) is left out: `main.py` connects before the
  first request, or does not start, and disconnects after the last.
- `Forms`: validation is a function of a field and a payload by type; an edit that
  changes the structure writes the next version. `LoadCategory` and `InsertTemplate` are the
  two halves of `create_template`.
- `Paperwork`: `CommitPaper`, then `Tell`, with `FailPaper` in between.
- `Diesel`, `HostedSite`, `Compliance`: the tables move by whole operations, and the
  report computed of them is a definition. A loop that adds up is a `SumFunction` of what
  it runs over; a text that stands for a number is its groups of digits and its marks; negative numbers and the texts
  `nan` and `inf` are not among them. Either end of a compliance report's span may be open.
- `Inbox`: `Deliver` commits for one user at a time, and may fail after that as before it;
  `OpenOne`, `OpenAll` load, `CommitMarks` flushes.

**Properties under a race.** Some rules the code keeps only while no two requests
overlap on a row, because nothing stops an overlap. The variable `raced` collects
the rows on which two requests were ever at work at once. Properties that exclude
`raced` rows (`SubmissionConsistent`, `SignedOffIsFinal`, `MilestoneStands`,
`PhotosKept`), or the like under another name (`contested` for `ProfileKept`, `overlapped`
for `CeremonyOnce`, a token's `raced` for `SessionEnds`, `doubt` for `IsRoster`, `alone` for
`RefusedHasHolder`), say so; the overlapping steps are in the model and do break them.
The other properties hold under every interleaving.

## 3. Runs

Deadlock is not checked: when every id is used and no request is under way, the
system is idle, and that is a legitimate end. Requests, reports, technicians and
the like are symmetric wherever no liveness property is checked.

| Run | Question | Instance | Distinct states |
|---|---|---|---|
| `FieldWorkRaces` | is there one active report and one notice of it however handlers race, and do stamps, marked schedules and deletions survive? | 1 task, 2 reports, 2 requests, index present | 1 102 000 |
| `FieldWorkLive` | does every request end? | every operation, 1 request, 2 retries | 65 000 |
| `Schedules` | reassignments across the end of a week | 2 technicians, 1 schedule, 2 reassignments, 2 requests | 1 596 000 |
| `WeeklyCheck` | one instance in the job, and the lock given back? | 2 instances, 1 manual check, edits of schedules | 98 000 |
| `Incidents` | milestones and notices; reports and photographs | 1 incident, 2 milestones, 2 kinds of notice, 2 reports, 2 requests, 1 worker | 1 412 000 |
| `Sla` | is every missed milestone alerted, no met one, and do status, exposure and calendar agree? | 1 incident of 2 severities, 1 instance, 1 caller, 1 request | 206 900 |
| `Services` | the thirteen modules that share no table | one or two rows and two requests of each | 623 000 |

Why the bounds suffice: every hazard listed is between two actors on one row (or a
row and its report), so two requests, one row of the contended table and two of
what is inserted reach all of them; a third request repeats the roles of
the first two. This week, last week and "earlier" are all that any guard tells apart.
`MaxLockRetries` is 0 in the racing run, which leaves the retry to `FieldWorkLive`.
`WeeklyCheck` has no reassignments and `Schedules` no instances: the two meet
only in whom the checker alerts. `FieldWorkRaces` looks at two kinds of behaviour: two
requests that want automatic reports of a task, and two that work on one report
(`OfPart`). `Incidents` divides in the same way.

In `Services` a behaviour picks a `part` and keeps to it, so that the run is the sum of the
thirteen and not their product: they share no variable, and the endpoints that
belong to different ones share no row. `FewAtOnce` names, service by service, what
requests may do *at the same time*; alone, a request may always do everything.
It leaves out overlaps that only repeat another: on a checklist of a second type, whose rule
book no overlap depends on, or on two papers, which no request holds together; a second
signature while two requests are at work on a checklist; a race on users after one that
already ended; two presence calls when both session ids are in use; two clients when both
rows exist. `Window` is 0 and `MaxTime` 1 in presence, so one tick is silence; `Second` is 2
moments, so a token's second may begin before or after an end of sessions; a copy of the
settings is stale after one tick, and two fit in a behaviour.

`Sla` moves its clock from the raising of a fault, when a milestone can be met, to 12:00,
which *is* the first deadline of a critical fault, and to a Wednesday at 16:10, after three
of four deadlines of a critical and a minor fault and within the half hour before the last;
one scan at a time is taken, as the lock has it. At 12:00 the fault is stamped and scanned, and
neither concluded nor reclassified (`InBetween`). The states in which no scan runs hold the
deadlines for each half hour of a fortnight and the minute before it (`raised`).

The clock stands on a deadline because the two sides of the code part there: a scan takes
a milestone as missed from `now >= deadline` on (`services/sla_checker.py:213`), and a stamp of
that very minute counts as in time (`utils/sla_utils.py:149`). So an alert may be followed by
a stamp that is not late, and `AlertedWasMissed` says that no stamp is *before* the deadline that
was alerted. The stricter property, that none is at it either, is false; it was the proof that
found so, and the run has the case since.

What the runs show for these sizes, the theorems of section 4 say for all.

What the properties of `Services` say, beside the type invariant:

| Property | Module | In a sentence |
|---|---|---|
| `SubmittedIsAnnounced`, `SubmissionConsistent`, `SignedOffIsFinal` | `Sheq` | what waits for a signature was announced; submitted is valid, the summary is that of the data, a stamped sign-off has a supervisor's signature over it; signed off stays as it is |
| `SessionEnds` | `Sessions` | no token of a session opened before a committed logout or password change is accepted again, however often renewed |
| `CeremonyOnce` | `Passkeys` | a ceremony lets in once |
| `TechnicianProfiled`, `ProfileKept` | `Technicians` | an active technician has a live profile; a profile is not taken away from whom it was given to |
| `IsRoster` | `Presence` | refinement of `Roster`: listed from a heartbeat until leaving or silence, whichever store serves |
| `ServedFresh` | `Settings` | the age of what requests are served |
| `FiledStaysValid` | `Forms` | what is filed fits the structure it names, through edits of both |
| `CompletedOnce` | `Paperwork` | completed once, told at most once, and not edited after |
| `HistoryAddsUp` | `Diesel` | each fill-up counts once, as meant; generators and periods add up |
| `ProgressMatchesGaps` | `HostedSite` | two computations of what is missing agree |
| `FiltersPartition` | `Compliance` | technicians or spans add up to the report of all |
| `RefusedHasHolder` | `Clients` | who is sent to an existing client can find it |
| `InboxKept` | `Inbox` | nothing is marked or gone that its handler had not seen; mark-all marks all there was; as many are stored as are counted |

Every property is also checked against a slip of the kind a programmer makes (a
check dropped, a column not written, a lock kept on failure); the slips stand
in the modules beside what they distort, marked `Slip:`, and TLC finds each
property violated with its slip put in.

Five runs state a claim of the repository that the code does not keep:

- `NoActiveReportIndex`: without `scripts/0011`'s index, which no script or
  migration here creates, two starts of one task insert two automatic reports,
  although `services/task.py:177` "handles uniqueness races".
- `HostedReport`: completing the POP or datacenter report of self-started
  work leaves the task started, because `FIELD_REPORT_SCHEDULE_TYPES` lacks the two
  types that `tests/test_field_work_datacenter_pop.py` says behave the same.
- `OneRunnerPerTick`: the lock is held only while the job runs, so an instance with a
  late clock runs the same tick again; `core/scheduler.py:7` says one runner per tick.
- `SignedOffBySignature`: a create or PATCH may set `signed_off` itself, though
  `models/sheq_submission.py:313` reserves it to signatures.
- `AnnouncedIsServed`: the middleware's copy is an attribute of the instance that hides the
  one `invalidate_debug_cache` clears, so an announced change is served up to a minute late.

Read in the code while modelling, and claimed by no run:

- `services/client.py:197`: `find_inactive_client_by_name` says `not Client.is_active`, which
  is Python's `not` of a column and never finds a client. The comment at line 47 says codes
  are looked up among active clients; the query takes all that are not deleted.
- `services/sheq_compliance.py:203`: a draft counts as a submitted vehicle check, where the
  docstring speaks of those "expected to submit". A region narrows the submissions (line 260)
  and not the tasks (line 338), so a checklist without a site is reported as missed.
- `services/notification.py`: the not-found of `create_notification` is caught by its own
  `except Exception` and answered 500; two mark-all requests at once both count the same notices.
- `services/report_support.py:50`: "1,563" with no point is read as 1.563, and `float()` takes
  "nan" and "inf" (line 56), which spread to every total of the site.
- `services/sheq_compliance.py:322`: a report open at an end lists no missed check, where a
  part of it between two days does.
- `services/system_settings.py`: a cache is written and never read, as nothing calls `_load_cache`.

### Fairness

`FairSpec` of `FieldWork` asks weak fairness of `Proceed(r)`, the next step of a
request that was accepted: a thread of the pool keeps running, and a statement ends
or times out. `FairSpec` of `Schedules` asks the same of every worker inside a
handler or the job. Nothing is assumed of clients, days, the broker or
repairs: no request need ever come, and a crash is always possible. `RequestsEnd` and
`LockFreed` follow from that alone.

`FairSpec` of `Sla` asks weak fairness of the interval, of a running scan and of a stamp's
commit, and strong fairness of `Fire(i)`: an instance that is due again and again does not
find the lock held every time, since the scan that holds it ends. Failures and crashes are
bounded by `MaxFailures`: a scan that fails for ever alerts nobody. `BreachAlerted` needs that
much and no more.

## 4. Proofs

`tlapm` proves the following for every value of the constants, under the named assumptions
of the modules. With them every invariant and every action property of the passing runs is a
theorem, and so is the refinement of `Roster`; what the runs check and no theorem states is
liveness.

| Module | Theorems | Inductive invariant |
|---|---|---|
| `FieldWorkProofs` | `TypeCorrect` | `TypeInv`: `TypeOK`, a request at work has loaded its rows, live reports have tasks |
| | `StampsAlways`, `MarkedWorkWasCompletedAlways`, `OneActiveReportAlways`, `DeletionIsFinalAlways` | `SafetyInv`: the above with `OnHoldIsStamped`, `CompletedIsStamped`, `ResumeSawHold`, `CompletionSeenIsStamped`, `MarkedInv` |
| | `EnsureTellsTruthAlways`, `AutoNoticeOnceAlways` | `TypeInv`, `EnsureInv` |
| `ScheduleProofs` | `ScheduleTypes`, `OneActiveCoverageAlways`, `CompletionStandsAlways`, `OneRunnerAlways` | `TypeOK`, `WorkersOK`, `JobHoldsLock`, `TablesOK` |
| `IncidentProofs` | types, `OneActiveReportAlways`, `ReportMeansStartedAlways`, `PhotosKeptAlways`, `NoticeUnderwayAlways`, `MilestoneStandsAlways` | `TypeOK`, `WorkersOK`, `HoldersAreCurrent`, `ReportsOK`, `OneActiveReport`, `NoticeUnderway`, `PhotosKept` |
| `SlaProofs` | `SlaTypes`, `AlertedWasMissedAlways`, `PenaltyMeansBreachedAlways`, `AgreementKeptAlways` | `SlaInv`: `SlaTypeOK`, `MarksOK`, `ScansOK`, `AlertsOK` |
| | `DeadlineIsByCalendar` | none: it is of functions |
| `SheqProofs` | `SheqTypes`, `SubmittedIsStampedAlways`, `SubmittedIsAnnouncedAlways`, `SubmissionConsistentAlways`, `SignedOffIsFinalAlways` | `TypeOK`, `WorkersOK`, `SeenIsCurrent`, `RowsOK`, `SubmittedIsAnnounced` |
| `AccountProofs` | `SessionsTypes`, `SessionEndsAlways` | `EndingsTaken`, `SessionsInv` |
| | `PasskeysTypes`, `CeremonyOnceAlways` | `PasskeysInv` |
| | `TechniciansTypes`, `TechnicianProfiledAlways`, `ProfileKeptAlways` | `TechniciansInv` |
| | `SettingsTypes`, `ServedFreshAlways` | `SettingsInv` |
| `PresenceProofs` | `ListingAlways`, `PresenceIsRoster` | `ListingKept`: `CallsKept`, and for operators nobody doubts `RedisKept` and `TableKept` |
| `ServiceProofs` | `ClientsTypes`, `RefusedHasHolderAlways` | `ClientsInv` |
| | `PaperworkTypes`, `CompletedOnceAlways` | `PaperworkInv` |
| | `HostedTypes`, `ProgressMatchesGapsAlways` | `SheetOK` |
| | `InboxTypes`, `InboxKeptAlways` | `InboxInv` |
| | `FormsTypes`, `FiledStaysValidAlways` | `FormsInv` |
| | `ComplianceTypes`, `FiltersPartitionAlways`, `DieselTypes`, `HistoryAddsUpAlways` | the types: the reports are functions of the state |
| | `ServicesRunEach`, `ServicesTypes` | those of the thirteen services |

### The arguments, in short

Most invariants here have one form: *what a request that waits for its commit may still rely
on of the rows it read*. The properties then follow, because a flush writes the difference between
what was read and what was assigned.

- *Stamps (`FieldWork`)*. A flush may leave a status unwritten because the handler
  read the same value. The invariant therefore says what a request knows of
  the row it read: one that resumes saw a task on hold, one that completes an
  already completed task saw its stamp. Stamps are never cleared except by the
  resume that also writes the status away from on hold. `MarkedInv` lifts that to
  the schedules: a mark is written by the commit that stamps the task, or by one
  that read it stamped.
- *Automatic reports*. At each insertion the table has no active report of
  the task, by the index; deletions only shrink the set. `EnsureInv` follows a request
  through `_ensure_auto_report_for_task`: past the insert its task has a report, after a lost
  race the winner's was there to be read again, and a refusal comes of a report that was
  deleted meanwhile. A request that is to tell of a report has created it, no other is to
  tell of the same one, and nobody was told before. Reports are not taken out of the
  table and do not change their task (`ReportsAreKept`), so all that stays true.
- *Reassignments (`Schedules`)*. Weeks move with the calendar, so the invariant
  is stated on ages: completion writes the age of the work, both age together,
  and `Earliest` merges ages only after they can no longer be active.
- *One runner*. `JobHoldsLock`: an instance whose work is not idle holds the lock.
- *Checklists and milestones*. `SeenIsCurrent`/`HoldersAreCurrent`: on a row nobody
  raced on, the request at work is alone and read the row as it still is; a second
  load puts the row in `raced`. A commit on such a row then writes exactly the
  object the handler judged.
- *Begun work (`Incidents`)*. No method takes a status back to open, in any
  interleaving: a flush writes a status other than open or none. So what the
  report's handler saw stays true up to its insert and after.
- *Notices*. An owed notice stays in the queue until its task ends; a restart only
  frees the worker.
- *Alerts (`Sla`)*. What a scan has read as unstamped, with no stamp under way, will be stamped
  by a request that takes its time from the clock after the scan took `now`. `ScanOK` carries
  "no stamp, committed or under way, is earlier than `now`" from the read to the verdict, and
  "than the deadline" from there to the alert and, in `AlertsOK`, past it.
- *Calendar*. `AddBusinessDays` is a loop: next working day, so many times. The prover has no
  induction over an operator, so the induction is put as a fact about a set: the steps at which
  the loop and the count of working days part have a least one (`LeastElement`), and there
  they do not part. `DeadlineIsByCalendar` then holds of every time, not of a fortnight.
- *Sessions*. A token that nobody raced with is of a session opened after the last end, or one of
  the two columns rules it out; an end under way will rule out all tokens minted before, also
  where it lowers a column another has just raised.
- *Ceremonies*. Of a ceremony no two requests overlapped on, at most one request answers it, and
  none once it has succeeded.
- *Technicians*. `ClerkOK`, `SeenOK`, `PreparedOK`: what each kind of request holds, that rows
  nobody contests are still as read, and that whoever is to be an active technician has a
  profile or gets one in the same commit. `Flagged` says that overlaps are noticed.
- *Settings*. A value a lookup carries was the setting at some moment since the lookup began, and a copy's
  value at some moment since its stamp.
- *Presence refines `Roster`*. The mapping takes time, each operator's last heartbeat and whom the
  store that serves would list. For an operator with calls in one store, `RedisKept` and
  `TableKept` say what each of its calls, at each command, has yet to do to the ids and
  rows of the operator; `ClaimsKept` keeps calls of two operators off each other's ids. Every
  command then maps to a step of the roster or to none.
- *Clients, papers, notices, forms*. `AskingOK`, `HeldAlone`, `OpeningOK`, `EditOK`: as above.
  In `Inbox` the number of notices there were is the clock: what a request is to mark had come when it
  looked. In `Forms`, `Versioned` says that all that carries a version of a template carries one structure.
- *Sums (`Compliance`, `Diesel`)*. `SumFunction` of the community modules is a recursion over a
  finite set; `AddsUpOneWay` shows by a least set that it has one value, and `SumAddsUp` that
  the sum over two disjoint sets is the sum of the sums. The reports of
  the filters, of the generators, of the visits and of the periods are over disjoint sets that make up
  those of all.
- *The run `Services`*. `ServicesRunEach`: a behaviour that keeps to one part is a behaviour of that part's
  module and lets the others rest, so the thirteen theorems hold in it together.

### What the theorems assume

The assumptions are in the modules, and TLC evaluates them in every run: `Null` and the
like are no ids, types and operations are among the code's, bounds are naturals. Ids may be infinitely
many, or none, with these exceptions: a sum or a count is of finitely many things (`Notices` of `Inbox`, `Callers`
of `Presence`, `Checklists` and `Crew` of `Compliance`, `Visits` and each list of fill-ups of
`Diesel`, the instants of `Sla`), and a row that is not yet inserted holds some
name, structure, place, person or kind (`Names`, `Structures`, `Places`, `Crew`, `Kinds` are not empty). The fields and
raw values of `Forms` have the shapes of the module.

Four theorems have a hypothesis of their own:

- `OneActiveReportAlways` of `FieldWork` has `ActiveReportIndex`: without the index the run
  `NoActiveReportIndex` refutes it. `EnsureTellsTruthAlways` and `AutoNoticeOnceAlways` need
  no index.
- `PenaltyMeansBreachedAlways` and `AgreementKeptAlways` have the two milestones penalties are computed from
  among those of the instance.
- `HistoryAddsUpAlways` has `Legible`: each litre and amount is written so that
  `coerce_diesel_number` reads it as it was meant. That it does read "22.51", "R563,30" and
  "1,563.30" so is a computation, and TLC's; that of numbers read right none is lost or counted twice is
  the theorem's.

### What stays with TLC

- Liveness: `RequestsEnd`, `LockFreed`, `BreachAlerted`. The prover has no rule for fairness.
- How the notations of a number are read, for the reason given: powers of ten
  are beyond the SMT backend.
- The five runs that end in a violation, which are counterexamples and need no proof.

## 5. Not modelled

- *Output*: PDF rendering, e-mail and webhooks, which run in threads nobody waits for and
  no part reads back; files, HTTP calls to an object store (the wait for one is in
  `Incidents`).
- *Reads*: dashboards and GraphQL, listings, exports; the trend of readings of a site; the
  totals of a quarter (`get_quarter_penalty_summary`), which add up the exposures of its faults.
- *Authorisation and scope*: who may ask for what is decided from the rows of one request
  and changes nothing; the modules take requests that have passed it.
- *Registers*: sites, routine checks and issues, the rows of route patrols, links between
  forms and what they are filed for. Rows are inserted, changed and deleted with no rule that
  relates steps. A patrol that is filed as a completed report takes the path of `field_work`.
- *Fault updates*: an update is compared once with the last one its handler saw, and is
  never judged again: a property of it would be that comparison.
- *Access requests*: creation and approval are deprecated and answer 400 first.
- *HTTP shell, migrations, scripts*: start-up, headers, rate limits, error bodies; the unique
  indexes that migrations create appear where code relies on them.

## 6. Plan

Modelled: everything in section 2. Proved: everything in section 4. What is left:

1. Refinement: `Schedules` and `Sla` both use the lock of `Scheduler`; an abstract lock service
   that each implements, stated once and proved of both.
2. Proofs: that two stamps of a task agree with its status has a step per handler
   and could be shorter with a lemma on `Written`; the facts about sums and about the calendar
   that `ServiceProofs` and `SlaProofs` begin with are of general use.

## 7. Running

`tlc -config <Run>.cfg <MC module>` with the pairs in `PROJECT.json`, and
`tlapm <Module>.tla` for the eight proof modules. `ServiceProofs` takes ten minutes, the others
take less.
