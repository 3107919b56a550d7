------------------------------- MODULE FieldWork -------------------------------
(***************************************************************************)
(* Tasks and their reports: services/task.py, services/report.py and       *)
(* services/field_work.py over models/task.py and models/report.py.        *)
(*                                                                         *)
(* FastAPI runs these handlers in a thread pool, so several requests work  *)
(* on one task at a time.  A request that reads a row and later writes it  *)
(* is a record in `req' that walks from its load to its commits to its     *)
(* answer; a handler whose single commit depends on nothing it read        *)
(* earlier is one action.                                                  *)
(*                                                                         *)
(* Left out: the payload columns, the broadcast to NOC users that the last *)
(* commit of a task handler carries (nothing modelled reads it back), and  *)
(* the ownership checks, which refuse a request before it changes          *)
(* anything.                                                               *)
(***************************************************************************)
EXTENDS Naturals, UnitOfWork

CONSTANTS Tasks, Reports, Requests, Technicians,
          ReportTypes,          \* the report types the instance offers
          Operations,           \* the handlers the instance's requests call
          MaxLockRetries,       \* max_lock_retries of update_report
          ActiveReportIndex,    \* is scripts/0011's unique index on reports(task_id) there?
          Null

RHS                == "remote-hand-support"
RoutineMaintenance == "routine-maintenance"
TaskTypes      == {RHS, RoutineMaintenance}
TaskStatuses   == {"pending", "started", "on_hold", "completed", "failed"}
ReportStatuses == {"pending", "started", "completed"}

\* The report types whose completion completes the task and its schedule.
FIELD_REPORT_SCHEDULE_TYPES == {"routine-drive", "repeater", "diesel"}

\* `held' and `stamped' say that held_at and completed_at are not NULL;
\* `selfStarted' that assigned_by_name is "Technician self-started".
TaskRow == [life : Life, type : TaskTypes, status : TaskStatuses, held : BOOLEAN,
            stamped : BOOLEAN, selfStarted : BOOLEAN, technician : Technicians \cup {Null}]

\* `auto' says that the report's data carries auto_generated.
ReportRow == [life : Life, task : Tasks \cup {Null}, type : ReportTypes \cup {Null},
              status : ReportStatuses, auto : BOOLEAN, technician : Technicians \cup {Null}]

NoTaskRow == [life |-> "unused", type |-> RHS, status |-> "pending", held |-> FALSE,
              stamped |-> FALSE, selfStarted |-> FALSE, technician |-> Null]

NoReportRow == [life |-> "unused", task |-> Null, type |-> Null, status |-> "pending",
                auto |-> FALSE, technician |-> Null]

\* The handlers that commit what they prepared from an earlier read.
TaskOps   == {"start_task", "complete_task", "submit_feedback", "fail_task",
              "hold_task", "resume_task"}
ReportOps == {"start_report", "complete_report", "delete_report", "update_report"}
ASSUME ConstantsAssumption ==
    /\ ReportTypes \subseteq {"diesel", "repeater", "routine-drive", "datacenter", "pop"}
    /\ Operations \subseteq TaskOps \cup ReportOps
    /\ MaxLockRetries \in Nat
    /\ ActiveReportIndex \in BOOLEAN
    /\ Null \notin Tasks \cup Reports \cup Technicians

Answers   == {"ok", "conflict", "error"}
Working   == {"loaded", "ensure", "insert", "reread", "notify", "selfHeal", "retry"}

Steps     == Working \cup Answers \cup {"idle"}

Request == [pc : Steps, op : TaskOps \cup ReportOps \cup {Null},
            task : Tasks \cup {Null}, report : Reports \cup {Null},
            taskSeen : TaskRow, reportSeen : ReportRow,   \* what the handler loaded
            status : ReportStatuses,                      \* the status update_report is to set
            tries : 0..MaxLockRetries, created : BOOLEAN]

NoRequest == [pc |-> "idle", op |-> Null, task |-> Null, report |-> Null,
              taskSeen |-> NoTaskRow, reportSeen |-> NoReportRow,
              status |-> "pending", tries |-> 0, created |-> FALSE]

VARIABLES
    task,        \* the table tasks
    report,      \* the table reports
    marked,      \* the reports whose completion marked a maintenance schedule done
    autoNotices, \* how often a technician was told of an auto-created report, capped at 2
    req          \* the requests being served
vars == <<task, report, marked, autoNotices, req>>

TypeOK ==
    /\ task \in [Tasks -> TaskRow]
    /\ report \in [Reports -> ReportRow]
    /\ marked \subseteq Reports
    /\ autoNotices \in [Reports -> 0..2]
    /\ req \in [Requests -> Request]

Init ==
    /\ task = [t \in Tasks |-> NoTaskRow]
    /\ report = [p \in Reports |-> NoReportRow]
    /\ marked = {}
    /\ autoNotices = [p \in Reports |-> 0]
    /\ req = [r \in Requests |-> NoRequest]

\* Slip: a completed report is taken for inactive.
UnfinishedReports(t) == {p \in Reports : /\ report[p].life = "live" /\ report[p].task = t
                                         /\ report[p].status # "completed"}

ActiveReports(t) == {p \in Reports : report[p].life = "live" /\ report[p].task = t}
-----------------------------------------------------------------------------
(* The methods of models/task.py on the row as it is at the commit.  A fresh *)
(* time always differs from the loaded one, so a stamp is always written.    *)

\* Slips: start clears the stamp it believes is not there; complete sets none.
StartReopening(now, seen)    == [now EXCEPT !.status = Written(@, seen.status, "started"),
                                            !.stamped = FALSE]
CompleteUnstamped(now, seen) == [now EXCEPT !.status = Written(@, seen.status, "completed")]

Start(now, seen)    == [now EXCEPT !.status = Written(@, seen.status, "started")]
Fail(now, seen)     == [now EXCEPT !.status = Written(@, seen.status, "failed")]
Complete(now, seen) == [now EXCEPT !.status = Written(@, seen.status, "completed"),
                                   !.stamped = TRUE]
Hold(now, seen)     == [now EXCEPT !.status = Written(@, seen.status, "on_hold"),
                                   !.held = TRUE]
Resume(now, seen)   == [now EXCEPT !.status = Written(@, seen.status, "started"),
                                   !.held = Written(@, seen.held, FALSE)]
-----------------------------------------------------------------------------
(* services/task.py *)

NewTask(ty, s, k) == [NoTaskRow EXCEPT !.life = "live", !.type = ty, !.status = s,
                                       !.technician = k]

CreateTask(t) ==
    /\ task[t].life = "unused"
    /\ \E ty \in TaskTypes, k \in Technicians :
          task' = [task EXCEPT ![t] = NewTask(ty, "pending", k)]
    /\ UNCHANGED <<report, marked, autoNotices, req>>

\* TaskUpdate names neither the status nor the stamps; the columns it sets are
\* not written together with any other, so the order of load and commit is free.
UpdateTask(t) ==
    /\ task[t].life = "live"
    /\ \E ty \in TaskTypes, k \in Technicians :
          task' = [task EXCEPT ![t] = [@ EXCEPT !.type = ty, !.technician = k]]
    /\ UNCHANGED <<report, marked, autoNotices, req>>

\* The cancellation notice is in the same commit.  The reports stay live.
DeleteTask(t) ==
    /\ task[t].life = "live"
    /\ task' = [task EXCEPT ![t] = SoftDeleted(@)]
    /\ UNCHANGED <<report, marked, autoNotices, req>>

LoadedTask(op, t) == [NoRequest EXCEPT !.pc = "loaded", !.op = op, !.task = t,
                                       !.taskSeen = task[t]]

\* Slip: resume_task without its status check.
LoadTaskUnchecked(r, op, t) ==
    /\ req[r].pc = "idle" /\ task[t].life = "live"
    /\ op = "hold_task" => task[t].status = "started"
    /\ req' = [req EXCEPT ![r] = LoadedTask(op, t)]
    /\ UNCHANGED <<task, report, marked, autoNotices>>

\* _get_task and the checks before the first assignment, of hold_task as of resume_task.
LoadTask(r, op, t) ==
    /\ req[r].pc = "idle"
    /\ task[t].life = "live"
    /\ op = "hold_task" => task[t].status = "started"
    /\ op = "resume_task" => task[t].status = "on_hold"
    /\ req' = [req EXCEPT ![r] = LoadedTask(op, t)]
    /\ UNCHANGED <<task, report, marked, autoNotices>>

\* A request at its next step; a commit also expires what the session had loaded.
At(q, pc)        == [q EXCEPT !.pc = pc]
Committed(q, pc) == [NoRequest EXCEPT !.pc = pc, !.op = q.op, !.task = q.task,
                                      !.report = q.report]

\* The first commit of a task handler: the row becomes `row', the request goes on to `pc'.
CommitTask(r, op, row, pc) ==
    /\ req[r].pc = "loaded" /\ req[r].op = op
    /\ task' = [task EXCEPT ![req[r].task] = row]
    /\ req' = [req EXCEPT ![r] = Committed(@, pc)]
    /\ UNCHANGED <<report, marked, autoNotices>>

Now(r)  == task[req[r].task]
Seen(r) == req[r].taskSeen

StartTask(r)      == CommitTask(r, "start_task", Start(Now(r), Seen(r)), "ensure")
CompleteTask(r)   == CommitTask(r, "complete_task", Complete(Now(r), Seen(r)), "ensure")
SubmitFeedback(r) == CommitTask(r, "submit_feedback", Complete(Now(r), Seen(r)), "ok")
FailTask(r)       == CommitTask(r, "fail_task", Fail(Now(r), Seen(r)), "ok")
HoldTask(r)       == CommitTask(r, "hold_task", Hold(Now(r), Seen(r)), "ok")
ResumeTask(r)     == CommitTask(r, "resume_task", Resume(Now(r), Seen(r)), "ok")

Refreshed(q, row, pc) == [q EXCEPT !.taskSeen = row, !.pc = pc]
Created(q, p)         == [q EXCEPT !.pc = "notify", !.created = TRUE, !.report = p]

\* Slip: a completed task is thought to need no report.
EnsureReportOfOpenTask(r) ==
    LET t == req[r].task IN
    /\ req[r].pc = "ensure"
    /\ req' = [req EXCEPT ![r] =
                 Refreshed(@, task[t], IF \/ task[t].type = RHS \/ task[t].status = "completed"
                                          \/ ActiveReports(t) # {}
                                       THEN "notify" ELSE "insert")]
    /\ UNCHANGED <<task, report, marked, autoNotices>>

\* session.refresh(task), then the first half of _ensure_auto_report_for_task.
EnsureReport(r) ==
    LET t == req[r].task IN
    /\ req[r].pc = "ensure"
    /\ req' = [req EXCEPT ![r] =
                 Refreshed(@, task[t], IF task[t].type = RHS \/ ActiveReports(t) # {}
                                       THEN "notify" ELSE "insert")]
    /\ UNCHANGED <<task, report, marked, autoNotices>>

\* Slip: the task's type stored where the report's belongs.
NewReportOfTaskType(t, ty, s, k) ==
    [NoReportRow EXCEPT !.life = "live", !.task = t, !.type = RoutineMaintenance,
                        !.status = s, !.technician = k]

NewReport(t, ty, s, k) == [NoReportRow EXCEPT !.life = "live", !.task = t, !.type = ty,
                                              !.status = s, !.technician = k]

\* Its second half: insert and commit, where the index may refuse the row.
InsertReport(r) ==
    LET t == req[r].task IN
    /\ req[r].pc = "insert"
    /\ \/ /\ ActiveReportIndex /\ ActiveReports(t) # {}
          /\ req' = [req EXCEPT ![r] = At(@, "reread")]
          /\ UNCHANGED report
       \/ /\ ~(ActiveReportIndex /\ ActiveReports(t) # {})
          /\ \E p \in Reports, ty \in ReportTypes :
                /\ report[p].life = "unused"
                /\ report' = [report EXCEPT ![p] =
                     [NewReport(t, ty, "pending", Seen(r).technician) EXCEPT !.auto = TRUE]]
                /\ req' = [req EXCEPT ![r] = Created(@, p)]
    /\ UNCHANGED <<task, marked, autoNotices>>

\* Slip: the conflict is raised without a second look.
RereadReportNever(r) ==
    /\ req[r].pc = "reread"
    /\ req' = [req EXCEPT ![r] = At(@, "conflict")]
    /\ UNCHANGED <<task, report, marked, autoNotices>>

\* The IntegrityError handler: rollback, look again, re-raise if there is none.
RereadReport(r) ==
    /\ req[r].pc = "reread"
    /\ req' = [req EXCEPT ![r] = At(@, IF ActiveReports(req[r].task) # {}
                                       THEN "notify" ELSE "conflict")]
    /\ UNCHANGED <<task, report, marked, autoNotices>>

TellTechnician(p) == autoNotices' = [autoNotices EXCEPT ![p] = IF @ = 2 THEN 2 ELSE @ + 1]

\* Slip: complete_task tells the technician here and once more when it self-heals.
NotifyAnyCreation(r) ==
    /\ req[r].pc = "notify"
    /\ IF req[r].created THEN TellTechnician(req[r].report) ELSE UNCHANGED autoNotices
    /\ req' = [req EXCEPT ![r] = At(@, IF req[r].op = "complete_task" /\ req[r].created
                                       THEN "selfHeal" ELSE "ok")]
    /\ UNCHANGED <<task, report, marked>>

\* start_task reads the active report again and takes its report_type, so
\* without one the handler fails; complete_task keeps the report it was given
\* and tells the technician in a commit of its own.
Notify(r) ==
    LET lost == /\ req[r].op = "start_task" /\ req[r].created
                /\ ActiveReports(req[r].task) = {} IN
    /\ req[r].pc = "notify"
    /\ \/ /\ req[r].op = "start_task" /\ req[r].created /\ ~lost
          /\ TellTechnician(req[r].report)
       \/ /\ ~(req[r].op = "start_task" /\ req[r].created /\ ~lost)
          /\ UNCHANGED autoNotices
    /\ req' = [req EXCEPT ![r] = At(@,
                 IF lost THEN "error"
                 ELSE IF req[r].op = "complete_task" /\ req[r].created THEN "selfHeal"
                 ELSE "ok")]
    /\ UNCHANGED <<task, report, marked>>

NotifySelfHeal(r) ==
    /\ req[r].pc = "selfHeal"
    /\ TellTechnician(req[r].report)
    /\ req' = [req EXCEPT ![r] = At(@, "ok")]
    /\ UNCHANGED <<task, report, marked>>
-----------------------------------------------------------------------------
(* services/report.py *)

\* ReportCreate has no status; the task is only a foreign key.
CreateReport(p, t) ==
    /\ report[p].life = "unused" /\ task[t].life # "unused"
    /\ ActiveReportIndex => ActiveReports(t) = {}
    /\ \E ty \in ReportTypes, k \in Technicians :
          report' = [report EXCEPT ![p] = NewReport(t, ty, "pending", k)]
    /\ UNCHANGED <<task, marked, autoNotices, req>>

\* Slip: the retry starts to count again.
LoadedReportAfresh(op, p, s, n) ==
    [NoRequest EXCEPT !.pc = "loaded", !.op = op, !.report = p, !.task = report[p].task,
                      !.reportSeen = report[p], !.taskSeen = task[report[p].task],
                      !.status = s]

LoadedReport(op, p, s, n) ==
    [NoRequest EXCEPT !.pc = "loaded", !.op = op, !.report = p, !.task = report[p].task,
                      !.reportSeen = report[p], !.taskSeen = task[report[p].task],
                      !.status = s, !.tries = n]

\* _get_report; an update that changes nothing returns at once.
LoadReport(r, op, p) ==
    /\ req[r].pc = "idle"
    /\ report[p].life = "live"
    /\ \E s \in ReportStatuses :
          /\ IF op = "update_report" THEN s # report[p].status ELSE s = "pending"
          /\ req' = [req EXCEPT ![r] = LoadedReport(op, p, s, 0)]
    /\ UNCHANGED <<task, report, marked, autoNotices>>

\* Slip: the row goes back as it was read, with its new status.
SetWholeRow(r, s) ==
    report' = [report EXCEPT ![req[r].report] = [req[r].reportSeen EXCEPT !.status = s]]

SetStatus(r, s) ==
    report' = [report EXCEPT ![req[r].report].status =
                 Written(@, req[r].reportSeen.status, s)]

StartReport(r) ==
    /\ req[r].pc = "loaded" /\ req[r].op = "start_report"
    /\ SetStatus(r, "started")
    /\ req' = [req EXCEPT ![r] = Committed(@, "ok")]
    /\ UNCHANGED <<task, marked, autoNotices>>

UpdateReport(r) ==
    /\ req[r].pc = "loaded" /\ req[r].op = "update_report"
    /\ SetStatus(r, req[r].status)
    /\ req' = [req EXCEPT ![r] = Committed(@, "ok")]
    /\ UNCHANGED <<task, marked, autoNotices>>

\* lock_timeout or statement_timeout strikes at the commit.
LockTimeout(r) ==
    /\ req[r].pc = "loaded" /\ req[r].op = "update_report"
    /\ req' = [req EXCEPT ![r] = At(@, IF req[r].tries < MaxLockRetries THEN "retry"
                                       ELSE "conflict")]
    /\ UNCHANGED <<task, report, marked, autoNotices>>

\* After the backoff the loop starts again from _get_report.
RetryUpdate(r) ==
    LET p == req[r].report IN
    /\ req[r].pc = "retry"
    /\ req' = [req EXCEPT ![r] =
                 IF report[p].life = "live" /\ report[p].status # req[r].status
                 THEN LoadedReport("update_report", p, req[r].status, req[r].tries + 1)
                 ELSE At(@, IF report[p].life = "live" THEN "ok" ELSE "error")]
    /\ UNCHANGED <<task, report, marked, autoNotices>>

\* complete_report with _complete_field_work_context, in one commit.  Whether
\* an active schedule matches the technician is the schedules' affair.
CompleteReport(r) ==
    LET p == req[r].report
        fieldWork == /\ Seen(r).type = RoutineMaintenance
                     /\ req[r].reportSeen.type \in FIELD_REPORT_SCHEDULE_TYPES IN
    /\ req[r].pc = "loaded" /\ req[r].op = "complete_report"
    /\ SetStatus(r, "completed")
    /\ task' = IF fieldWork /\ Seen(r).status # "completed"
               THEN [task EXCEPT ![req[r].task] = Complete(@, Seen(r))] ELSE task
    /\ \/ fieldWork /\ marked' = marked \cup {p}
       \/ UNCHANGED marked
    /\ req' = [req EXCEPT ![r] = Committed(@, "ok")]
    /\ UNCHANGED autoNotices

\* delete_report with _delete_self_started_field_work_task, in one commit.
DeleteReport(r) ==
    LET ownTask == /\ req[r].reportSeen.status # "completed"
                   /\ Seen(r).type = RoutineMaintenance
                   /\ Seen(r).selfStarted
                   /\ Seen(r).technician = req[r].reportSeen.technician IN
    /\ req[r].pc = "loaded" /\ req[r].op = "delete_report"
    /\ report' = [report EXCEPT ![req[r].report] = SoftDeleted(@)]
    /\ task' = IF ownTask THEN [task EXCEPT ![req[r].task] = SoftDeleted(@)] ELSE task
    /\ req' = [req EXCEPT ![r] = Committed(@, "ok")]
    /\ UNCHANGED <<marked, autoNotices>>
-----------------------------------------------------------------------------
(* services/field_work.py: one commit for the task and its report. *)

FieldStart(t, p) ==
    /\ task[t].life = "unused" /\ report[p].life = "unused"
    /\ \E ty \in ReportTypes, k \in Technicians :
          /\ task' = [task EXCEPT ![t] =
                        [NewTask(RoutineMaintenance, "started", k) EXCEPT !.selfStarted = TRUE]]
          /\ report' = [report EXCEPT ![p] = NewReport(t, ty, "started", k)]
    /\ UNCHANGED <<marked, autoNotices, req>>

FieldSubmit(t, p) ==
    /\ task[t].life = "unused" /\ report[p].life = "unused"
    /\ \E ty \in ReportTypes, k \in Technicians :
          /\ task' = [task EXCEPT ![t] =
                        [NewTask(RoutineMaintenance, "completed", k) EXCEPT !.stamped = TRUE]]
          /\ report' = [report EXCEPT ![p] = NewReport(t, ty, "completed", k)]
    /\ marked' \in {marked, marked \cup {p}}
    /\ UNCHANGED <<autoNotices, req>>
-----------------------------------------------------------------------------
(* What the environment does to a request. *)

\* The answer reaches the client.
Reply(r) ==
    /\ req[r].pc \in Answers
    /\ req' = [req EXCEPT ![r] = NoRequest]
    /\ UNCHANGED <<task, report, marked, autoNotices>>

\* A commit or a read fails: rollback, then InternalServerErrorException.
DatabaseError(r) ==
    /\ req[r].pc \in Working
    /\ req' = [req EXCEPT ![r] = At(NoRequest, "error")]
    /\ UNCHANGED <<task, report, marked, autoNotices>>

\* The process dies; what was committed stays.
Crash(r) ==
    /\ req[r].pc \in Working
    /\ req' = [req EXCEPT ![r] = NoRequest]
    /\ UNCHANGED <<task, report, marked, autoNotices>>

\* What the thread of a request does next.
Proceed(r) ==
    \/ StartTask(r) \/ CompleteTask(r) \/ SubmitFeedback(r) \/ FailTask(r)
    \/ HoldTask(r) \/ ResumeTask(r)
    \/ EnsureReport(r) \/ InsertReport(r) \/ RereadReport(r) \/ Notify(r) \/ NotifySelfHeal(r)
    \/ StartReport(r) \/ UpdateReport(r) \/ LockTimeout(r) \/ RetryUpdate(r)
    \/ CompleteReport(r) \/ DeleteReport(r)
    \/ DatabaseError(r) \/ Reply(r)

Next ==
    \/ \E r \in Requests :
          \/ Proceed(r) \/ Crash(r)
          \/ \E t \in Tasks, op \in Operations \cap TaskOps : LoadTask(r, op, t)
          \/ \E p \in Reports, op \in Operations \cap ReportOps : LoadReport(r, op, p)
    \/ \E t \in Tasks :
          \/ CreateTask(t) \/ UpdateTask(t) \/ DeleteTask(t)
          \/ \E p \in Reports : CreateReport(p, t) \/ FieldStart(t, p) \/ FieldSubmit(t, p)

Spec == Init /\ [][Next]_vars

\* The thread pool runs every request it has accepted.
FairSpec == Spec /\ \A r \in Requests : WF_vars(Proceed(r))
-----------------------------------------------------------------------------
(* Properties. *)

\* A task on hold says since when (held_at), although start_task leaves a held task's
\* stamp behind and resume_task writes only the columns it saw set; and a completed
\* task says when (completed_at), although complete_task on a row it read as completed
\* does not write the status again.
OnHoldIsStamped == \A t \in Tasks : task[t].status = "on_hold" => task[t].held
CompletedIsStamped == \A t \in Tasks : task[t].status = "completed" => task[t].stamped

Stamped == OnHoldIsStamped /\ CompletedIsStamped

\* At most one active report for a task, however the handlers that create one
\* race: the rule _ensure_auto_report_for_task and scripts/0011 stand for.
OneActiveReport ==
    \A p, q \in Reports : /\ report[p].life = "live" /\ report[q].life = "live"
                          /\ report[p].task = report[q].task
                          => p = q

\* A schedule is only ever marked done for work whose task was completed:
\* complete_report and field work's submit do both in one commit, and the task
\* it found completed needs no write (_complete_field_work_context).
MarkedWorkWasCompleted ==
    \A p \in marked : report[p].task \in Tasks /\ task[report[p].task].stamped

\* Past _ensure_auto_report_for_task a start or completion of a task that is not RHS
\* has a report, created by this request or by the one that beat it; and the lost race
\* surfaces as 409 only if the winner's report was deleted before the loser looked again.
EnsuredHasReport ==
    \A r \in Requests :
        /\ req[r].op \in {"start_task", "complete_task"}
        /\ req[r].pc \in {"notify", "selfHeal", "ok"}
        /\ req[r].taskSeen.type # RHS
        => \E p \in Reports : report[p].life # "unused" /\ report[p].task = req[r].task

ConflictMeansDeleted ==
    \A r \in Requests :
        /\ req[r].op \in {"start_task", "complete_task"}
        /\ req[r].pc = "conflict"
        => \E p \in Reports : report[p].life = "deleted" /\ report[p].task = req[r].task

EnsureTellsTruth == EnsuredHasReport /\ ConflictMeansDeleted

\* The technician hears of an auto-created report at most once, and never of
\* one that was not auto-created.
AutoNoticeOnce ==
    \A p \in Reports : autoNotices[p] > 0 => autoNotices[p] = 1 /\ report[p].auto

\* A commit prepared from an older read never brings a deleted row back.
DeletionIsFinal ==
    [][/\ \A t \in Tasks : task[t].life = "deleted" => task'[t].life = "deleted"
       /\ \A p \in Reports : report[p].life = "deleted" => report'[p].life = "deleted"]_vars

\* Every accepted request is answered, or ends with its process: neither the
\* second look of a lost race nor the lock retries of update_report go on for ever.
RequestsEnd == \A r \in Requests : req[r].pc # "idle" ~> req[r].pc = "idle"

\* Claimed, and refuted by a run of their own.

\* "Handles uniqueness races if another process created the report first."
OneAutoReport ==
    \A p, q \in Reports : /\ report[p].life = "live" /\ report[q].life = "live"
                          /\ report[p].auto /\ report[q].auto
                          /\ report[p].task = report[q].task
                          => p = q

\* "Datacenter and POP reuse the exact same start/submit": completing the
\* report of self-started work completes its task, whatever the report type.
CompletingReportCompletesTask ==
    [][\A r \in Requests :
          /\ req[r].op = "complete_report" /\ req[r].pc = "loaded" /\ req'[r].pc = "ok"
          /\ req[r].taskSeen.selfStarted /\ req[r].taskSeen.type = RoutineMaintenance
          /\ req[r].taskSeen.status = "started" /\ task[req[r].task] = req[r].taskSeen
          => task'[req[r].task].status = "completed"]_vars
=============================================================================
