---------------------------- MODULE FieldWorkProofs ----------------------------
(***************************************************************************)
(* Type correctness and the safety of FieldWork for any number of tasks,   *)
(* reports, requests and technicians.                                      *)
(***************************************************************************)
EXTENDS FieldWork, TLAPS

\* A request at work names rows that exist in the tables `tasks' and `reports'.
RequestOK(q, tasks, reports) ==
    /\ q.pc = "loaded" => q.op \in TaskOps \cup ReportOps
    /\ q.pc \in Working \ {"retry"} => q.task \in Tasks /\ tasks[q.task].life # "unused"
    /\ q.pc = "loaded" /\ q.op \in ReportOps
          => /\ q.report \in Reports /\ reports[q.report].life # "unused"
             /\ reports[q.report].task = q.task
    /\ q.pc = "retry" => /\ q.report \in Reports /\ reports[q.report].life # "unused"
                         /\ q.tries < MaxLockRetries
    /\ q.created => q.report \in Reports
    /\ q.pc = "selfHeal" => q.created

RequestsOK == \A r \in Requests : RequestOK(req[r], task, report)

\* A report belongs to a task that was created.
ReportsHaveTasks ==
    \A p \in Reports : report[p].life # "unused"
        => report[p].task \in Tasks /\ task[report[p].task].life # "unused"

TypeInv == TypeOK /\ RequestsOK /\ ReportsHaveTasks

LEMMA RowTypes == /\ NoTaskRow \in TaskRow /\ NoReportRow \in ReportRow
                  /\ NoRequest \in Request
                  /\ \A s \in TaskRow : SoftDeleted(s) \in TaskRow
                  /\ \A s \in ReportRow : SoftDeleted(s) \in ReportRow
<1>1. NoTaskRow \in TaskRow
  BY DEF NoTaskRow, TaskRow, Life, TaskTypes, TaskStatuses
<1>2. NoReportRow \in ReportRow
  BY DEF NoReportRow, ReportRow, Life, ReportStatuses
<1>3. NoRequest \in Request
  BY <1>1, <1>2, ConstantsAssumption DEF NoRequest, Request, Steps, ReportStatuses
<1>4. \A s \in TaskRow : SoftDeleted(s) \in TaskRow
  BY DEF SoftDeleted, TaskRow, Life
<1>5. \A s \in ReportRow : SoftDeleted(s) \in ReportRow
  BY DEF SoftDeleted, ReportRow, Life
<1> QED
  BY <1>1, <1>2, <1>3, <1>4, <1>5

LEMMA MethodTypes ==
    ASSUME NEW now \in TaskRow, NEW seen \in TaskRow
    PROVE  /\ Start(now, seen) \in TaskRow /\ Start(now, seen).life = now.life
           /\ Fail(now, seen) \in TaskRow /\ Fail(now, seen).life = now.life
           /\ Complete(now, seen) \in TaskRow /\ Complete(now, seen).life = now.life
           /\ Hold(now, seen) \in TaskRow /\ Hold(now, seen).life = now.life
           /\ Resume(now, seen) \in TaskRow /\ Resume(now, seen).life = now.life
<1>1. \A s \in TaskStatuses : /\ [now EXCEPT !.status = s] \in TaskRow
                              /\ [now EXCEPT !.status = s].life = now.life
  BY DEF TaskRow
<1>2. /\ Written(now.status, seen.status, "started") \in TaskStatuses
      /\ Written(now.status, seen.status, "failed") \in TaskStatuses
      /\ Written(now.status, seen.status, "completed") \in TaskStatuses
      /\ Written(now.status, seen.status, "on_hold") \in TaskStatuses
      /\ Written(now.held, seen.held, FALSE) \in BOOLEAN
  BY DEF Written, TaskRow, TaskStatuses
<1>3. \A s \in TaskStatuses : /\ [now EXCEPT !.status = s, !.stamped = TRUE] \in TaskRow
                              /\ [now EXCEPT !.status = s, !.stamped = TRUE].life = now.life
  BY DEF TaskRow
<1>4. \A s \in TaskStatuses, b \in BOOLEAN :
          /\ [now EXCEPT !.status = s, !.held = b] \in TaskRow
          /\ [now EXCEPT !.status = s, !.held = b].life = now.life
  BY DEF TaskRow
<1> QED
  BY <1>1, <1>2, <1>3, <1>4 DEF Start, Fail, Complete, Hold, Resume

\* The rows the handlers insert.
LEMMA NewRows ==
    \A k \in Technicians \cup {Null} :
        /\ \A ty \in TaskTypes, st \in TaskStatuses :
              /\ NewTask(ty, st, k) \in TaskRow
              /\ NewTask(ty, st, k).life = "live" /\ NewTask(ty, st, k).status = st
        /\ \A t \in Tasks, ty \in ReportTypes, st \in ReportStatuses :
              /\ NewReport(t, ty, st, k) \in ReportRow
              /\ NewReport(t, ty, st, k).life = "live" /\ NewReport(t, ty, st, k).task = t
<1> SUFFICES ASSUME NEW k \in Technicians \cup {Null}
             PROVE  /\ \A ty \in TaskTypes, st \in TaskStatuses :
                          /\ NewTask(ty, st, k) \in TaskRow
                          /\ NewTask(ty, st, k).life = "live"
                          /\ NewTask(ty, st, k).status = st
                    /\ \A t \in Tasks, ty \in ReportTypes, st \in ReportStatuses :
                          /\ NewReport(t, ty, st, k) \in ReportRow
                          /\ NewReport(t, ty, st, k).life = "live"
                          /\ NewReport(t, ty, st, k).task = t
  OBVIOUS
<1>1. ASSUME NEW ty \in TaskTypes, NEW st \in TaskStatuses
      PROVE  /\ NewTask(ty, st, k) \in TaskRow
             /\ NewTask(ty, st, k).life = "live" /\ NewTask(ty, st, k).status = st
  BY DEF NewTask, NoTaskRow, TaskRow, Life
<1>2. ASSUME NEW t \in Tasks, NEW ty \in ReportTypes, NEW st \in ReportStatuses
      PROVE  /\ NewReport(t, ty, st, k) \in ReportRow
             /\ NewReport(t, ty, st, k).life = "live" /\ NewReport(t, ty, st, k).task = t
  BY DEF NewReport, NoReportRow, ReportRow, Life
<1> QED
  BY <1>1, <1>2

\* What the steps of a request change of it.
LEMMA AtStep ==
    ASSUME NEW q \in Request, NEW pc \in Steps
    PROVE  /\ At(q, pc) \in Request
           /\ At(q, pc).pc = pc /\ At(q, pc).op = q.op
           /\ At(q, pc).task = q.task /\ At(q, pc).report = q.report
           /\ At(q, pc).taskSeen = q.taskSeen /\ At(q, pc).reportSeen = q.reportSeen
           /\ At(q, pc).created = q.created /\ At(q, pc).tries = q.tries
  BY DEF At, Request

LEMMA CommittedStep ==
    ASSUME NEW q \in Request, NEW pc \in Steps
    PROVE  /\ Committed(q, pc) \in Request
           /\ Committed(q, pc).pc = pc /\ Committed(q, pc).op = q.op
           /\ Committed(q, pc).task = q.task /\ Committed(q, pc).report = q.report
           /\ Committed(q, pc).created = FALSE
<1>1. /\ Committed(q, pc).pc = pc /\ Committed(q, pc).op = q.op
      /\ Committed(q, pc).task = q.task /\ Committed(q, pc).report = q.report
      /\ Committed(q, pc).created = FALSE
  BY RowTypes DEF Committed, Request, NoRequest
<1>2. Committed(q, pc) \in Request
  BY RowTypes DEF Committed, Request
<1> QED
  BY <1>1, <1>2

LEMMA RefreshedStep ==
    ASSUME NEW q \in Request, NEW pc \in Steps, NEW row \in TaskRow
    PROVE  /\ Refreshed(q, row, pc) \in Request
           /\ Refreshed(q, row, pc).pc = pc /\ Refreshed(q, row, pc).op = q.op
           /\ Refreshed(q, row, pc).task = q.task /\ Refreshed(q, row, pc).report = q.report
           /\ Refreshed(q, row, pc).taskSeen = row
           /\ Refreshed(q, row, pc).created = q.created
  BY DEF Refreshed, Request

LEMMA CreatedStep ==
    ASSUME NEW q \in Request, NEW p \in Reports
    PROVE  /\ Created(q, p) \in Request
           /\ Created(q, p).pc = "notify" /\ Created(q, p).op = q.op
           /\ Created(q, p).task = q.task /\ Created(q, p).report = p
           /\ Created(q, p).taskSeen = q.taskSeen /\ Created(q, p).created = TRUE
  BY DEF Created, Request, Steps, Working

\* A request that has just loaded its rows.
LEMMA LoadedTaskStep ==
    ASSUME NEW op \in TaskOps, NEW t \in Tasks, NEW q, q = LoadedTask(op, t),
           task[t] \in TaskRow
    PROVE  /\ q \in Request
           /\ q.pc = "loaded" /\ q.op = op
           /\ q.task = t /\ q.taskSeen = task[t]
           /\ ~q.created
<1>1. q \in Request
  BY RowTypes DEF LoadedTask, Request, Steps, Working
<1>2. q.pc = "loaded" /\ q.op = op /\ q.task = t /\ q.taskSeen = task[t] /\ ~q.created
  BY DEF LoadedTask, NoRequest
<1> QED
  BY <1>1, <1>2

LEMMA LoadedReportStep ==
    ASSUME NEW op \in ReportOps, NEW p \in Reports, NEW st \in ReportStatuses,
           NEW n \in 0..MaxLockRetries, NEW q, q = LoadedReport(op, p, st, n),
           report[p] \in ReportRow, report[p].task \in Tasks,
           task[report[p].task] \in TaskRow
    PROVE  /\ q \in Request
           /\ q.pc = "loaded" /\ q.op = op /\ q.report = p
           /\ q.task = report[p].task /\ q.taskSeen = task[report[p].task]
           /\ q.reportSeen = report[p]
           /\ ~q.created
<1>1. q \in Request
  BY RowTypes DEF LoadedReport, Request, Steps, Working
<1>2. /\ q.pc = "loaded" /\ q.op = op /\ q.report = p
      /\ q.task = report[p].task /\ q.taskSeen = task[report[p].task]
      /\ q.reportSeen = report[p]
      /\ ~q.created
  BY DEF LoadedReport, NoRequest
<1> QED
  BY <1>1, <1>2

\* Rows are only ever added or changed in place, so what a waiting request
\* names stays there.
RowsGrow ==
    /\ \A t \in Tasks : task[t].life # "unused" => task'[t].life # "unused"
    /\ \A p \in Reports : report[p].life # "unused"
          => report'[p].life # "unused" /\ report'[p].task = report[p].task

LEMMA Frame ==
    ASSUME RowsGrow, NEW q \in Request, RequestOK(q, task, report)
    PROVE  RequestOK(q, task', report')
  BY DEF RowsGrow, RequestOK

LEMMA FrameOthers ==
    ASSUME TypeInv, RowsGrow, NEW r \in Requests, NEW q \in Request,
           req' = [req EXCEPT ![r] = q], RequestOK(q, task', report')
    PROVE  req' \in [Requests -> Request] /\ RequestsOK'
<1>1. \A o \in Requests \ {r} : req'[o] = req[o] /\ RequestOK(req[o], task', report')
  BY Frame DEF TypeInv, TypeOK, RequestsOK
<1>2. req'[r] = q
  BY DEF TypeInv, TypeOK
<1> QED
  BY <1>1, <1>2 DEF TypeInv, TypeOK, RequestsOK

\* Rows written in place.
LEMMA RowEdits ==
    /\ \A s \in TaskRow, ty \in TaskTypes, k \in Technicians :
          /\ [s EXCEPT !.type = ty, !.technician = k] \in TaskRow
          /\ [s EXCEPT !.type = ty, !.technician = k].life = s.life
    /\ \A s \in TaskRow : /\ [s EXCEPT !.selfStarted = TRUE] \in TaskRow
                          /\ [s EXCEPT !.selfStarted = TRUE].life = s.life
                          /\ [s EXCEPT !.stamped = TRUE] \in TaskRow
                          /\ [s EXCEPT !.stamped = TRUE].life = s.life
                          /\ SoftDeleted(s).life = "deleted"
    /\ \A s \in ReportRow, st \in ReportStatuses :
          /\ [s EXCEPT !.status = st] \in ReportRow
          /\ [s EXCEPT !.status = st].life = s.life
          /\ [s EXCEPT !.status = st].task = s.task /\ [s EXCEPT !.status = st].auto = s.auto
    /\ \A s \in ReportRow : /\ [s EXCEPT !.auto = TRUE] \in ReportRow
                            /\ [s EXCEPT !.auto = TRUE].life = s.life
                            /\ [s EXCEPT !.auto = TRUE].task = s.task
                            /\ SoftDeleted(s).life = "deleted"
                            /\ SoftDeleted(s).task = s.task /\ SoftDeleted(s).auto = s.auto
<1>1. \A s \in TaskRow, ty \in TaskTypes, k \in Technicians :
          /\ [s EXCEPT !.type = ty, !.technician = k] \in TaskRow
          /\ [s EXCEPT !.type = ty, !.technician = k].life = s.life
  BY DEF TaskRow
<1>2. \A s \in TaskRow : /\ [s EXCEPT !.selfStarted = TRUE] \in TaskRow
                         /\ [s EXCEPT !.selfStarted = TRUE].life = s.life
                         /\ [s EXCEPT !.stamped = TRUE] \in TaskRow
                         /\ [s EXCEPT !.stamped = TRUE].life = s.life
                         /\ SoftDeleted(s).life = "deleted"
  BY DEF TaskRow, SoftDeleted
<1>3. \A s \in ReportRow, st \in ReportStatuses :
          /\ [s EXCEPT !.status = st] \in ReportRow
          /\ [s EXCEPT !.status = st].life = s.life
          /\ [s EXCEPT !.status = st].task = s.task /\ [s EXCEPT !.status = st].auto = s.auto
  BY DEF ReportRow
<1>4. \A s \in ReportRow : /\ [s EXCEPT !.auto = TRUE] \in ReportRow
                           /\ [s EXCEPT !.auto = TRUE].life = s.life
                           /\ [s EXCEPT !.auto = TRUE].task = s.task
                           /\ SoftDeleted(s).life = "deleted"
                           /\ SoftDeleted(s).task = s.task /\ SoftDeleted(s).auto = s.auto
  BY DEF ReportRow, SoftDeleted
<1> QED
  BY <1>1, <1>2, <1>3, <1>4

\* The frames of a step that writes no row, one task, or one report.
LEMMA WriteNoRow ==
    ASSUME TypeInv, UNCHANGED <<task, report>>
    PROVE  /\ task' \in [Tasks -> TaskRow] /\ report' \in [Reports -> ReportRow]
           /\ RowsGrow /\ ReportsHaveTasks'
  BY DEF TypeInv, TypeOK, RowsGrow, ReportsHaveTasks

LEMMA WriteTask ==
    ASSUME TypeInv, NEW t \in Tasks, NEW row \in TaskRow, row.life # "unused",
           task' = [task EXCEPT ![t] = row]
    PROVE  /\ task' \in [Tasks -> TaskRow]
           /\ task'[t] = row
           /\ \A o \in Tasks : task[o].life # "unused" => task'[o].life # "unused"
  BY DEF TypeInv, TypeOK

LEMMA WriteOnlyTask ==
    ASSUME TypeInv, task' \in [Tasks -> TaskRow],
           \A o \in Tasks : task[o].life # "unused" => task'[o].life # "unused",
           report' = report
    PROVE  report' \in [Reports -> ReportRow] /\ RowsGrow /\ ReportsHaveTasks'
  BY DEF TypeInv, TypeOK, RowsGrow, ReportsHaveTasks

LEMMA WriteReport ==
    ASSUME TypeInv, NEW p \in Reports, NEW row \in ReportRow, row.life # "unused",
           report' = [report EXCEPT ![p] = row],
           report[p].life # "unused" => row.task = report[p].task,
           task' \in [Tasks -> TaskRow],
           \A o \in Tasks : task[o].life # "unused" => task'[o].life # "unused",
           row.task \in Tasks, task'[row.task].life # "unused"
    PROVE  /\ report' \in [Reports -> ReportRow] /\ RowsGrow /\ ReportsHaveTasks'
<1>1. report'[p] = row /\ \A o \in Reports \ {p} : report'[o] = report[o]
  BY DEF TypeInv, TypeOK
<1>2. report' \in [Reports -> ReportRow]
  BY DEF TypeInv, TypeOK
<1>3. RowsGrow
  BY <1>1 DEF RowsGrow
<1>4. ReportsHaveTasks'
  BY <1>1 DEF TypeInv, ReportsHaveTasks
<1> QED
  BY <1>2, <1>3, <1>4

\* The type invariant is inductive.
LEMMA TypeInvInit == Init => TypeInv
<1> SUFFICES ASSUME Init PROVE TypeInv
  OBVIOUS
<1>1. TypeOK
  BY RowTypes DEF Init, TypeOK
<1>2. RequestsOK
  BY DEF Init, RequestsOK, RequestOK, NoRequest, Working
<1>3. ReportsHaveTasks
  BY DEF Init, ReportsHaveTasks, NoReportRow
<1> QED
  BY <1>1, <1>2, <1>3 DEF TypeInv

\* A request that has answered or went idle names nothing that must be there.
LEMMA RestingOK ==
    ASSUME NEW q, q.pc \in Answers \cup {"idle"}, q.created => q.report \in Reports
    PROVE  RequestOK(q, task', report')
  BY DEF RequestOK, Answers, Working

LEMMA CommitTaskStep ==
    ASSUME TypeInv, NEW r \in Requests, NEW op, NEW row \in TaskRow,
           NEW pc \in {"ensure", "ok"}, CommitTask(r, op, row, pc), row.life = Now(r).life
    PROVE  TypeInv'
<1> DEFINE q == req[r]
           t == req[r].task
<1>1. q \in Request /\ RequestOK(q, task, report) /\ q.pc = "loaded"
  BY DEF TypeInv, TypeOK, RequestsOK, CommitTask
<1>2. t \in Tasks /\ task[t].life # "unused"
  BY <1>1 DEF RequestOK, Working
<1>3. task' = [task EXCEPT ![t] = row] /\ report' = report /\ row.life # "unused"
  BY <1>2 DEF CommitTask, Now
<1>4. /\ task' \in [Tasks -> TaskRow] /\ task'[t] = row
      /\ \A o \in Tasks : task[o].life # "unused" => task'[o].life # "unused"
  BY <1>2, <1>3, WriteTask
<1>5. report' \in [Reports -> ReportRow] /\ RowsGrow /\ ReportsHaveTasks'
  BY <1>3, <1>4, WriteOnlyTask
<1>6. pc \in Steps
  BY DEF Steps, Working, Answers
<1>7. /\ Committed(q, pc) \in Request /\ Committed(q, pc).pc = pc
      /\ Committed(q, pc).task = t /\ Committed(q, pc).created = FALSE
  BY <1>1, <1>6, CommittedStep
<1>8. RequestOK(Committed(q, pc), task', report')
  BY <1>2, <1>3, <1>4, <1>7 DEF RequestOK
<1>9. req' = [req EXCEPT ![r] = Committed(q, pc)]
  BY DEF CommitTask
<1>10. req' \in [Requests -> Request] /\ RequestsOK'
  BY <1>5, <1>7, <1>8, <1>9, FrameOthers
<1> QED
  BY <1>4, <1>5, <1>10 DEF TypeInv, TypeOK, CommitTask

\* A step that only moves a request on.
LEMMA MoveStep ==
    ASSUME TypeInv, NEW r \in Requests, NEW q \in Request, RequestOK(q, task, report),
           UNCHANGED <<task, report, marked>>, autoNotices' \in [Reports -> 0..2],
           req' = [req EXCEPT ![r] = q]
    PROVE  TypeInv'
<1>1. /\ task' \in [Tasks -> TaskRow] /\ report' \in [Reports -> ReportRow]
      /\ RowsGrow /\ ReportsHaveTasks'
  BY WriteNoRow
<1>2. RequestOK(q, task', report')
  BY <1>1, Frame
<1>3. req' \in [Requests -> Request] /\ RequestsOK'
  BY <1>1, <1>2, FrameOthers
<1> QED
  BY <1>1, <1>3 DEF TypeInv, TypeOK

\* A step of no request in particular.
LEMMA RowStep ==
    ASSUME TypeInv, RowsGrow, ReportsHaveTasks', UNCHANGED <<autoNotices, req>>,
           task' \in [Tasks -> TaskRow], report' \in [Reports -> ReportRow],
           marked' \subseteq Reports
    PROVE  TypeInv'
<1>1. \A r \in Requests : RequestOK(req[r], task', report')
  BY Frame DEF TypeInv, TypeOK, RequestsOK
<1> QED
  BY <1>1 DEF TypeInv, TypeOK, RequestsOK

\* A step of request `r' that writes its report, and perhaps its task, and ends.
LEMMA CommitReportStep ==
    ASSUME TypeInv, NEW r \in Requests, req[r].pc = "loaded", req[r].op \in ReportOps,
           NEW row \in ReportRow, row.life # "unused",
           row.task = report[req[r].report].task,
           report' = [report EXCEPT ![req[r].report] = row],
           task' \in [Tasks -> TaskRow],
           \A o \in Tasks : task[o].life # "unused" => task'[o].life # "unused",
           marked' \subseteq Reports, UNCHANGED autoNotices,
           req' = [req EXCEPT ![r] = Committed(req[r], "ok")]
    PROVE  TypeInv'
<1> DEFINE q == req[r]
           p == req[r].report
<1>1. q \in Request /\ RequestOK(q, task, report)
  BY DEF TypeInv, TypeOK, RequestsOK
<1>2. p \in Reports /\ report[p].life # "unused"
  BY <1>1 DEF RequestOK
<1>3. row.task \in Tasks /\ task[row.task].life # "unused"
  BY <1>2 DEF TypeInv, ReportsHaveTasks
<1>4. report' \in [Reports -> ReportRow] /\ RowsGrow /\ ReportsHaveTasks'
  BY <1>2, <1>3, WriteReport
<1>5. /\ Committed(q, "ok") \in Request /\ Committed(q, "ok").pc = "ok"
      /\ Committed(q, "ok").created = FALSE
  BY <1>1, CommittedStep DEF Steps, Answers
<1>6. RequestOK(Committed(q, "ok"), task', report')
  BY <1>5, RestingOK DEF Answers
<1>7. req' \in [Requests -> Request] /\ RequestsOK'
  BY <1>4, <1>5, <1>6, FrameOthers
<1> QED
  BY <1>4, <1>7 DEF TypeInv, TypeOK

LEMMA AtWork ==
    ASSUME TypeInv, NEW r \in Requests, req[r].pc \in Working \ {"retry"}
    PROVE  /\ req[r] \in Request /\ RequestOK(req[r], task, report)
           /\ req[r].task \in Tasks /\ task[req[r].task].life # "unused"
           /\ Now(r) \in TaskRow /\ Seen(r) \in TaskRow /\ Now(r).life # "unused"
<1>1. req[r] \in Request /\ RequestOK(req[r], task, report)
  BY DEF TypeInv, TypeOK, RequestsOK
<1>2. req[r].task \in Tasks /\ task[req[r].task].life # "unused"
  BY <1>1 DEF RequestOK
<1> QED
  BY <1>1, <1>2 DEF TypeInv, TypeOK, Now, Seen, Request

LEMMA SetStatusRow ==
    ASSUME TypeInv, NEW r \in Requests, req[r].pc = "loaded", req[r].op \in ReportOps,
           NEW s \in ReportStatuses
    PROVE  \E row \in ReportRow :
              /\ row.life # "unused" /\ row.life = report[req[r].report].life
              /\ row.task = report[req[r].report].task /\ row.auto = report[req[r].report].auto
              /\ SetStatus(r, s) => report' = [report EXCEPT ![req[r].report] = row]
<1> DEFINE p  == req[r].report
           st == Written(report[p].status, req[r].reportSeen.status, s)
<1>1. p \in Reports /\ report[p].life # "unused"
  BY AtWork DEF RequestOK, Working
<1>2. report[p] \in ReportRow /\ st \in ReportStatuses
  BY <1>1 DEF TypeInv, TypeOK, Written, ReportRow
<1> DEFINE row == [report[p] EXCEPT !.status = st]
<1>3. /\ row \in ReportRow /\ row.life = report[p].life /\ row.task = report[p].task
      /\ row.auto = report[p].auto
  BY <1>2, RowEdits
<1>4. SetStatus(r, s) => report' = [report EXCEPT ![p] = row]
  BY DEF SetStatus
<1> QED
  BY <1>1, <1>3, <1>4

LEMMA TypeInvNext == TypeInv /\ [Next]_vars => TypeInv'
<1> SUFFICES ASSUME TypeInv, [Next]_vars PROVE TypeInv'
  OBVIOUS
<1>1. CASE UNCHANGED vars
  <2>1. RowsGrow /\ ReportsHaveTasks'
    BY <1>1, WriteNoRow DEF vars
  <2> QED
    BY <1>1, <2>1, RowStep DEF vars, TypeInv, TypeOK
<1>2. ASSUME NEW t \in Tasks, CreateTask(t) PROVE TypeInv'
  <2>1. PICK ty \in TaskTypes, k \in Technicians :
           task' = [task EXCEPT ![t] = NewTask(ty, "pending", k)]
    BY <1>2 DEF CreateTask
  <2>2. NewTask(ty, "pending", k) \in TaskRow /\ NewTask(ty, "pending", k).life # "unused"
    BY NewRows DEF TaskStatuses
  <2>3. /\ task' \in [Tasks -> TaskRow]
        /\ \A o \in Tasks : task[o].life # "unused" => task'[o].life # "unused"
    BY <2>1, <2>2, WriteTask
  <2>4. report' \in [Reports -> ReportRow] /\ RowsGrow /\ ReportsHaveTasks'
    BY <1>2, <2>3, WriteOnlyTask DEF CreateTask
  <2> QED
    BY <1>2, <2>3, <2>4, RowStep DEF CreateTask, TypeInv, TypeOK
<1>3. ASSUME NEW t \in Tasks, UpdateTask(t) PROVE TypeInv'
  <2>1. PICK ty \in TaskTypes, k \in Technicians :
           task' = [task EXCEPT ![t] = [task[t] EXCEPT !.type = ty, !.technician = k]]
    BY <1>3 DEF UpdateTask
  <2>a. PICK row : row = [task[t] EXCEPT !.type = ty, !.technician = k]
    OBVIOUS
  <2>b. task[t] \in TaskRow /\ task[t].life = "live" /\ task' = [task EXCEPT ![t] = row]
    BY <1>3, <2>1, <2>a DEF UpdateTask, TypeInv, TypeOK
  <2>2. row \in TaskRow /\ row.life # "unused"
    BY <2>a, <2>b DEF TaskRow
  <2>3. /\ task' \in [Tasks -> TaskRow]
        /\ \A o \in Tasks : task[o].life # "unused" => task'[o].life # "unused"
    BY <2>b, <2>2, WriteTask
  <2>4. report' \in [Reports -> ReportRow] /\ RowsGrow /\ ReportsHaveTasks'
    BY <1>3, <2>3, WriteOnlyTask DEF UpdateTask
  <2> QED
    BY <1>3, <2>3, <2>4, RowStep DEF UpdateTask, TypeInv, TypeOK
<1>4. ASSUME NEW t \in Tasks, DeleteTask(t) PROVE TypeInv'
  <2>2. SoftDeleted(task[t]) \in TaskRow /\ SoftDeleted(task[t]).life # "unused"
    BY RowTypes, RowEdits DEF TypeInv, TypeOK
  <2>3. /\ task' \in [Tasks -> TaskRow]
        /\ \A o \in Tasks : task[o].life # "unused" => task'[o].life # "unused"
    BY <1>4, <2>2, WriteTask DEF DeleteTask
  <2>4. report' \in [Reports -> ReportRow] /\ RowsGrow /\ ReportsHaveTasks'
    BY <1>4, <2>3, WriteOnlyTask DEF DeleteTask
  <2> QED
    BY <1>4, <2>3, <2>4, RowStep DEF DeleteTask, TypeInv, TypeOK
<1>5. ASSUME NEW r \in Requests, NEW t \in Tasks, NEW op \in TaskOps, LoadTask(r, op, t)
      PROVE  TypeInv'
  <2>1. PICK q : q = LoadedTask(op, t)
    OBVIOUS
  <2>2. task[t] \in TaskRow
    BY DEF TypeInv, TypeOK
  <2>3. q \in Request /\ q.pc = "loaded" /\ q.op = op /\ q.task = t /\ ~q.created
    BY <2>1, <2>2, LoadedTaskStep
  <2>4. RequestOK(q, task, report)
    BY <1>5, <2>3 DEF RequestOK, LoadTask, TaskOps, ReportOps
  <2> QED
    BY <1>5, <2>1, <2>3, <2>4, MoveStep DEF LoadTask, TypeInv, TypeOK
<1>a. ASSUME NEW r \in Requests, NEW op, NEW row, NEW pc, CommitTask(r, op, row, pc)
      PROVE  Now(r) \in TaskRow /\ Seen(r) \in TaskRow
  BY <1>a, AtWork DEF CommitTask, Working
<1>6. ASSUME NEW r \in Requests, StartTask(r) PROVE TypeInv'
  BY <1>a, <1>6, MethodTypes, CommitTaskStep DEF StartTask
<1>7. ASSUME NEW r \in Requests, CompleteTask(r) PROVE TypeInv'
  BY <1>a, <1>7, MethodTypes, CommitTaskStep DEF CompleteTask
<1>8. ASSUME NEW r \in Requests, SubmitFeedback(r) PROVE TypeInv'
  BY <1>a, <1>8, MethodTypes, CommitTaskStep DEF SubmitFeedback
<1>9. ASSUME NEW r \in Requests, FailTask(r) PROVE TypeInv'
  BY <1>a, <1>9, MethodTypes, CommitTaskStep DEF FailTask
<1>10. ASSUME NEW r \in Requests, HoldTask(r) PROVE TypeInv'
  BY <1>a, <1>10, MethodTypes, CommitTaskStep DEF HoldTask
<1>11. ASSUME NEW r \in Requests, ResumeTask(r) PROVE TypeInv'
  BY <1>a, <1>11, MethodTypes, CommitTaskStep DEF ResumeTask
<1>12. ASSUME NEW r \in Requests, EnsureReport(r) PROVE TypeInv'
  <2> DEFINE t  == req[r].task
             pc == IF task[t].type = RHS \/ ActiveReports(t) # {} THEN "notify" ELSE "insert"
  <2>1. /\ req[r] \in Request /\ RequestOK(req[r], task, report)
        /\ t \in Tasks /\ task[t] \in TaskRow /\ task[t].life # "unused"
    BY <1>12, AtWork DEF EnsureReport, Working, Now
  <2>2. pc \in Steps /\ pc \in {"notify", "insert"}
    BY DEF Steps, Working
  <2>3. /\ Refreshed(req[r], task[t], pc) \in Request
        /\ Refreshed(req[r], task[t], pc).pc = pc
        /\ Refreshed(req[r], task[t], pc).task = t
        /\ Refreshed(req[r], task[t], pc).report = req[r].report
        /\ Refreshed(req[r], task[t], pc).created = req[r].created
    BY <2>1, <2>2, RefreshedStep
  <2>4. RequestOK(Refreshed(req[r], task[t], pc), task, report)
    BY <2>1, <2>2, <2>3 DEF RequestOK
  <2>5. req' = [req EXCEPT ![r] = Refreshed(req[r], task[t], pc)]
    BY <1>12 DEF EnsureReport
  <2> QED
    BY <1>12, <2>3, <2>4, <2>5, MoveStep DEF EnsureReport, TypeInv, TypeOK
<1>13. ASSUME NEW r \in Requests, InsertReport(r) PROVE TypeInv'
  <2> DEFINE t    == req[r].task
             lost == ActiveReportIndex /\ ActiveReports(t) # {}
  <2>1. /\ req[r] \in Request /\ RequestOK(req[r], task, report)
        /\ t \in Tasks /\ task[t].life # "unused" /\ Seen(r) \in TaskRow
    BY <1>13, AtWork DEF InsertReport, Working
  <2>2. CASE lost
    <3>1. req' = [req EXCEPT ![r] = At(req[r], "reread")] /\ UNCHANGED report
      BY <1>13, <2>2 DEF InsertReport
    <3>2. "reread" \in Steps
      BY DEF Steps, Working
    <3>3. At(req[r], "reread") \in Request
          /\ RequestOK(At(req[r], "reread"), task, report)
      BY <1>13, <2>1, <3>2, AtStep DEF RequestOK, Working
    <3> QED
      BY <1>13, <3>1, <3>3, MoveStep DEF InsertReport, TypeInv, TypeOK
  <2>3. CASE ~lost
    <3>1. PICK p \in Reports, ty \in ReportTypes :
             /\ report[p].life = "unused"
             /\ report' = [report EXCEPT ![p] =
                  [NewReport(t, ty, "pending", Seen(r).technician) EXCEPT !.auto = TRUE]]
             /\ req' = [req EXCEPT ![r] = Created(req[r], p)]
      BY <1>13, <2>3 DEF InsertReport
    <3> DEFINE new == NewReport(t, ty, "pending", Seen(r).technician)
               row == [new EXCEPT !.auto = TRUE]
    <3>2. Seen(r).technician \in Technicians \cup {Null}
      BY <2>1 DEF TaskRow
    <3>3. new \in ReportRow /\ new.life = "live" /\ new.task = t
      BY <2>1, <3>2, NewRows DEF ReportStatuses
    <3>4. row \in ReportRow /\ row.life = "live" /\ row.task = t
      BY <3>3, RowEdits
    <3>5. task' = task
      BY <1>13 DEF InsertReport
    <3>6. report' \in [Reports -> ReportRow] /\ RowsGrow /\ ReportsHaveTasks'
      BY <2>1, <3>1, <3>4, <3>5, WriteReport DEF TypeInv, TypeOK
    <3>7. /\ Created(req[r], p) \in Request /\ Created(req[r], p).pc = "notify"
          /\ Created(req[r], p).task = t /\ Created(req[r], p).report = p
      BY <2>1, CreatedStep
    <3>8. RequestOK(Created(req[r], p), task', report')
      BY <2>1, <3>5, <3>7 DEF RequestOK
    <3>9. req' \in [Requests -> Request] /\ RequestsOK'
      BY <3>1, <3>6, <3>7, <3>8, FrameOthers
    <3> QED
      BY <1>13, <3>5, <3>6, <3>9 DEF InsertReport, TypeInv, TypeOK
  <2> QED
    BY <2>2, <2>3
<1>14. ASSUME NEW r \in Requests, NEW pc \in {"notify", "selfHeal", "retry"} \cup Answers,
              req[r].pc \in Working \ {"retry"},
              pc = "selfHeal" => req[r].created,
              pc = "retry" => /\ req[r].pc = "loaded" /\ req[r].op \in ReportOps
                              /\ req[r].tries < MaxLockRetries,
              req' = [req EXCEPT ![r] = At(req[r], pc)],
              UNCHANGED <<task, report, marked>>, autoNotices' \in [Reports -> 0..2]
       PROVE  TypeInv'
  <2>1. /\ req[r] \in Request /\ RequestOK(req[r], task, report)
        /\ req[r].task \in Tasks /\ task[req[r].task].life # "unused"
    BY <1>14, AtWork
  <2>2. pc \in Steps
    BY DEF Steps, Working
  <2>3. /\ At(req[r], pc) \in Request /\ At(req[r], pc).pc = pc
        /\ At(req[r], pc).op = req[r].op /\ At(req[r], pc).task = req[r].task
        /\ At(req[r], pc).report = req[r].report /\ At(req[r], pc).tries = req[r].tries
        /\ At(req[r], pc).created = req[r].created
    BY <2>1, <2>2, AtStep
  <2>4. RequestOK(At(req[r], pc), task, report)
    BY <1>14, <2>1, <2>3 DEF RequestOK, Answers
  <2> QED
    BY <1>14, <2>3, <2>4, MoveStep
<1>15. ASSUME NEW r \in Requests, RereadReport(r) PROVE TypeInv'
  <2> DEFINE pc == IF ActiveReports(req[r].task) # {} THEN "notify" ELSE "conflict"
  <2>1. /\ pc \in {"notify", "selfHeal", "retry"} \cup Answers
        /\ pc # "selfHeal" /\ pc # "retry"
    BY DEF Answers
  <2>2. /\ req' = [req EXCEPT ![r] = At(req[r], pc)] /\ req[r].pc \in Working \ {"retry"}
        /\ UNCHANGED <<task, report, marked, autoNotices>>
    BY <1>15 DEF RereadReport, Working
  <2> QED
    BY <1>14, <2>1, <2>2 DEF TypeInv, TypeOK
<1>16. \A p \in Reports : TellTechnician(p) => autoNotices' \in [Reports -> 0..2]
  BY DEF TellTechnician, TypeInv, TypeOK
<1>17. ASSUME NEW r \in Requests, Notify(r) PROVE TypeInv'
  <2> DEFINE lost == /\ req[r].op = "start_task" /\ req[r].created
                     /\ ActiveReports(req[r].task) = {}
             pc   == IF lost THEN "error"
                     ELSE IF req[r].op = "complete_task" /\ req[r].created THEN "selfHeal"
                     ELSE "ok"
  <2>1. req[r].created => req[r].report \in Reports
    BY DEF TypeInv, RequestsOK, RequestOK
  <2>2. autoNotices' \in [Reports -> 0..2]
    BY <1>16, <1>17, <2>1 DEF Notify, TypeInv, TypeOK
  <2>3. /\ pc \in {"notify", "selfHeal", "retry"} \cup Answers
        /\ pc = "selfHeal" => req[r].created
        /\ pc # "retry"
    BY DEF Answers
  <2>4. req' = [req EXCEPT ![r] = At(req[r], pc)] /\ req[r].pc = "notify"
        /\ UNCHANGED <<task, report, marked>>
    BY <1>17 DEF Notify
  <2> QED
    BY <1>14, <2>2, <2>3, <2>4 DEF Working
<1>18. ASSUME NEW r \in Requests, NotifySelfHeal(r) PROVE TypeInv'
  <2>1. req[r].report \in Reports
    BY <1>18 DEF NotifySelfHeal, TypeInv, RequestsOK, RequestOK
  <2> QED
    BY <1>14, <1>16, <1>18, <2>1 DEF NotifySelfHeal, Working, Answers
<1>19. ASSUME NEW p \in Reports, NEW t \in Tasks, CreateReport(p, t) PROVE TypeInv'
  <2>1. PICK ty \in ReportTypes, k \in Technicians :
           report' = [report EXCEPT ![p] = NewReport(t, ty, "pending", k)]
    BY <1>19 DEF CreateReport
  <2>2. /\ NewReport(t, ty, "pending", k) \in ReportRow
        /\ NewReport(t, ty, "pending", k).life # "unused"
        /\ NewReport(t, ty, "pending", k).task = t
    BY NewRows DEF ReportStatuses
  <2>3. report[p].life = "unused" /\ task[t].life # "unused" /\ task' = task
    BY <1>19 DEF CreateReport
  <2>4. report' \in [Reports -> ReportRow] /\ RowsGrow /\ ReportsHaveTasks'
    BY <2>1, <2>2, <2>3, WriteReport DEF TypeInv, TypeOK
  <2> QED
    BY <1>19, <2>4, RowStep DEF CreateReport, TypeInv, TypeOK
<1>20. ASSUME NEW r \in Requests, NEW p \in Reports, NEW op \in ReportOps, LoadReport(r, op, p)
       PROVE  TypeInv'
  <2>1. PICK s \in ReportStatuses : req' = [req EXCEPT ![r] = LoadedReport(op, p, s, 0)]
    BY <1>20 DEF LoadReport
  <2>2. PICK q : q = LoadedReport(op, p, s, 0)
    OBVIOUS
  <2>3. /\ report[p].life # "unused" /\ 0 \in 0..MaxLockRetries
        /\ report[p].task \in Tasks /\ task[report[p].task].life # "unused"
    BY <1>20, ConstantsAssumption DEF LoadReport, TypeInv, ReportsHaveTasks
  <2>4. report[p] \in ReportRow /\ task[report[p].task] \in TaskRow
    BY <2>3 DEF TypeInv, TypeOK
  <2>5. /\ q \in Request /\ q.pc = "loaded" /\ q.op = op /\ q.report = p
        /\ q.task = report[p].task /\ ~q.created
    BY <2>2, <2>3, <2>4, LoadedReportStep
  <2>6. RequestOK(q, task, report)
    BY <2>3, <2>5 DEF RequestOK
  <2> QED
    BY <1>20, <2>1, <2>2, <2>5, <2>6, MoveStep DEF LoadReport, TypeInv, TypeOK
<1>21. ASSUME NEW r \in Requests, StartReport(r) PROVE TypeInv'
  <2>1. PICK row \in ReportRow :
              /\ row.life # "unused" /\ row.task = report[req[r].report].task
              /\ SetStatus(r, "started") => report' = [report EXCEPT ![req[r].report] = row]
    BY <1>21, SetStatusRow DEF StartReport, ReportOps, ReportStatuses
  <2> QED
    BY <1>21, <2>1, CommitReportStep DEF StartReport, ReportOps, TypeInv, TypeOK
<1>22. ASSUME NEW r \in Requests, UpdateReport(r) PROVE TypeInv'
  <2>1. req[r].status \in ReportStatuses
    BY DEF TypeInv, TypeOK, Request
  <2>2. PICK row \in ReportRow :
              /\ row.life # "unused" /\ row.task = report[req[r].report].task
              /\ SetStatus(r, req[r].status)
                    => report' = [report EXCEPT ![req[r].report] = row]
    BY <1>22, <2>1, SetStatusRow DEF UpdateReport, ReportOps
  <2> QED
    BY <1>22, <2>2, CommitReportStep DEF UpdateReport, ReportOps, TypeInv, TypeOK
<1>23. ASSUME NEW r \in Requests, LockTimeout(r) PROVE TypeInv'
  <2> DEFINE pc == IF req[r].tries < MaxLockRetries THEN "retry" ELSE "conflict"
  <2>1. /\ pc \in {"notify", "selfHeal", "retry"} \cup Answers
        /\ pc # "selfHeal" /\ (pc = "retry" => req[r].tries < MaxLockRetries)
    BY DEF Answers
  <2>2. /\ req[r].pc = "loaded" /\ req[r].op \in ReportOps /\ req[r].pc \in Working \ {"retry"}
        /\ req' = [req EXCEPT ![r] = At(req[r], pc)]
        /\ UNCHANGED <<task, report, marked, autoNotices>>
    BY <1>23 DEF LockTimeout, ReportOps, Working
  <2> QED
    BY <1>14, <2>1, <2>2 DEF TypeInv, TypeOK
<1>24. ASSUME NEW r \in Requests, RetryUpdate(r) PROVE TypeInv'
  <2> DEFINE p == req[r].report
             n == req[r].tries + 1
             again == report[p].life = "live" /\ report[p].status # req[r].status
             pc == IF report[p].life = "live" THEN "ok" ELSE "error"
  <2>1. /\ req[r] \in Request /\ RequestOK(req[r], task, report) /\ req[r].pc = "retry"
        /\ UNCHANGED <<task, report, marked>> /\ autoNotices' \in [Reports -> 0..2]
    BY <1>24 DEF RetryUpdate, TypeInv, TypeOK, RequestsOK
  <2>2. p \in Reports /\ report[p].life # "unused" /\ req[r].tries < MaxLockRetries
    BY <2>1 DEF RequestOK
  <2>3. n \in 0..MaxLockRetries /\ req[r].status \in ReportStatuses
    BY <2>1, <2>2, ConstantsAssumption DEF Request
  <2>4. report[p].task \in Tasks /\ task[report[p].task].life # "unused"
    BY <2>2 DEF TypeInv, ReportsHaveTasks
  <2>5. CASE again
    <3>1. PICK q : q = LoadedReport("update_report", p, req[r].status, n)
      OBVIOUS
    <3>2. "update_report" \in ReportOps
      BY DEF ReportOps
    <3>3. report[p] \in ReportRow /\ task[report[p].task] \in TaskRow
      BY <2>2, <2>4 DEF TypeInv, TypeOK
    <3>4. /\ q \in Request /\ q.pc = "loaded" /\ q.op = "update_report" /\ q.report = p
          /\ q.task = report[p].task /\ ~q.created
      BY <2>2, <2>3, <2>4, <3>1, <3>2, <3>3, LoadedReportStep
    <3>5. RequestOK(q, task, report)
      BY <2>2, <2>4, <3>2, <3>4 DEF RequestOK
    <3>6. req' = [req EXCEPT ![r] = q]
      BY <1>24, <2>5, <3>1 DEF RetryUpdate
    <3> QED
      BY <2>1, <3>4, <3>5, <3>6, MoveStep
  <2>6. CASE ~again
    <3> DEFINE q == At(req[r], pc)
    <3>1. req' = [req EXCEPT ![r] = q]
      BY <1>24, <2>6 DEF RetryUpdate
    <3>2. pc \in Answers /\ pc \in Steps
      BY DEF Answers, Steps
    <3>3. q \in Request /\ q.pc = pc /\ q.created = req[r].created /\ q.report = p
      BY <2>1, <3>2, AtStep
    <3>4. RequestOK(q, task, report)
      BY <2>2, <3>2, <3>3 DEF RequestOK, Answers, Working
    <3> QED
      BY <2>1, <3>1, <3>3, <3>4, MoveStep
  <2> QED
    BY <2>5, <2>6
<1>25. ASSUME NEW r \in Requests, CompleteReport(r) PROVE TypeInv'
  <2> DEFINE t == req[r].task
  <2>1. req[r].pc = "loaded" /\ req[r].op = "complete_report" /\ req[r].op \in ReportOps
    BY <1>25 DEF CompleteReport, ReportOps
  <2>2. PICK row \in ReportRow :
              /\ row.life # "unused" /\ row.task = report[req[r].report].task
              /\ SetStatus(r, "completed") => report' = [report EXCEPT ![req[r].report] = row]
    BY <2>1, SetStatusRow DEF ReportStatuses
  <2>3. /\ t \in Tasks /\ task[t].life # "unused" /\ task[t] \in TaskRow /\ Seen(r) \in TaskRow
        /\ req[r].report \in Reports
    BY <2>1, AtWork DEF Working, RequestOK, Now
  <2>4. /\ Complete(task[t], Seen(r)) \in TaskRow
        /\ Complete(task[t], Seen(r)).life # "unused"
    BY <2>3, MethodTypes
  <2>5. \/ task' = [task EXCEPT ![t] = Complete(task[t], Seen(r))]
        \/ task' = task
    BY <1>25 DEF CompleteReport
  <2>6. /\ task' \in [Tasks -> TaskRow]
        /\ \A o \in Tasks : task[o].life # "unused" => task'[o].life # "unused"
    <3>1. CASE task' = [task EXCEPT ![t] = Complete(task[t], Seen(r))]
      BY <2>3, <2>4, <3>1, WriteTask
    <3>2. CASE task' = task
      BY <3>2 DEF TypeInv, TypeOK
    <3> QED
      BY <2>5, <3>1, <3>2
  <2>7. /\ SetStatus(r, "completed") /\ UNCHANGED autoNotices
        /\ req' = [req EXCEPT ![r] = Committed(req[r], "ok")]
    BY <1>25 DEF CompleteReport
  <2>8. marked' \subseteq Reports
    BY <1>25, <2>3 DEF CompleteReport, TypeInv, TypeOK
  <2> QED
    BY <2>1, <2>2, <2>6, <2>7, <2>8, CommitReportStep
<1>26. ASSUME NEW r \in Requests, DeleteReport(r) PROVE TypeInv'
  <2> DEFINE t   == req[r].task
             row == SoftDeleted(report[req[r].report])
  <2>1. req[r].pc = "loaded" /\ req[r].op = "delete_report" /\ req[r].op \in ReportOps
    BY <1>26 DEF DeleteReport, ReportOps
  <2>2. /\ t \in Tasks /\ task[t] \in TaskRow /\ req[r].report \in Reports
    BY <2>1, AtWork DEF Working, RequestOK, Now
  <2>3. row \in ReportRow /\ row.life # "unused" /\ row.task = report[req[r].report].task
    BY <2>2, RowTypes, RowEdits DEF TypeInv, TypeOK
  <2>4. SoftDeleted(task[t]) \in TaskRow /\ SoftDeleted(task[t]).life # "unused"
    BY <2>2, RowTypes, RowEdits
  <2>5. \/ task' = [task EXCEPT ![t] = SoftDeleted(task[t])]
        \/ task' = task
    BY <1>26 DEF DeleteReport
  <2>6. /\ task' \in [Tasks -> TaskRow]
        /\ \A o \in Tasks : task[o].life # "unused" => task'[o].life # "unused"
    <3>1. CASE task' = [task EXCEPT ![t] = SoftDeleted(task[t])]
      BY <2>2, <2>4, <3>1, WriteTask
    <3>2. CASE task' = task
      BY <3>2 DEF TypeInv, TypeOK
    <3> QED
      BY <2>5, <3>1, <3>2
  <2>7. /\ report' = [report EXCEPT ![req[r].report] = row] /\ UNCHANGED <<marked, autoNotices>>
        /\ req' = [req EXCEPT ![r] = Committed(req[r], "ok")]
    BY <1>26 DEF DeleteReport
  <2>8. marked' \subseteq Reports
    BY <2>7 DEF TypeInv, TypeOK
  <2> QED
    BY <2>1, <2>3, <2>6, <2>7, <2>8, CommitReportStep
<1>27. ASSUME NEW t \in Tasks, NEW p \in Reports, NEW s \in ReportStatuses,
              NEW k \in Technicians, NEW ty \in ReportTypes,
              NEW row \in TaskRow, row.life = "live",
              report[p].life = "unused", task' = [task EXCEPT ![t] = row],
              report' = [report EXCEPT ![p] = NewReport(t, ty, s, k)],
              marked' \subseteq Reports, UNCHANGED <<autoNotices, req>>
       PROVE  TypeInv'
  <2>1. /\ task' \in [Tasks -> TaskRow] /\ task'[t] = row
        /\ \A o \in Tasks : task[o].life # "unused" => task'[o].life # "unused"
    BY <1>27, WriteTask
  <2>2. /\ NewReport(t, ty, s, k) \in ReportRow /\ NewReport(t, ty, s, k).life # "unused"
        /\ NewReport(t, ty, s, k).task = t
    BY NewRows
  <2>3. report' \in [Reports -> ReportRow] /\ RowsGrow /\ ReportsHaveTasks'
    BY <1>27, <2>1, <2>2, WriteReport
  <2> QED
    BY <1>27, <2>1, <2>3, RowStep
<1>28. ASSUME NEW t \in Tasks, NEW p \in Reports, FieldStart(t, p) PROVE TypeInv'
  <2>1. PICK ty \in ReportTypes, k \in Technicians :
          /\ task' = [task EXCEPT ![t] =
                        [NewTask(RoutineMaintenance, "started", k) EXCEPT !.selfStarted = TRUE]]
          /\ report' = [report EXCEPT ![p] = NewReport(t, ty, "started", k)]
    BY <1>28 DEF FieldStart
  <2> DEFINE new == NewTask(RoutineMaintenance, "started", k)
             row == [new EXCEPT !.selfStarted = TRUE]
  <2>2. new \in TaskRow /\ new.life = "live"
    BY NewRows DEF TaskTypes, TaskStatuses
  <2>3. row \in TaskRow /\ row.life = "live" /\ "started" \in ReportStatuses
    BY <2>2, RowEdits DEF ReportStatuses
  <2> QED
    BY <1>27, <1>28, <2>1, <2>3 DEF FieldStart, TypeInv, TypeOK
<1>29. ASSUME NEW t \in Tasks, NEW p \in Reports, FieldSubmit(t, p) PROVE TypeInv'
  <2>1. PICK ty \in ReportTypes, k \in Technicians :
          /\ task' = [task EXCEPT ![t] =
                        [NewTask(RoutineMaintenance, "completed", k) EXCEPT !.stamped = TRUE]]
          /\ report' = [report EXCEPT ![p] = NewReport(t, ty, "completed", k)]
    BY <1>29 DEF FieldSubmit
  <2> DEFINE new == NewTask(RoutineMaintenance, "completed", k)
             row == [new EXCEPT !.stamped = TRUE]
  <2>2. new \in TaskRow /\ new.life = "live"
    BY NewRows DEF TaskTypes, TaskStatuses
  <2>3. row \in TaskRow /\ row.life = "live" /\ "completed" \in ReportStatuses
    BY <2>2, RowEdits DEF ReportStatuses
  <2>4. marked' \subseteq Reports /\ UNCHANGED <<autoNotices, req>> /\ report[p].life = "unused"
    BY <1>29 DEF FieldSubmit, TypeInv, TypeOK
  <2> QED
    BY <1>27, <2>1, <2>3, <2>4
<1>30. ASSUME NEW r \in Requests,
              \/ req' = [req EXCEPT ![r] = NoRequest]
              \/ req' = [req EXCEPT ![r] = At(NoRequest, "error")],
              UNCHANGED <<task, report, marked, autoNotices>>
       PROVE  TypeInv'
  <2>1. NoRequest \in Request /\ "error" \in Steps
    BY RowTypes DEF Steps, Answers
  <2>2. RequestOK(NoRequest, task, report)
    BY DEF RequestOK, NoRequest, Working
  <2>3. /\ At(NoRequest, "error") \in Request /\ At(NoRequest, "error").pc = "error"
        /\ At(NoRequest, "error").created = NoRequest.created
    BY <2>1, AtStep
  <2>4. RequestOK(At(NoRequest, "error"), task, report)
    BY <2>3 DEF RequestOK, NoRequest, Working
  <2> QED
    BY <1>30, <2>1, <2>2, <2>3, <2>4, MoveStep DEF TypeInv, TypeOK
<1>31. ASSUME NEW r \in Requests, Reply(r) \/ DatabaseError(r) \/ Crash(r) PROVE TypeInv'
  BY <1>30, <1>31 DEF Reply, DatabaseError, Crash
<1> QED
  BY <1>1, <1>2, <1>3, <1>4, <1>5, <1>6, <1>7, <1>8, <1>9, <1>10, <1>11, <1>12, <1>13,
     <1>15, <1>17, <1>18, <1>19, <1>20, <1>21, <1>22, <1>23, <1>24, <1>25, <1>26, <1>28,
     <1>29, <1>31 DEF Next, Proceed

\* The tables and the requests always have their types: no handler inserts,
\* updates or retries its way out of them.
THEOREM TypeCorrect == Spec => []TypeOK
<1>1. Init => TypeInv
  BY TypeInvInit
<1>2. TypeInv /\ [Next]_vars => TypeInv'
  BY TypeInvNext
<1>3. TypeInv => TypeOK
  BY DEF TypeInv
<1> QED
  BY <1>1, <1>2, <1>3, PTL DEF Spec

-----------------------------------------------------------------------------
(* The safety properties, from the type invariant and from what one step can *)
(* do to one row: each step changes a task, a report or a request in one of  *)
(* the few ways listed below.                                                *)


TaskChange(t) ==
    \/ task'[t] = task[t]
    \/ /\ task[t].life = "unused" /\ task'[t].life = "live"
       /\ task'[t].status \in {"pending", "started", "completed"}
       /\ task'[t].status = "completed" => task'[t].stamped
    \/ /\ task[t].life = "live"
       /\ \E ty \in TaskTypes, k \in Technicians :
             task'[t] = [task[t] EXCEPT !.type = ty, !.technician = k]
    \/ task'[t] = SoftDeleted(task[t])
    \/ \E s \in TaskRow : task'[t] \in {Start(task[t], s), Fail(task[t], s),
                                        Complete(task[t], s), Hold(task[t], s)}
    \/ \E s \in TaskRow : s.status = "on_hold" /\ task'[t] = Resume(task[t], s)

\* A new report is active and its task has no other, or there is no index.
ReportChange(p) ==
    \/ report'[p] = report[p]
    \/ /\ report[p].life = "unused" /\ report'[p].life = "live"
       /\ ActiveReportIndex => ActiveReports(report'[p].task) = {}
       /\ \A o \in Reports \ {p} : report'[o] = report[o]
    \/ /\ report'[p].task = report[p].task /\ report'[p].auto = report[p].auto
       /\ report'[p].life \in {report[p].life, "deleted"}

\* A loaded request holds the rows as they were when it loaded them.
RequestChange(r) ==
    \/ req'[r] = req[r]
    \/ req'[r].pc # "loaded"
    \/ /\ task' = task
       /\ req'[r].taskSeen = task[req'[r].task]
       /\ req'[r].task \in Tasks
       /\ req'[r].op = "resume_task" => req'[r].taskSeen.status = "on_hold"

\* What a resume_task waiting for its commit has seen.
ResumeSawHold ==
    \A r \in Requests : req[r].pc = "loaded" /\ req[r].op = "resume_task"
                        => req[r].taskSeen.status = "on_hold"

LEMMA TableWrite ==
    ASSUME NEW S, NEW R, NEW f \in [S -> R], NEW x \in S, NEW v
    PROVE  /\ [f EXCEPT ![x] = v][x] = v
           /\ \A y \in S \ {x} : [f EXCEPT ![x] = v][y] = f[y]
  OBVIOUS

LEMMA CommitTaskChange ==
    ASSUME TypeInv, NEW r \in Requests, NEW op, NEW row, NEW pc, CommitTask(r, op, row, pc),
           NEW t \in Tasks
    PROVE  task'[t] = task[t] \/ (t = req[r].task /\ task'[t] = row)
  BY DEF CommitTask, TypeInv, TypeOK

LEMMA TaskChanges ==
    ASSUME TypeInv, ResumeSawHold, Next, NEW t \in Tasks PROVE TaskChange(t)
<1>1. ASSUME NEW r \in Requests, NEW op, NEW row, NEW pc, CommitTask(r, op, row, pc)
      PROVE  /\ Seen(r) \in TaskRow
             /\ task'[t] = task[t] \/ (Now(r) = task[t] /\ task'[t] = row)
  BY <1>1, AtWork, CommitTaskChange DEF CommitTask, Working, Now
<1>2. ASSUME NEW r \in Requests,
             StartTask(r) \/ CompleteTask(r) \/ SubmitFeedback(r) \/ FailTask(r) \/ HoldTask(r)
      PROVE  TaskChange(t)
  BY <1>1, <1>2 DEF StartTask, CompleteTask, SubmitFeedback, FailTask, HoldTask, TaskChange
<1>3. ASSUME NEW r \in Requests, ResumeTask(r) PROVE TaskChange(t)
  <2>1. Seen(r).status = "on_hold"
    BY <1>3 DEF ResumeTask, CommitTask, ResumeSawHold, Seen
  <2> QED
    BY <1>1, <1>3, <2>1 DEF ResumeTask, TaskChange
<1>4. ASSUME NEW x \in Tasks, CreateTask(x) PROVE TaskChange(t)
  <2>1. PICK ty \in TaskTypes, k \in Technicians :
           task' = [task EXCEPT ![x] = NewTask(ty, "pending", k)]
    BY <1>4 DEF CreateTask
  <2>2. /\ NewTask(ty, "pending", k).life = "live"
        /\ NewTask(ty, "pending", k).status = "pending"
    BY NewRows DEF TaskStatuses
  <2>3. task'[t] = task[t] \/ (t = x /\ task'[t] = NewTask(ty, "pending", k))
    BY <2>1 DEF TypeInv, TypeOK
  <2> QED
    BY <1>4, <2>2, <2>3 DEF CreateTask, TaskChange
<1>5. ASSUME NEW x \in Tasks, UpdateTask(x) PROVE TaskChange(t)
  <2>1. PICK ty \in TaskTypes, k \in Technicians :
           task' = [task EXCEPT ![x] = [task[x] EXCEPT !.type = ty, !.technician = k]]
    BY <1>5 DEF UpdateTask
  <2>2. \/ task'[t] = task[t]
        \/ t = x /\ task'[t] = [task[t] EXCEPT !.type = ty, !.technician = k]
    BY <2>1 DEF TypeInv, TypeOK
  <2> QED
    BY <1>5, <2>2 DEF UpdateTask, TaskChange
<1>6. ASSUME NEW x \in Tasks, DeleteTask(x) PROVE TaskChange(t)
  BY <1>6 DEF DeleteTask, TaskChange, TypeInv, TypeOK
<1>7. ASSUME NEW r \in Requests, CompleteReport(r) PROVE TaskChange(t)
  <2>1. Seen(r) \in TaskRow /\ req[r].task \in Tasks
    BY <1>7, AtWork DEF CompleteReport, Working
  <2>2. \/ task' = [task EXCEPT ![req[r].task] = Complete(task[req[r].task], Seen(r))]
        \/ task' = task
    BY <1>7 DEF CompleteReport
  <2>3. task'[t] = task[t] \/ task'[t] = Complete(task[t], Seen(r))
    BY <2>1, <2>2 DEF TypeInv, TypeOK
  <2> QED
    BY <2>1, <2>3 DEF TaskChange
<1>8. ASSUME NEW r \in Requests, DeleteReport(r) PROVE TaskChange(t)
  <2>1. \/ task' = [task EXCEPT ![req[r].task] = SoftDeleted(task[req[r].task])]
        \/ task' = task
    BY <1>8 DEF DeleteReport
  <2>2. task'[t] = task[t] \/ task'[t] = SoftDeleted(task[t])
    BY <2>1 DEF TypeInv, TypeOK
  <2> QED
    BY <2>2 DEF TaskChange
<1>9. ASSUME NEW x \in Tasks, NEW p \in Reports, FieldStart(x, p) PROVE TaskChange(t)
  <2>1. PICK k \in Technicians :
           task' = [task EXCEPT ![x] =
                      [NewTask(RoutineMaintenance, "started", k) EXCEPT !.selfStarted = TRUE]]
    BY <1>9 DEF FieldStart
  <2>2. PICK new : new = NewTask(RoutineMaintenance, "started", k)
    OBVIOUS
  <2>3. new \in TaskRow /\ new.life = "live" /\ new.status = "started"
    BY <2>2, NewRows DEF TaskTypes, TaskStatuses
  <2>4. PICK row : row = [new EXCEPT !.selfStarted = TRUE]
    OBVIOUS
  <2>5. row.life = "live" /\ row.status = "started"
    BY <2>3, <2>4 DEF TaskRow
  <2>6. task'[t] = task[t] \/ (t = x /\ task'[t] = row)
    BY <2>1, <2>2, <2>4 DEF TypeInv, TypeOK
  <2> QED
    BY <1>9, <2>5, <2>6 DEF FieldStart, TaskChange
<1>10. ASSUME NEW x \in Tasks, NEW p \in Reports, FieldSubmit(x, p) PROVE TaskChange(t)
  <2>1. PICK k \in Technicians :
           task' = [task EXCEPT ![x] =
                      [NewTask(RoutineMaintenance, "completed", k) EXCEPT !.stamped = TRUE]]
    BY <1>10 DEF FieldSubmit
  <2>2. PICK new : new = NewTask(RoutineMaintenance, "completed", k)
    OBVIOUS
  <2>3. new \in TaskRow /\ new.life = "live" /\ new.status = "completed"
    BY <2>2, NewRows DEF TaskTypes, TaskStatuses
  <2>4. PICK row : row = [new EXCEPT !.stamped = TRUE]
    OBVIOUS
  <2>5. row.life = "live" /\ row.status = "completed" /\ row.stamped
    BY <2>3, <2>4 DEF TaskRow
  <2>6. task'[t] = task[t] \/ (t = x /\ task'[t] = row)
    BY <2>1, <2>2, <2>4 DEF TypeInv, TypeOK
  <2> QED
    BY <1>10, <2>5, <2>6 DEF FieldSubmit, TaskChange
<1>11. ASSUME task' = task PROVE TaskChange(t)
  BY <1>11 DEF TaskChange
<1> QED
  BY <1>2, <1>3, <1>4, <1>5, <1>6, <1>7, <1>8, <1>9, <1>10, <1>11
     DEF Next, Proceed, LoadTask, EnsureReport, InsertReport, RereadReport, Notify,
         NotifySelfHeal, CreateReport, LoadReport, StartReport, UpdateReport, LockTimeout,
         RetryUpdate, Reply, DatabaseError, Crash

\* A task that was not created has no report.
LEMMA NoTaskNoReport ==
    ASSUME TypeInv, NEW t \in Tasks, task[t].life = "unused" PROVE ActiveReports(t) = {}
  BY DEF TypeInv, ReportsHaveTasks, ActiveReports

LEMMA InsertedReport ==
    ASSUME TypeInv, NEW x \in Reports, NEW row, report' = [report EXCEPT ![x] = row],
           report[x].life = "unused", row.life = "live",
           ActiveReportIndex => ActiveReports(row.task) = {}, NEW p \in Reports
    PROVE  ReportChange(p)
<1>1. report'[x] = row /\ \A o \in Reports \ {x} : report'[o] = report[o]
  BY DEF TypeInv, TypeOK
<1> QED
  BY <1>1 DEF ReportChange

LEMMA ReportChanges ==
    ASSUME TypeInv, Next, NEW p \in Reports PROVE ReportChange(p)
<1>1. ASSUME NEW r \in Requests, req[r].pc = "loaded", req[r].op \in ReportOps,
             NEW s \in ReportStatuses, SetStatus(r, s)
      PROVE  ReportChange(p)
  <2>1. PICK row \in ReportRow : /\ row.life = report[req[r].report].life
                                 /\ row.task = report[req[r].report].task
                                 /\ row.auto = report[req[r].report].auto
                                 /\ report' = [report EXCEPT ![req[r].report] = row]
    BY <1>1, SetStatusRow
  <2>2. report'[p] = report[p] \/ (p = req[r].report /\ report'[p] = row)
    BY <2>1 DEF TypeInv, TypeOK
  <2> QED
    BY <2>1, <2>2 DEF ReportChange
<1>2. ASSUME NEW r \in Requests, InsertReport(r) PROVE ReportChange(p)
  <2>1. CASE report' = report
    BY <2>1 DEF ReportChange
  <2>2. CASE report' # report
    <3>1. /\ ActiveReportIndex => ActiveReports(req[r].task) = {}
          /\ req[r].task \in Tasks /\ Seen(r) \in TaskRow
      BY <1>2, <2>2, AtWork DEF InsertReport, Working
    <3>2. PICK x \in Reports, ty \in ReportTypes :
             /\ report[x].life = "unused"
             /\ report' = [report EXCEPT ![x] =
                  [NewReport(req[r].task, ty, "pending", Seen(r).technician)
                     EXCEPT !.auto = TRUE]]
      BY <1>2, <2>2 DEF InsertReport
    <3>3. PICK new : new = NewReport(req[r].task, ty, "pending", Seen(r).technician)
      OBVIOUS
    <3>4. Seen(r).technician \in Technicians \cup {Null}
      BY <3>1 DEF TaskRow
    <3>5. new \in ReportRow /\ new.life = "live" /\ new.task = req[r].task
      BY <3>1, <3>3, <3>4, NewRows DEF ReportStatuses
    <3>6. PICK row : row = [new EXCEPT !.auto = TRUE]
      OBVIOUS
    <3>7. row.life = "live" /\ row.task = req[r].task
      BY <3>5, <3>6 DEF ReportRow
    <3>8. report' = [report EXCEPT ![x] = row]
      BY <3>2, <3>3, <3>6
    <3> QED
      BY <3>1, <3>2, <3>7, <3>8, InsertedReport
  <2> QED
    BY <2>1, <2>2
<1>3. ASSUME NEW x \in Reports, NEW t \in Tasks, NEW ty \in ReportTypes,
             NEW k \in Technicians, NEW s \in ReportStatuses, report[x].life = "unused",
             report' = [report EXCEPT ![x] = NewReport(t, ty, s, k)],
             ActiveReportIndex => ActiveReports(t) = {}
      PROVE  ReportChange(p)
  <2>1. PICK row : row = NewReport(t, ty, s, k)
    OBVIOUS
  <2>2. row.life = "live" /\ row.task = t /\ report' = [report EXCEPT ![x] = row]
    BY <1>3, <2>1, NewRows
  <2> QED
    BY <1>3, <2>2, InsertedReport
<1>4. ASSUME NEW x \in Reports, NEW t \in Tasks,
             CreateReport(x, t) \/ FieldStart(t, x) \/ FieldSubmit(t, x)
      PROVE  ReportChange(p)
  <2>1. report[x].life = "unused" /\ (ActiveReportIndex => ActiveReports(t) = {})
    BY <1>4, NoTaskNoReport DEF CreateReport, FieldStart, FieldSubmit
  <2>2. \E ty \in ReportTypes, k \in Technicians, s \in ReportStatuses :
           report' = [report EXCEPT ![x] = NewReport(t, ty, s, k)]
    BY <1>4 DEF CreateReport, FieldStart, FieldSubmit, ReportStatuses
  <2> QED
    BY <1>3, <2>1, <2>2
<1>5. ASSUME NEW r \in Requests, DeleteReport(r) PROVE ReportChange(p)
  <2>1. report' = [report EXCEPT ![req[r].report] = SoftDeleted(report[req[r].report])]
    BY <1>5 DEF DeleteReport
  <2>2. report'[p] = report[p] \/ report'[p] = SoftDeleted(report[p])
    BY <2>1 DEF TypeInv, TypeOK
  <2>3. /\ SoftDeleted(report[p]).life = "deleted" /\ SoftDeleted(report[p]).task = report[p].task
        /\ SoftDeleted(report[p]).auto = report[p].auto
    BY RowEdits DEF TypeInv, TypeOK
  <2> QED
    BY <2>2, <2>3 DEF ReportChange
<1>6. ASSUME NEW r \in Requests, StartReport(r) \/ UpdateReport(r) \/ CompleteReport(r)
      PROVE  ReportChange(p)
  <2>1. req[r].status \in ReportStatuses
    BY DEF TypeInv, TypeOK, Request
  <2>2. /\ req[r].pc = "loaded" /\ req[r].op \in ReportOps
        /\ \E s \in ReportStatuses : SetStatus(r, s)
    BY <1>6, <2>1 DEF StartReport, UpdateReport, CompleteReport, ReportOps, ReportStatuses
  <2> QED
    BY <1>1, <2>2
<1>7. ASSUME report' = report PROVE ReportChange(p)
  BY <1>7 DEF ReportChange
<1>8. ASSUME NEW r \in Requests, NEW op, NEW row, NEW pc, CommitTask(r, op, row, pc)
      PROVE  report' = report
  BY <1>8 DEF CommitTask
<1> QED
  BY <1>2, <1>4, <1>5, <1>6, <1>7, <1>8
     DEF Next, Proceed, StartTask, CompleteTask, SubmitFeedback, FailTask, HoldTask,
         ResumeTask, CreateTask, UpdateTask, DeleteTask, LoadTask, EnsureReport, RereadReport,
         Notify, NotifySelfHeal, LoadReport, LockTimeout, RetryUpdate, Reply, DatabaseError,
         Crash

LEMMA RequestWrite ==
    ASSUME TypeInv, NEW r \in Requests, NEW x \in Requests, NEW q,
           req' = [req EXCEPT ![x] = q]
    PROVE  req'[r] = req[r] \/ (r = x /\ req'[r] = q)
  BY DEF TypeInv, TypeOK

LEMMA RequestChanges ==
    ASSUME TypeInv, Next, NEW r \in Requests PROVE RequestChange(r)
<1>1. ASSUME NEW x \in Requests, NEW op, NEW row, NEW pc \in Steps,
             CommitTask(x, op, row, pc), pc # "loaded"
      PROVE  RequestChange(r)
  <2>1. PICK q : q = Committed(req[x], pc)
    OBVIOUS
  <2>2. req[x] \in Request
    BY DEF TypeInv, TypeOK
  <2>3. q.pc # "loaded"
    BY <1>1, <2>1, <2>2, CommittedStep
  <2>4. req' = [req EXCEPT ![x] = q]
    BY <1>1, <2>1 DEF CommitTask
  <2> QED
    BY <2>3, <2>4, RequestWrite DEF RequestChange
<1>2. ASSUME NEW x \in Requests,
             \/ StartTask(x) \/ CompleteTask(x) \/ SubmitFeedback(x) \/ FailTask(x)
             \/ HoldTask(x) \/ ResumeTask(x)
      PROVE  RequestChange(r)
  BY <1>1, <1>2 DEF StartTask, CompleteTask, SubmitFeedback, FailTask, HoldTask, ResumeTask,
                    Steps, Working, Answers
<1>3. ASSUME NEW x \in Requests, req' = [req EXCEPT ![x] = Committed(req[x], "ok")]
      PROVE  RequestChange(r)
  <2>1. PICK q : q = Committed(req[x], "ok")
    OBVIOUS
  <2>2. req[x] \in Request /\ "ok" \in Steps
    BY DEF TypeInv, TypeOK, Steps, Answers
  <2>3. q.pc = "ok"
    BY <2>1, <2>2, CommittedStep
  <2> QED
    BY <1>3, <2>1, <2>3, RequestWrite DEF RequestChange
<1>4. ASSUME NEW x \in Requests, NEW pc \in Steps \ {"loaded"},
             req' = [req EXCEPT ![x] = At(req[x], pc)]
      PROVE  RequestChange(r)
  <2>1. PICK q : q = At(req[x], pc)
    OBVIOUS
  <2>2. req[x] \in Request
    BY DEF TypeInv, TypeOK
  <2>3. q.pc # "loaded"
    BY <2>1, <2>2, AtStep
  <2> QED
    BY <1>4, <2>1, <2>3, RequestWrite DEF RequestChange
<1>5. ASSUME NEW x \in Requests, NEW q \in Request,
             q = NoRequest \/ q = At(NoRequest, "error"), req' = [req EXCEPT ![x] = q]
      PROVE  RequestChange(r)
  <2>1. NoRequest \in Request /\ "error" \in Steps /\ NoRequest.pc = "idle"
    BY RowTypes DEF Steps, Answers, NoRequest
  <2>2. q.pc # "loaded"
    BY <1>5, <2>1, AtStep
  <2> QED
    BY <1>5, <2>2, RequestWrite DEF RequestChange
<1>6. ASSUME NEW x \in Requests, Reply(x) \/ DatabaseError(x) \/ Crash(x)
      PROVE  RequestChange(r)
  <2>1. NoRequest \in Request /\ At(NoRequest, "error") \in Request
    BY RowTypes, AtStep DEF Steps, Answers
  <2> QED
    BY <1>5, <1>6, <2>1 DEF Reply, DatabaseError, Crash
<1>7. ASSUME NEW x \in Requests, NEW t \in Tasks, NEW op \in TaskOps, LoadTask(x, op, t)
      PROVE  RequestChange(r)
  <2>1. PICK q : q = LoadedTask(op, t)
    OBVIOUS
  <2>2. task[t] \in TaskRow
    BY DEF TypeInv, TypeOK
  <2>3. q.op = op /\ q.task = t /\ q.taskSeen = task[t]
    BY <2>1, <2>2, LoadedTaskStep
  <2>4. /\ task' = task /\ req' = [req EXCEPT ![x] = q]
        /\ op = "resume_task" => task[t].status = "on_hold"
    BY <1>7, <2>1 DEF LoadTask
  <2> QED
    BY <2>3, <2>4, RequestWrite DEF RequestChange
<1>8. ASSUME NEW x \in Requests, NEW p \in Reports, NEW op \in ReportOps,
             NEW st \in ReportStatuses, NEW n \in 0..MaxLockRetries,
             report[p].life # "unused", task' = task,
             req' = [req EXCEPT ![x] = LoadedReport(op, p, st, n)]
      PROVE  RequestChange(r)
  <2>1. PICK q : q = LoadedReport(op, p, st, n)
    OBVIOUS
  <2>2. report[p] \in ReportRow /\ report[p].task \in Tasks
        /\ task[report[p].task] \in TaskRow
    BY <1>8 DEF TypeInv, TypeOK, ReportsHaveTasks
  <2>3. q.op = op /\ q.task = report[p].task /\ q.taskSeen = task[report[p].task]
    BY <2>1, <2>2, LoadedReportStep
  <2>4. op # "resume_task"
    BY DEF ReportOps
  <2> QED
    BY <1>8, <2>1, <2>2, <2>3, <2>4, RequestWrite DEF RequestChange
<1>9. ASSUME NEW x \in Requests, NEW p \in Reports, NEW op \in ReportOps,
             LoadReport(x, op, p)
      PROVE  RequestChange(r)
  <2>1. 0 \in 0..MaxLockRetries
    BY ConstantsAssumption
  <2> QED
    BY <1>8, <1>9, <2>1 DEF LoadReport
<1>10. ASSUME NEW x \in Requests, RetryUpdate(x) PROVE RequestChange(r)
  <2> DEFINE p == req[x].report
  <2>1. /\ p \in Reports /\ report[p].life # "unused" /\ req[x] \in Request
        /\ req[x].tries < MaxLockRetries /\ task' = task
    BY <1>10 DEF RetryUpdate, TypeInv, TypeOK, RequestsOK, RequestOK
  <2>2. req[x].tries + 1 \in 0..MaxLockRetries /\ req[x].status \in ReportStatuses
    BY <2>1, ConstantsAssumption DEF Request
  <2>3. \/ req' = [req EXCEPT ![x] = LoadedReport("update_report", p, req[x].status,
                                                   req[x].tries + 1)]
        \/ req' = [req EXCEPT ![x] = At(req[x], "ok")]
        \/ req' = [req EXCEPT ![x] = At(req[x], "error")]
    BY <1>10 DEF RetryUpdate
  <2>4. "update_report" \in ReportOps /\ "ok" \in Steps \ {"loaded"}
        /\ "error" \in Steps \ {"loaded"}
    BY DEF ReportOps, Steps, Answers
  <2> QED
    BY <1>4, <1>8, <2>1, <2>2, <2>3, <2>4
<1>11. ASSUME NEW x \in Requests, EnsureReport(x) PROVE RequestChange(r)
  <2> DEFINE t  == req[x].task
             pc == IF task[t].type = RHS \/ ActiveReports(t) # {} THEN "notify" ELSE "insert"
  <2>1. PICK q : q = Refreshed(req[x], task[t], pc)
    OBVIOUS
  <2>2. req[x] \in Request /\ task[t] \in TaskRow
    BY <1>11, AtWork DEF EnsureReport, Working, Now
  <2>3. pc \in Steps /\ pc # "loaded"
    BY DEF Steps, Working
  <2>4. q.pc # "loaded"
    BY <2>1, <2>2, <2>3, RefreshedStep
  <2>5. req' = [req EXCEPT ![x] = q]
    BY <1>11, <2>1 DEF EnsureReport
  <2> QED
    BY <2>4, <2>5, RequestWrite DEF RequestChange
<1>12. ASSUME NEW x \in Requests, InsertReport(x) PROVE RequestChange(r)
  <2>1. "reread" \in Steps \ {"loaded"}
    BY DEF Steps, Working
  <2>2. ASSUME NEW p \in Reports, req' = [req EXCEPT ![x] = Created(req[x], p)]
        PROVE  RequestChange(r)
    <3>1. PICK q : q = Created(req[x], p)
      OBVIOUS
    <3>2. req[x] \in Request
      BY DEF TypeInv, TypeOK
    <3>3. q.pc # "loaded"
      BY <3>1, <3>2, CreatedStep
    <3> QED
      BY <2>2, <3>1, <3>3, RequestWrite DEF RequestChange
  <2> QED
    BY <1>4, <1>12, <2>1, <2>2 DEF InsertReport
<1>13. ASSUME NEW x \in Requests,
              RereadReport(x) \/ Notify(x) \/ NotifySelfHeal(x) \/ LockTimeout(x)
       PROVE  RequestChange(r)
  <2>1. \E pc \in Steps \ {"loaded"} : req' = [req EXCEPT ![x] = At(req[x], pc)]
    BY <1>13 DEF RereadReport, Notify, NotifySelfHeal, LockTimeout, Steps, Working, Answers
  <2> QED
    BY <1>4, <2>1
<1>14. ASSUME NEW x \in Requests,
              StartReport(x) \/ UpdateReport(x) \/ CompleteReport(x) \/ DeleteReport(x)
       PROVE  RequestChange(r)
  BY <1>3, <1>14 DEF StartReport, UpdateReport, CompleteReport, DeleteReport
<1>15. ASSUME req' = req PROVE RequestChange(r)
  BY <1>15 DEF RequestChange
<1> QED
  BY <1>2, <1>6, <1>7, <1>9, <1>10, <1>11, <1>12, <1>13, <1>14, <1>15
     DEF Next, Proceed, CreateTask, UpdateTask, DeleteTask, CreateReport, FieldStart,
         FieldSubmit

\* What a change does to the columns the properties are about.
LEMMA TaskColumns ==
    ASSUME TypeInv, NEW t \in Tasks, TaskChange(t),
           task[t].status = "on_hold" => task[t].held,
           task[t].status = "completed" => task[t].stamped
    PROVE  /\ task'[t].status = "on_hold" => task'[t].held
           /\ task'[t].status = "completed" => task'[t].stamped
           /\ task[t].life = "deleted" => task'[t].life = "deleted"
           /\ task[t].life # "unused" /\ task[t].stamped => task'[t].stamped
<1> DEFINE Good == /\ task'[t].status = "on_hold" => task'[t].held
                   /\ task'[t].status = "completed" => task'[t].stamped
                   /\ task[t].life = "deleted" => task'[t].life = "deleted"
                   /\ task[t].life # "unused" /\ task[t].stamped => task'[t].stamped
<1>1. task[t] \in TaskRow
  BY DEF TypeInv, TypeOK
<1>2. ASSUME task'[t] = task[t] PROVE Good
  BY <1>2
<1>3. ASSUME task[t].life = "unused", task'[t].life = "live",
             task'[t].status \in {"pending", "started", "completed"},
             task'[t].status = "completed" => task'[t].stamped
      PROVE  Good
  BY <1>3
<1>4. ASSUME NEW ty \in TaskTypes, NEW k \in Technicians,
             task'[t] = [task[t] EXCEPT !.type = ty, !.technician = k]
      PROVE  Good
  BY <1>1, <1>4 DEF TaskRow
<1>5. ASSUME task'[t] = SoftDeleted(task[t]) PROVE Good
  BY <1>1, <1>5 DEF TaskRow, SoftDeleted
<1>6. ASSUME NEW s \in TaskRow,
             task'[t] \in {Start(task[t], s), Fail(task[t], s)}
      PROVE  Good
  BY <1>1, <1>6 DEF TaskRow, Start, Fail, Written
<1>7. ASSUME NEW s \in TaskRow,
             task'[t] \in {Complete(task[t], s), Hold(task[t], s)}
      PROVE  Good
  BY <1>1, <1>7 DEF TaskRow, Complete, Hold, Written
<1>8. ASSUME NEW s \in TaskRow, s.status = "on_hold", task'[t] = Resume(task[t], s)
      PROVE  Good
  BY <1>1, <1>8 DEF TaskRow, Resume, Written
<1> QED
  BY <1>2, <1>3, <1>4, <1>5, <1>6, <1>7, <1>8 DEF TaskChange

\* An update of a completed report whose task it saw completed relies on the
\* stamp another commit has set.
CompletionSeenIsStamped ==
    \A r \in Requests : req[r].pc = "loaded" /\ req[r].taskSeen.status = "completed"
                        => task[req[r].task].stamped

MarkedInv ==
    \A p \in marked : /\ report[p].life # "unused"
                      /\ report[p].task \in Tasks /\ task[report[p].task].stamped

SafetyInv == /\ TypeInv /\ OnHoldIsStamped /\ CompletedIsStamped /\ ResumeSawHold
             /\ CompletionSeenIsStamped /\ MarkedInv

LEMMA SafetyInvInit == Init => SafetyInv
<1> SUFFICES ASSUME Init PROVE SafetyInv
  OBVIOUS
<1>1. TypeInv
  BY TypeInvInit
<1>2. OnHoldIsStamped /\ CompletedIsStamped
  BY DEF Init, OnHoldIsStamped, CompletedIsStamped, NoTaskRow
<1>3. ResumeSawHold /\ CompletionSeenIsStamped
  BY DEF Init, ResumeSawHold, CompletionSeenIsStamped, NoRequest
<1>4. MarkedInv
  BY DEF Init, MarkedInv
<1> QED
  BY <1>1, <1>2, <1>3, <1>4 DEF SafetyInv

LEMMA SafetyInvNext == SafetyInv /\ [Next]_vars => SafetyInv'
<1> SUFFICES ASSUME SafetyInv, [Next]_vars PROVE SafetyInv'
  OBVIOUS
<1>0. TypeInv /\ TypeInv'
  BY TypeInvNext DEF SafetyInv
<1>1. CASE UNCHANGED vars
  BY <1>0, <1>1 DEF vars, SafetyInv, OnHoldIsStamped, CompletedIsStamped, ResumeSawHold,
                    CompletionSeenIsStamped, MarkedInv
<1>2. CASE Next
  <2>1. \A t \in Tasks : TaskChange(t)
    BY <1>0, <1>2, TaskChanges DEF SafetyInv
  <2>2. \A t \in Tasks : /\ task'[t].status = "on_hold" => task'[t].held
                         /\ task'[t].status = "completed" => task'[t].stamped
                         /\ task[t].life # "unused" /\ task[t].stamped => task'[t].stamped
    BY <1>0, <2>1, TaskColumns DEF SafetyInv, OnHoldIsStamped, CompletedIsStamped
  <2>3. \A r \in Requests : RequestChange(r)
    BY <1>0, <1>2, RequestChanges
  <2>4. \A p \in Reports : ReportChange(p)
    BY <1>0, <1>2, ReportChanges
  <2>5. OnHoldIsStamped' /\ CompletedIsStamped'
    BY <2>2 DEF OnHoldIsStamped, CompletedIsStamped
  <2>6. ResumeSawHold'
    BY <2>3 DEF ResumeSawHold, RequestChange, SafetyInv
  <2>7. \A r \in Requests : req[r].pc = "loaded"
           => req[r].task \in Tasks /\ task[req[r].task].life # "unused"
    BY <1>0, AtWork DEF Working
  <2>8. CompletionSeenIsStamped'
    <3> SUFFICES ASSUME NEW r \in Requests, req'[r].pc = "loaded",
                        req'[r].taskSeen.status = "completed"
                 PROVE  task'[req'[r].task].stamped
      BY DEF CompletionSeenIsStamped
    <3>1. CASE req'[r] = req[r]
      BY <2>2, <2>7, <3>1 DEF SafetyInv, CompletionSeenIsStamped
    <3>2. CASE req'[r] # req[r]
      BY <2>3, <3>2 DEF RequestChange, SafetyInv, CompletedIsStamped
    <3> QED
      BY <3>1, <3>2
  <2>9. \A p \in marked : /\ report'[p].life # "unused"
                          /\ report'[p].task \in Tasks /\ task'[report'[p].task].stamped
    <3> SUFFICES ASSUME NEW p \in marked
                 PROVE  /\ report'[p].life # "unused"
                        /\ report'[p].task \in Tasks /\ task'[report'[p].task].stamped
      OBVIOUS
    <3>1. p \in Reports /\ report[p].life # "unused"
          /\ report[p].task \in Tasks /\ task[report[p].task].stamped
          /\ task[report[p].task].life # "unused"
      BY <1>0 DEF SafetyInv, MarkedInv, TypeInv, TypeOK, ReportsHaveTasks
    <3>2. report'[p].life # "unused" /\ report'[p].task = report[p].task
      BY <2>4, <3>1 DEF ReportChange
    <3> QED
      BY <2>2, <3>1, <3>2
  <2>10. ASSUME NEW r \in Requests, CompleteReport(r), NEW p \in marked', p \notin marked
         PROVE  /\ report'[p].life # "unused"
                /\ report'[p].task \in Tasks /\ task'[report'[p].task].stamped
    <3> DEFINE t == req[r].task
    <3>1. /\ p = req[r].report /\ req[r].pc = "loaded" /\ req[r].op \in ReportOps
          /\ Seen(r).status # "completed"
                => task' = [task EXCEPT ![t] = Complete(task[t], Seen(r))]
          /\ Seen(r).status = "completed" => task' = task
      BY <2>10 DEF CompleteReport, ReportOps
    <3>2. /\ p \in Reports /\ report[p].life # "unused" /\ report[p].task = t /\ t \in Tasks
          /\ task[t] \in TaskRow
      BY <1>0, <3>1, AtWork DEF RequestOK, Working, Now
    <3>3. report'[p].life # "unused" /\ report'[p].task = t
      BY <2>4, <3>2 DEF ReportChange
    <3>4. CASE Seen(r).status = "completed"
      BY <3>1, <3>2, <3>3, <3>4 DEF SafetyInv, CompletionSeenIsStamped, Seen
    <3>5. CASE Seen(r).status # "completed"
      <4>1. task'[t] = Complete(task[t], Seen(r))
        BY <1>0, <3>1, <3>2, <3>5 DEF TypeInv, TypeOK
      <4>2. Complete(task[t], Seen(r)).stamped
        BY <3>2 DEF Complete, TaskRow
      <4> QED
        BY <3>2, <3>3, <4>1, <4>2
    <3> QED
      BY <3>4, <3>5
  <2>11. ASSUME NEW t \in Tasks, NEW x \in Reports, FieldSubmit(t, x), NEW p \in marked',
                p \notin marked
         PROVE  /\ report'[p].life # "unused"
                /\ report'[p].task \in Tasks /\ task'[report'[p].task].stamped
    <3>1. p = x
      BY <2>11 DEF FieldSubmit
    <3>2. PICK ty \in ReportTypes, k \in Technicians :
            /\ task' = [task EXCEPT ![t] =
                        [NewTask(RoutineMaintenance, "completed", k) EXCEPT !.stamped = TRUE]]
            /\ report' = [report EXCEPT ![x] = NewReport(t, ty, "completed", k)]
      BY <2>11 DEF FieldSubmit
    <3>3. PICK new : new = NewTask(RoutineMaintenance, "completed", k)
      OBVIOUS
    <3>4. new \in TaskRow
      BY <3>3, NewRows DEF TaskTypes, TaskStatuses
    <3>5. PICK row : row = [new EXCEPT !.stamped = TRUE]
      OBVIOUS
    <3>6. row.stamped
      BY <3>4, <3>5 DEF TaskRow
    <3>7. task'[t] = row
      BY <1>0, <3>2, <3>3, <3>5 DEF TypeInv, TypeOK
    <3>8. PICK new2 : new2 = NewReport(t, ty, "completed", k)
      OBVIOUS
    <3>9. new2.life = "live" /\ new2.task = t
      BY <3>8, NewRows DEF ReportStatuses
    <3>10. report'[x] = new2
      BY <1>0, <3>2, <3>8 DEF TypeInv, TypeOK
    <3> QED
      BY <3>1, <3>6, <3>7, <3>9, <3>10
  <2>12. \/ marked' = marked
         \/ \E r \in Requests : CompleteReport(r)
         \/ \E t \in Tasks, x \in Reports : FieldSubmit(t, x)
    <3>1. ASSUME NEW r \in Requests, NEW op, NEW row, NEW pc, CommitTask(r, op, row, pc)
          PROVE  marked' = marked
      BY <3>1 DEF CommitTask
    <3> QED
      BY <1>2, <3>1
         DEF Next, Proceed, StartTask, CompleteTask, SubmitFeedback, FailTask, HoldTask,
             ResumeTask, CreateTask, UpdateTask, DeleteTask, LoadTask, EnsureReport,
             InsertReport, RereadReport, Notify, NotifySelfHeal, CreateReport, LoadReport,
             StartReport, UpdateReport, LockTimeout, RetryUpdate, DeleteReport, FieldStart,
             Reply, DatabaseError, Crash
  <2>13. MarkedInv'
    BY <2>9, <2>10, <2>11, <2>12 DEF MarkedInv
  <2> QED
    BY <1>0, <2>5, <2>6, <2>8, <2>13 DEF SafetyInv
<1> QED
  BY <1>1, <1>2

\* A schedule marked done by a report's completion stands for a task that was
\* completed (complete_report, field work's submit).
THEOREM MarkedWorkWasCompletedAlways == Spec => []MarkedWorkWasCompleted
<1>1. SafetyInv => MarkedWorkWasCompleted
  BY DEF SafetyInv, MarkedInv, MarkedWorkWasCompleted
<1> QED
  BY <1>1, SafetyInvInit, SafetyInvNext, PTL DEF Spec

\* completed_at and held_at are set whenever the status calls for them, for
\* any interleaving of the commits of the task handlers.
THEOREM StampsAlways == Spec => []Stamped
<1>1. SafetyInv => Stamped
  BY DEF SafetyInv, Stamped
<1> QED
  BY <1>1, SafetyInvInit, SafetyInvNext, PTL DEF Spec

\* No commit prepared from an older read brings a deleted task or report back.
THEOREM DeletionIsFinalAlways == Spec => DeletionIsFinal
<1>1. SafetyInv /\ [Next]_vars =>
        [/\ \A t \in Tasks : task[t].life = "deleted" => task'[t].life = "deleted"
         /\ \A p \in Reports : report[p].life = "deleted" => report'[p].life = "deleted"]_vars
  <2> SUFFICES ASSUME SafetyInv, Next
               PROVE  /\ \A t \in Tasks : task[t].life = "deleted" => task'[t].life = "deleted"
                      /\ \A p \in Reports : report[p].life = "deleted"
                                            => report'[p].life = "deleted"
    OBVIOUS
  <2>1. \A t \in Tasks : TaskChange(t)
    BY TaskChanges DEF SafetyInv
  <2>2. \A t \in Tasks : task[t].life = "deleted" => task'[t].life = "deleted"
    BY <2>1, TaskColumns DEF SafetyInv, OnHoldIsStamped, CompletedIsStamped
  <2>3. \A p \in Reports : ReportChange(p)
    BY ReportChanges DEF SafetyInv
  <2>4. \A p \in Reports : report[p].life = "deleted" => report'[p].life = "deleted"
    BY <2>3 DEF ReportChange
  <2> QED
    BY <2>2, <2>4
<1> QED
  BY <1>1, SafetyInvInit, SafetyInvNext, PTL DEF Spec, DeletionIsFinal

\* With scripts/0011's index a task has at most one active report, whichever
\* handlers race to create it.
THEOREM OneActiveReportAlways ==
    ASSUME ActiveReportIndex PROVE Spec => []OneActiveReport
<1>1. Init => OneActiveReport
  BY DEF Init, OneActiveReport, NoReportRow
<1>2. SafetyInv /\ OneActiveReport /\ [Next]_vars => OneActiveReport'
  <2> SUFFICES ASSUME SafetyInv, OneActiveReport, [Next]_vars
               PROVE  OneActiveReport'
    OBVIOUS
  <2>1. CASE UNCHANGED vars
    BY <2>1 DEF vars, OneActiveReport
  <2>2. CASE Next
    <3>1. \A p \in Reports : ReportChange(p)
      BY <2>2, ReportChanges DEF SafetyInv
    <3> SUFFICES ASSUME NEW p \in Reports, NEW q \in Reports,
                        report'[p].life = "live", report'[q].life = "live",
                        report'[p].task = report'[q].task
                 PROVE  p = q
      BY DEF OneActiveReport
    <3>2. CASE report[p].life = "live" /\ report[q].life = "live"
      BY <3>1, <3>2 DEF ReportChange, OneActiveReport
    <3>3. CASE report[p].life # "live"
      <4>1. /\ ActiveReports(report'[p].task) = {}
            /\ \A o \in Reports \ {p} : report'[o] = report[o]
        BY <3>1, <3>3 DEF ReportChange
      <4> QED
        BY <4>1 DEF ActiveReports
    <3>4. CASE report[q].life # "live"
      <4>1. /\ ActiveReports(report'[q].task) = {}
            /\ \A o \in Reports \ {q} : report'[o] = report[o]
        BY <3>1, <3>4 DEF ReportChange
      <4> QED
        BY <4>1 DEF ActiveReports
    <3> QED
      BY <3>2, <3>3, <3>4
  <2> QED
    BY <2>1, <2>2
<1> QED
  BY <1>1, <1>2, SafetyInvInit, SafetyInvNext, PTL DEF Spec

-----------------------------------------------------------------------------
(* What _ensure_auto_report_for_task promises.                             *)

Ensuring == {"start_task", "complete_task"}

\* The request is to tell the technician of the report it created.
Telling(q) == q.created /\ q.pc \in {"notify", "selfHeal"}

HasReport(t, reports) == \E p \in Reports : reports[p].life # "unused" /\ reports[p].task = t

\* A request past the insert has a report; one that lost the race has seen the winner's; and one
\* that is to tell of a report created it, and nobody was told before.
EnsureOK(q, reports, told) ==
    /\ q.pc \in {"ensure", "insert", "reread"} => ~ q.created
    /\ q.pc = "retry" => q.op = "update_report"
    /\ q.op \in Ensuring /\ q.pc \in {"notify", "selfHeal", "ok"} /\ q.taskSeen.type # RHS
          => HasReport(q.task, reports)
    /\ q.pc = "reread" => HasReport(q.task, reports)
    /\ q.op \in Ensuring /\ q.pc = "conflict"
          => \E p \in Reports : reports[p].life = "deleted" /\ reports[p].task = q.task
    /\ Telling(q) => /\ q.report \in Reports /\ reports[q.report].life # "unused"
                     /\ reports[q.report].auto /\ told[q.report] = 0

\* No two requests are to tell of the same report.
EnsureInv ==
    /\ \A r \in Requests : EnsureOK(req[r], report, autoNotices)
    /\ \A r, o \in Requests : Telling(req[r]) /\ Telling(req[o]) /\ req[r].report = req[o].report => r = o
    /\ \A p \in Reports : autoNotices[p] > 0 =>
          autoNotices[p] = 1 /\ report[p].auto /\ report[p].life # "unused"

ReportsKept ==
    \A p \in Reports : report[p].life # "unused" =>
       /\ report'[p].life # "unused" /\ report'[p].task = report[p].task
       /\ report'[p].auto = report[p].auto
       /\ report[p].life = "deleted" => report'[p].life = "deleted"

LEMMA ReportsAreKept == TypeInv /\ Next => ReportsKept
<1> SUFFICES ASSUME TypeInv, Next PROVE ReportsKept
  OBVIOUS
<1>1. \A p \in Reports : ReportChange(p)
  BY ReportChanges
<1> QED
  BY <1>1 DEF ReportsKept, ReportChange

LEMMA EnsureInvInit == Init => EnsureInv
  BY DEF Init, EnsureInv, EnsureOK, Telling, NoRequest, Ensuring

\* What holds of a request goes on holding while it waits.
LEMMA EnsureWaits ==
    ASSUME ReportsKept, NEW q, EnsureOK(q, report, autoNotices),
           Telling(q) => autoNotices'[q.report] = autoNotices[q.report]
    PROVE  EnsureOK(q, report', autoNotices')
<1>1. \A t : HasReport(t, report) => HasReport(t, report')
  BY DEF HasReport, ReportsKept
<1>2. \A t : (\E p \in Reports : report[p].life = "deleted" /\ report[p].task = t)
               => \E p \in Reports : report'[p].life = "deleted" /\ report'[p].task = t
  BY DEF ReportsKept
<1> QED
  BY <1>1, <1>2 DEF EnsureOK, ReportsKept

\* A step of one request, which tells of a report or tells of none.
LEMMA EnsureStep ==
    ASSUME TypeInv, EnsureInv, ReportsKept, NEW x \in Requests, NEW q \in Request,
           req' = [req EXCEPT ![x] = q], EnsureOK(q, report', autoNotices'),
           Telling(q) => \/ Telling(req[x]) /\ q.report = req[x].report
                         \/ q.report \in Reports /\ report[q.report].life = "unused",
           \/ autoNotices' = autoNotices
           \/ Telling(req[x]) /\ ~ Telling(q) /\ TellTechnician(req[x].report)
    PROVE  EnsureInv'
<1> DEFINE told == req[x].report
<1>1. req'[x] = q /\ \A o \in Requests : o # x => req'[o] = req[o]
  BY DEF TypeInv, TypeOK
<1>2. /\ \A r \in Requests : EnsureOK(req[r], report, autoNotices)
      /\ \A r, o \in Requests : Telling(req[r]) /\ Telling(req[o]) /\ req[r].report = req[o].report => r = o
      /\ \A p \in Reports : autoNotices[p] > 0 =>
            autoNotices[p] = 1 /\ report[p].auto /\ report[p].life # "unused"
      /\ autoNotices \in [Reports -> 0 .. 2]
  BY DEF EnsureInv, TypeInv, TypeOK
<1>3. \A r \in Requests : Telling(req[r]) =>
         /\ req[r].report \in Reports /\ report[req[r].report].life # "unused" /\ report[req[r].report].auto
         /\ autoNotices[req[r].report] = 0
  BY <1>2 DEF EnsureOK
<1>4. \/ autoNotices' = autoNotices
      \/ /\ Telling(req[x]) /\ told \in Reports /\ autoNotices'[told] = 1
         /\ \A p \in Reports : p # told => autoNotices'[p] = autoNotices[p]
  BY <1>2, <1>3 DEF TellTechnician
<1>5. ASSUME NEW o \in Requests, o # x PROVE EnsureOK(req'[o], report', autoNotices')
  <2>1. Telling(req[o]) => autoNotices'[req[o].report] = autoNotices[req[o].report]
    BY <1>2, <1>3, <1>4, <1>5
  <2> QED
    BY <1>1, <1>2, <1>5, <2>1, EnsureWaits
<1>6. \A r \in Requests : EnsureOK(req'[r], report', autoNotices')
  BY <1>1, <1>5
<1>7. ASSUME NEW r \in Requests, NEW o \in Requests, Telling(req'[r]), Telling(req'[o]),
             req'[r].report = req'[o].report
      PROVE  r = o
  BY <1>1, <1>2, <1>3, <1>7
<1>8. ASSUME NEW p \in Reports, autoNotices'[p] > 0
      PROVE  autoNotices'[p] = 1 /\ report'[p].auto /\ report'[p].life # "unused"
  <2>1. autoNotices'[p] = 1 /\ report[p].auto /\ report[p].life # "unused"
    BY <1>2, <1>3, <1>4, <1>8
  <2> QED
    BY <2>1 DEF ReportsKept
<1>9. \A r : Telling(req[r])' = Telling(req'[r])
  BY DEF Telling
<1> QED
  BY <1>6, <1>7, <1>8, <1>9 DEF EnsureInv, EnsureOK, HasReport, Telling

\* A step of the request that promises nothing yet.
LEMMA EnsureQuiet ==
    ASSUME TypeInv, EnsureInv, ReportsKept, NEW x \in Requests, NEW q \in Request,
           req' = [req EXCEPT ![x] = q], autoNotices' = autoNotices,
           q.pc # "reread", q.pc = "retry" => q.op = "update_report",
           q.op \in Ensuring => q.pc \notin {"notify", "selfHeal", "ok", "conflict"},
           q.created => q.pc \notin {"ensure", "insert", "notify", "selfHeal"}
    PROVE  EnsureInv'
<1>1. EnsureOK(q, report', autoNotices') /\ ~ Telling(q)
  BY DEF EnsureOK, Telling
<1> QED
  BY <1>1, EnsureStep

LEMMA QuietSteps ==
    ASSUME TypeInv, EnsureInv, ReportsKept, autoNotices' = autoNotices, NEW x \in Requests
    PROVE  /\ \A op : \A pc \in {"ensure", "ok"} :
                 /\ req[x].op = op /\ (pc = "ok" => op \notin Ensuring)
                 /\ req' = [req EXCEPT ![x] = Committed(req[x], pc)]
                 => EnsureInv'
           /\ req' = [req EXCEPT ![x] = NoRequest] => EnsureInv'
           /\ req' = [req EXCEPT ![x] = At(NoRequest, "error")] => EnsureInv'
<1>1. req[x] \in Request /\ NoRequest \in Request
  BY RowTypes DEF TypeInv, TypeOK
<1>2. ASSUME NEW op, NEW pc \in {"ensure", "ok"}, req[x].op = op, pc = "ok" => op \notin Ensuring,
             req' = [req EXCEPT ![x] = Committed(req[x], pc)]
      PROVE  EnsureInv'
  <2>1. PICK q : q = Committed(req[x], pc)
    OBVIOUS
  <2>2. pc \in Steps
    BY DEF Steps, Working, Answers
  <2>3. q \in Request /\ q.pc = pc /\ q.op = op /\ q.created = FALSE
    BY <1>1, <1>2, <2>1, <2>2, CommittedStep
  <2>4. req' = [req EXCEPT ![x] = q]
    BY <1>2, <2>1
  <2> QED
    BY <1>2, <2>3, <2>4, EnsureQuiet
<1>3. ASSUME req' = [req EXCEPT ![x] = NoRequest] PROVE EnsureInv'
  <2>1. NoRequest.pc = "idle"
    BY DEF NoRequest
  <2> QED
    BY <1>1, <1>3, <2>1, EnsureQuiet
<1>4. ASSUME req' = [req EXCEPT ![x] = At(NoRequest, "error")] PROVE EnsureInv'
  <2>1. PICK q : q = At(NoRequest, "error")
    OBVIOUS
  <2>2. "error" \in Steps
    BY DEF Steps, Answers
  <2>3. q \in Request /\ q.pc = "error"
    BY <1>1, <2>1, <2>2, AtStep
  <2> QED
    BY <1>4, <2>1, <2>3, EnsureQuiet
<1> QED
  BY <1>2, <1>3, <1>4

\* The steps of _ensure_auto_report_for_task.
LEMMA EnsureReportKeeps ==
    ASSUME TypeInv, EnsureInv, ReportsKept, NEW x \in Requests, EnsureReport(x)
    PROVE  EnsureInv'
<1> DEFINE t  == req[x].task
           pc == IF task[t].type = RHS \/ ActiveReports(t) # {} THEN "notify" ELSE "insert"
<1>1. PICK q : q = Refreshed(req[x], task[t], pc)
  OBVIOUS
<1>2. req[x] \in Request /\ task[t] \in TaskRow /\ req[x].pc = "ensure"
  BY AtWork DEF EnsureReport, Working, Now
<1>3. pc \in Steps
  BY DEF Steps, Working
<1>4. ~req[x].created
  BY <1>2 DEF EnsureInv, EnsureOK
<1>5. /\ q \in Request /\ q.pc = pc /\ q.task = t /\ q.taskSeen = task[t]
      /\ ~q.created
  BY <1>1, <1>2, <1>3, <1>4, RefreshedStep
<1>6. /\ req' = [req EXCEPT ![x] = q] /\ report' = report /\ autoNotices' = autoNotices
  BY <1>1 DEF EnsureReport
<1>7. ActiveReports(t) # {} => HasReport(t, report)
  BY DEF ActiveReports, HasReport
<1>8. q.pc \in {"notify", "insert"} /\ ~Telling(q)
  BY <1>5 DEF Telling
<1>9. q.pc = "notify" /\ q.taskSeen.type # RHS => HasReport(t, report)
  BY <1>5, <1>7
<1> HIDE DEF t, pc
<1>10. EnsureOK(q, report', autoNotices')
  BY <1>5, <1>6, <1>8, <1>9 DEF EnsureOK
<1> QED
  BY <1>5, <1>6, <1>8, <1>10, EnsureStep

LEMMA InsertReportKeeps ==
    ASSUME TypeInv, EnsureInv, ReportsKept, NEW x \in Requests, InsertReport(x)
    PROVE  EnsureInv'
<1> DEFINE t == req[x].task
<1>1. req[x] \in Request /\ req[x].pc = "insert" /\ t \in Tasks /\ Seen(x) \in TaskRow
      /\ autoNotices' = autoNotices /\ ~req[x].created
  BY AtWork DEF InsertReport, Working, EnsureInv, EnsureOK
<1>2. CASE ActiveReports(t) # {} /\ report' = report /\ req' = [req EXCEPT ![x] = At(req[x], "reread")]
  <2>1. PICK q : q = At(req[x], "reread")
    OBVIOUS
  <2>2. "reread" \in Steps
    BY DEF Steps, Working
  <2>3. q \in Request /\ q.pc = "reread" /\ q.task = t /\ ~q.created
    BY <1>1, <2>1, <2>2, AtStep
  <2>4. HasReport(t, report)
    BY <1>2 DEF ActiveReports, HasReport
  <2>5. EnsureOK(q, report', autoNotices') /\ ~Telling(q)
    BY <1>2, <2>3, <2>4 DEF EnsureOK, Telling
  <2> QED
    BY <1>1, <1>2, <2>1, <2>3, <2>5, EnsureStep
<1>3. ASSUME NEW p \in Reports, NEW ty \in ReportTypes, report[p].life = "unused",
             report' = [report EXCEPT ![p] =
                          [NewReport(t, ty, "pending", Seen(x).technician) EXCEPT !.auto = TRUE]],
             req' = [req EXCEPT ![x] = Created(req[x], p)]
      PROVE  EnsureInv'
  <2>1. PICK q : q = Created(req[x], p)
    OBVIOUS
  <2>2. /\ q \in Request /\ q.pc = "notify" /\ q.task = t /\ q.report = p
    BY <1>1, <2>1, CreatedStep
  <2>3. PICK new : new = NewReport(t, ty, "pending", Seen(x).technician)
    OBVIOUS
  <2>4. Seen(x).technician \in Technicians \cup {Null}
    BY <1>1 DEF TaskRow
  <2>5. new \in ReportRow /\ new.life = "live" /\ new.task = t
    BY <1>1, <2>3, <2>4, NewRows DEF ReportStatuses
  <2>6. PICK row : row = [new EXCEPT !.auto = TRUE]
    OBVIOUS
  <2>7. row.life = "live" /\ row.task = t /\ row.auto
    BY <2>5, <2>6 DEF ReportRow
  <2>8. report' = [report EXCEPT ![p] = row]
    BY <1>3, <2>3, <2>6
  <2>9. report'[p] = row
    BY <2>8 DEF TypeInv, TypeOK
  <2>10. autoNotices[p] = 0
    BY <1>3 DEF EnsureInv, TypeInv, TypeOK
  <2>11. HasReport(t, report')
    BY <2>7, <2>9 DEF HasReport
  <2> HIDE DEF t
  <2>12. EnsureOK(q, report', autoNotices')
    BY <1>1, <2>2, <2>7, <2>9, <2>10, <2>11 DEF EnsureOK
  <2>13. req' = [req EXCEPT ![x] = q]
    BY <1>3, <2>1
  <2> QED
    BY <1>1, <1>3, <2>2, <2>12, <2>13, EnsureStep
<1> QED
  BY <1>2, <1>3 DEF InsertReport

LEMMA RereadReportKeeps ==
    ASSUME TypeInv, EnsureInv, ReportsKept, NEW x \in Requests, RereadReport(x)
    PROVE  EnsureInv'
<1>0. PICK pc : pc = IF ActiveReports(req[x].task) # {} THEN "notify" ELSE "conflict"
  OBVIOUS
<1>1. PICK q : q = At(req[x], pc)
  OBVIOUS
<1>2. /\ req[x] \in Request /\ req[x].pc = "reread" /\ report' = report
      /\ autoNotices' = autoNotices /\ req' = [req EXCEPT ![x] = q]
  BY <1>0, <1>1, AtWork DEF RereadReport, Working
<1>3. ~req[x].created /\ HasReport(req[x].task, report)
  BY <1>2 DEF EnsureInv, EnsureOK
<1>4. pc \in Steps
  BY <1>0 DEF Steps, Working, Answers
<1>5. q \in Request /\ q.pc = pc /\ q.task = req[x].task /\ ~q.created
  BY <1>1, <1>2, <1>3, <1>4, AtStep
<1>6. q.pc = "conflict" => \E p \in Reports : report[p].life = "deleted" /\ report[p].task = q.task
  BY <1>0, <1>3, <1>5 DEF HasReport, ActiveReports, TypeInv, TypeOK, ReportRow, Life
<1>7. q.pc \in {"notify", "conflict"} /\ ~Telling(q)
  BY <1>0, <1>5 DEF Telling
<1>8. EnsureOK(q, report', autoNotices')
  BY <1>2, <1>3, <1>5, <1>6, <1>7 DEF EnsureOK
<1> QED
  BY <1>2, <1>5, <1>7, <1>8, EnsureStep

LEMMA NotifyKeeps ==
    ASSUME TypeInv, EnsureInv, ReportsKept, NEW x \in Requests, Notify(x) \/ NotifySelfHeal(x)
    PROVE  EnsureInv'
<1>1. /\ req[x] \in Request /\ req[x].pc \in {"notify", "selfHeal"} /\ report' = report
      /\ req[x].pc = "selfHeal" => req[x].created
  BY AtWork DEF Notify, NotifySelfHeal, Working, RequestOK
<1>2. PICK pc \in {"ok", "error", "selfHeal"} :
         /\ req' = [req EXCEPT ![x] = At(req[x], pc)]
         /\ pc = "selfHeal" => req[x].created
         /\ \/ autoNotices' = autoNotices
            \/ req[x].created /\ pc # "selfHeal" /\ TellTechnician(req[x].report)
  BY <1>1 DEF Notify, NotifySelfHeal
<1>3. PICK q : q = At(req[x], pc)
  OBVIOUS
<1>4. pc \in Steps
  BY DEF Steps, Working, Answers
<1>5. /\ q \in Request /\ q.pc = pc /\ q.op = req[x].op /\ q.task = req[x].task
      /\ q.report = req[x].report /\ q.taskSeen = req[x].taskSeen /\ q.created = req[x].created
  BY <1>1, <1>3, <1>4, AtStep
<1>6. EnsureOK(req[x], report, autoNotices)
  BY DEF EnsureInv
<1>7. Telling(q) => Telling(req[x]) /\ autoNotices' = autoNotices
  BY <1>1, <1>2, <1>5 DEF Telling
<1>8. EnsureOK(q, report', autoNotices')
  BY <1>1, <1>2, <1>5, <1>6, <1>7 DEF EnsureOK, Telling
<1>9. \/ autoNotices' = autoNotices
      \/ Telling(req[x]) /\ ~Telling(q) /\ TellTechnician(req[x].report)
  BY <1>1, <1>2, <1>5 DEF Telling
<1>10. req' = [req EXCEPT ![x] = q]
  BY <1>2, <1>3
<1> QED
  BY <1>5, <1>7, <1>8, <1>9, <1>10, EnsureStep

LEMMA LoadKeeps ==
    ASSUME TypeInv, EnsureInv, ReportsKept, NEW x \in Requests, autoNotices' = autoNotices,
           NEW q \in Request, q.pc = "loaded", req' = [req EXCEPT ![x] = q]
    PROVE  EnsureInv'
  BY EnsureQuiet

LEMMA RetryKeeps ==
    ASSUME TypeInv, EnsureInv, ReportsKept, NEW x \in Requests, LockTimeout(x) \/ RetryUpdate(x)
    PROVE  EnsureInv'
<1> DEFINE p == req[x].report
<1>1. req[x] \in Request /\ autoNotices' = autoNotices /\ req[x].op = "update_report"
  BY DEF TypeInv, TypeOK, LockTimeout, RetryUpdate, EnsureInv, EnsureOK
<1>2. ASSUME NEW pc \in {"retry", "conflict", "ok", "error"},
             req' = [req EXCEPT ![x] = At(req[x], pc)]
      PROVE  EnsureInv'
  <2>1. PICK q : q = At(req[x], pc)
    OBVIOUS
  <2>2. pc \in Steps
    BY DEF Steps, Working, Answers
  <2>3. q \in Request /\ q.pc = pc /\ q.op = "update_report" /\ q.op \notin Ensuring
    BY <1>1, <2>1, <2>2, AtStep DEF Ensuring
  <2>4. req' = [req EXCEPT ![x] = q]
    BY <1>2, <2>1
  <2> QED
    BY <1>1, <2>3, <2>4, EnsureQuiet
<1>3. ASSUME RetryUpdate(x),
             req' = [req EXCEPT ![x] = LoadedReport("update_report", p, req[x].status, req[x].tries + 1)]
      PROVE  EnsureInv'
  <2>1. /\ p \in Reports /\ report[p].life # "unused" /\ req[x].tries < MaxLockRetries
    BY <1>3 DEF RetryUpdate, TypeInv, TypeOK, RequestsOK, RequestOK
  <2>2. req[x].tries + 1 \in 0..MaxLockRetries /\ req[x].status \in ReportStatuses
    BY <1>1, <2>1, ConstantsAssumption DEF Request
  <2>3. report[p] \in ReportRow /\ report[p].task \in Tasks /\ task[report[p].task] \in TaskRow
    BY <2>1 DEF TypeInv, TypeOK, ReportsHaveTasks
  <2>4. PICK q : q = LoadedReport("update_report", p, req[x].status, req[x].tries + 1)
    OBVIOUS
  <2>5. "update_report" \in ReportOps
    BY DEF ReportOps
  <2>6. q \in Request /\ q.pc = "loaded"
    BY <2>1, <2>2, <2>3, <2>4, <2>5, LoadedReportStep
  <2> QED
    BY <1>1, <1>3, <2>4, <2>6, LoadKeeps
<1> QED
  BY <1>2, <1>3 DEF LockTimeout, RetryUpdate

LEMMA EnsureInvNext == TypeInv /\ EnsureInv /\ [Next]_vars => EnsureInv'
<1> SUFFICES ASSUME TypeInv, EnsureInv, [Next]_vars PROVE EnsureInv'
  OBVIOUS
<1>1. CASE UNCHANGED vars
  BY <1>1 DEF vars, EnsureInv, EnsureOK, HasReport, Telling
<1>2. CASE Next
  <2>1. ReportsKept
    BY <1>2, ReportsAreKept
  <2>2. ASSUME NEW x \in Requests, NEW op, NEW row, NEW pc \in {"ensure", "ok"},
               CommitTask(x, op, row, pc), pc = "ok" => op \notin Ensuring
        PROVE  EnsureInv'
    BY <2>1, <2>2, QuietSteps DEF CommitTask
  <2>3. ASSUME NEW x \in Requests,
               \/ StartTask(x) \/ CompleteTask(x) \/ SubmitFeedback(x) \/ FailTask(x)
               \/ HoldTask(x) \/ ResumeTask(x)
        PROVE  EnsureInv'
    BY <2>2, <2>3 DEF StartTask, CompleteTask, SubmitFeedback, FailTask, HoldTask, ResumeTask,
                      Ensuring
  <2>4. ASSUME NEW x \in Requests,
               StartReport(x) \/ UpdateReport(x) \/ CompleteReport(x) \/ DeleteReport(x)
        PROVE  EnsureInv'
    <3>1. /\ autoNotices' = autoNotices /\ req' = [req EXCEPT ![x] = Committed(req[x], "ok")]
          /\ req[x].op \notin Ensuring
      BY <2>4 DEF StartReport, UpdateReport, CompleteReport, DeleteReport, Ensuring
    <3> QED
      BY <2>1, <3>1, QuietSteps
  <2>5. ASSUME NEW x \in Requests, Reply(x) \/ DatabaseError(x) \/ Crash(x) PROVE EnsureInv'
    BY <2>1, <2>5, QuietSteps DEF Reply, DatabaseError, Crash
  <2>6. ASSUME NEW x \in Requests, NEW t \in Tasks, NEW op \in TaskOps, LoadTask(x, op, t)
        PROVE  EnsureInv'
    <3>1. PICK q : q = LoadedTask(op, t)
      OBVIOUS
    <3>2. task[t] \in TaskRow
      BY DEF TypeInv, TypeOK
    <3>3. q \in Request /\ q.pc = "loaded"
      BY <3>1, <3>2, LoadedTaskStep
    <3> QED
      BY <2>1, <2>6, <3>1, <3>3, LoadKeeps DEF LoadTask
  <2>7. ASSUME NEW x \in Requests, NEW p \in Reports, NEW op \in ReportOps, LoadReport(x, op, p)
        PROVE  EnsureInv'
    <3>1. PICK s \in ReportStatuses : req' = [req EXCEPT ![x] = LoadedReport(op, p, s, 0)]
      BY <2>7 DEF LoadReport
    <3>2. PICK q : q = LoadedReport(op, p, s, 0)
      OBVIOUS
    <3>3. report[p].life # "unused" /\ autoNotices' = autoNotices
      BY <2>7 DEF LoadReport
    <3>4. report[p] \in ReportRow /\ report[p].task \in Tasks /\ task[report[p].task] \in TaskRow
      BY <3>3 DEF TypeInv, TypeOK, ReportsHaveTasks
    <3>5. 0 \in 0..MaxLockRetries
      BY ConstantsAssumption
    <3>6. q \in Request /\ q.pc = "loaded"
      BY <3>2, <3>4, <3>5, LoadedReportStep
    <3> QED
      BY <2>1, <3>1, <3>2, <3>3, <3>6, LoadKeeps
  <2>8. ASSUME req' = req, autoNotices' = autoNotices PROVE EnsureInv'
    <3>1. \A r \in Requests : EnsureOK(req[r], report', autoNotices')
      BY <2>1, <2>8, EnsureWaits DEF EnsureInv
    <3>2. \A p \in Reports : autoNotices[p] > 0 => report'[p].auto /\ report'[p].life # "unused"
      BY <2>1 DEF EnsureInv, ReportsKept
    <3> QED
      BY <2>8, <3>1, <3>2 DEF EnsureInv, EnsureOK, HasReport, Telling
  <2> QED
    BY <1>2, <2>1, <2>3, <2>4, <2>5, <2>6, <2>7, <2>8, EnsureReportKeeps, InsertReportKeeps,
       RereadReportKeeps, NotifyKeeps, RetryKeeps
       DEF Next, Proceed, CreateTask, UpdateTask, DeleteTask, CreateReport, FieldStart,
           FieldSubmit
<1> QED
  BY <1>1, <1>2

\* Past _ensure_auto_report_for_task a start or completion has a report, and a lost
\* race is answered 409 only when the winner's report was deleted meanwhile, for any
\* number of requests racing to create it, with or without scripts/0011's index.
THEOREM EnsureTellsTruthAlways == Spec => []EnsureTellsTruth
<1>1. EnsureInv => EnsureTellsTruth
  BY DEF EnsureInv, EnsureOK, HasReport, Ensuring, EnsureTellsTruth, EnsuredHasReport,
         ConflictMeansDeleted
<1> QED
  BY <1>1, TypeInvInit, TypeInvNext, EnsureInvInit, EnsureInvNext, PTL DEF Spec

\* The technician is told of an auto-created report at most once, whichever of
\* start_task and complete_task creates it and whoever fails on the way.
THEOREM AutoNoticeOnceAlways == Spec => []AutoNoticeOnce
<1>1. EnsureInv => AutoNoticeOnce
  BY DEF EnsureInv, AutoNoticeOnce
<1> QED
  BY <1>1, TypeInvInit, TypeInvNext, EnsureInvInit, EnsureInvNext, PTL DEF Spec
=============================================================================
