------------------------------- MODULE Incidents -------------------------------
(***************************************************************************)
(* Incidents, their SLA milestones, their reports and the notices their    *)
(* handlers queue: services/incident.py, services/incident_report.py,      *)
(* api/v1/incident.py, tasks/notifications.py and core/celery_app.py.      *)
(*                                                                         *)
(* A handler loads the row, decides, assigns and commits.  The endpoint    *)
(* queues a notice after the commit, which a Celery worker delivers later; *)
(* without a broker the task runs in the request, which is the worker      *)
(* picking it up at once.                                                  *)
(*                                                                         *)
(* Left out: the ownership checks, which refuse a request before it reads  *)
(* the status; the columns no rule here reads, which are all that the PATCH *)
(* of an incident assigns; the notice of a new report, whose failure is    *)
(* swallowed.                                                              *)
(***************************************************************************)
EXTENDS Naturals, FiniteSets, UnitOfWork

CONSTANTS Incidents, Reports, Requests, Workers,
          Photos,      \* the photographs that may be uploaded
          MaxPhotos,   \* 15 in the code
          Milestones,  \* the milestones the instance follows
          Kinds,       \* the kinds of notice the instance follows
          Null

ASSUME ConstantsAssumption ==
    /\ Milestones \subseteq {"responded_at", "arrived_on_site_at",
                             "temporarily_restored_at", "permanently_restored_at"}
    /\ Kinds \subseteq {"create", "start", "resolve"}
    /\ MaxPhotos \in Nat
    /\ Null \notin Incidents \cup Reports \cup Requests

Statuses == {"open", "in_progress", "resolved"}

\* A milestone is stamped with a time of its own: the request that stamped it.
IncidentRow == [life : Life, status : Statuses, stamps : [Milestones -> Requests \cup {Null}]]

\* Of the attachments, the photographs.
ReportRow == [life : Life, incident : Incidents \cup {Null}, photos : SUBSET Photos]

NoIncident == [life |-> "unused", status |-> "open", stamps |-> [m \in Milestones |-> Null]]

NoReport == [life |-> "unused", incident |-> Null, photos |-> {}]

\* The argument of a Celery task: which incident, and what happened to it.
Notice == [inc : Incidents, kind : Kinds]

\* A request from its load to its answer.  On an incident it keeps the row it read
\* and the object it assigned to; on a report the photographs it read and assigns,
\* `file' being the one it uploads.
Work == [pc : {"idle", "incident", "notify", "reporting", "report"},
         op : {Null, "create", "update", "start", "resolve", "delete", "patch", "upload"} \cup Milestones,
         inc : Incidents \cup {Null}, seen : IncidentRow, next : IncidentRow,
         rep : Reports \cup {Null}, had : SUBSET Photos, photos : SUBSET Photos,
         file : SUBSET Photos]

NoWork == [pc |-> "idle", op |-> Null, inc |-> Null, seen |-> NoIncident, next |-> NoIncident,
           rep |-> Null, had |-> {}, photos |-> {}, file |-> {}]

VARIABLES
    incident,  \* the table incidents
    report,    \* the table incident_reports
    work,      \* the requests being served
    queue,     \* the notices the broker holds until they are acknowledged, equal ones as one
    busy,      \* the notice a worker is delivering, or Null
    told,      \* of the last event of a kind: "none" happened, "owed", "sent" or "lost"
    kept,      \* the photographs a report's uploads were answered with success for
    raced      \* the incidents and reports two requests have held at the same time
vars == <<incident, report, work, queue, busy, told, kept, raced>>

TypeOK ==
    /\ incident \in [Incidents -> IncidentRow]
    /\ report \in [Reports -> ReportRow]
    /\ work \in [Requests -> Work]
    /\ queue \subseteq Notice
    /\ busy \in [Workers -> Notice \cup {Null}]
    /\ told \in [Notice -> {"none", "owed", "sent", "lost"}]
    /\ kept \in [Reports -> SUBSET Photos]
    /\ raced \subseteq Incidents \cup Reports

Init ==
    /\ incident = [i \in Incidents |-> NoIncident]
    /\ report = [p \in Reports |-> NoReport]
    /\ work = [r \in Requests |-> NoWork]
    /\ queue = {} /\ busy = [w \in Workers |-> Null]
    /\ told = [n \in Notice |-> "none"]
    /\ kept = [p \in Reports |-> {}] /\ raced = {}

HoldsIncident(r, i) == work[r].pc = "incident" /\ work[r].inc = i
HoldsReport(r, p)   == work[r].pc = "report" /\ work[r].rep = p

Owed(i, kind, t) ==
    [n \in Notice |-> IF n = [inc |-> i, kind |-> kind] THEN "owed" ELSE t[n]]
-----------------------------------------------------------------------------
(* Incidents.                                                              *)

\* What the endpoint still has to do after the commit of `op'.
AfterCommit(op, i) ==
    IF op \in Kinds THEN [NoWork EXCEPT !.pc = "notify", !.op = op, !.inc = i] ELSE NoWork

\* create_incident: one insert, the status left to its default.
CreateIncident(r, i) ==
    /\ work[r].pc = "idle" /\ incident[i].life = "unused"
    /\ incident' = [incident EXCEPT ![i].life = "live"]
    /\ work' = [work EXCEPT ![r] = AfterCommit("create", i)]
    /\ told' = Owed(i, "create", told)
    /\ UNCHANGED <<report, queue, busy, kept, raced>>

\* Slip: a milestone is stamped whether or not it was reached before.
StampedAnew(row, op, r) ==
    CASE op = "start"   -> [row EXCEPT !.status = "in_progress"]
      [] op = "resolve" -> [row EXCEPT !.status = "resolved"]
      [] op = "delete"  -> SoftDeleted(row)
      [] op \in Milestones -> [row EXCEPT !.stamps[op] = r]
      [] OTHER -> row

\* Slip: a milestone is kept as the status.
MilestoneAsStatus(row, op, r) ==
    CASE op = "start"   -> [row EXCEPT !.status = "in_progress"]
      [] op = "resolve" -> [row EXCEPT !.status = "resolved"]
      [] op = "delete"  -> SoftDeleted(row)
      [] op \in Milestones -> [row EXCEPT !.status = op]
      [] OTHER -> row

\* The methods of Incident: start and resolve from any status, a milestone once.
Assigned(row, op, r) ==
    CASE op = "start"   -> [row EXCEPT !.status = "in_progress"]
      [] op = "resolve" -> [row EXCEPT !.status = "resolved"]
      [] op = "delete"  -> SoftDeleted(row)
      [] op \in Milestones -> [row EXCEPT !.stamps[op] = IF row.stamps[op] = Null THEN r ELSE row.stamps[op]]
      [] OTHER -> row

LoadIncident(r, i, op) ==
    /\ work[r].pc = "idle" /\ incident[i].life = "live"
    /\ work' = [work EXCEPT ![r] = [NoWork EXCEPT !.pc = "incident", !.op = op, !.inc = i,
                                      !.seen = incident[i], !.next = Assigned(incident[i], op, r)]]
    /\ raced' = IF \E q \in Requests : HoldsIncident(q, i) THEN raced \cup {i} ELSE raced
    /\ UNCHANGED <<incident, report, queue, busy, told, kept>>

\* The columns that were assigned another value than was read.
Flushed(now, seen, next) ==
    [life   |-> IF next.life = "deleted" THEN "deleted" ELSE now.life,
     status |-> Written(now.status, seen.status, next.status),
     stamps |-> [m \in Milestones |-> Written(now.stamps[m], seen.stamps[m], next.stamps[m])]]

CommitIncident(r) ==
    /\ work[r].pc = "incident"
    /\ LET w == work[r] IN
       /\ incident' = [incident EXCEPT ![w.inc] = Flushed(@, w.seen, w.next)]
       /\ work' = [work EXCEPT ![r] = AfterCommit(w.op, w.inc)]
       /\ told' = Owed(w.inc, w.op, told)
    /\ UNCHANGED <<report, queue, busy, kept, raced>>
-----------------------------------------------------------------------------
(* Notices: task_acks_late keeps a message in the broker until its task has *)
(* ended.                                                                   *)

\* notify_incident_*.delay, after the service has answered.
Enqueue(r) ==
    /\ work[r].pc = "notify"
    /\ queue' = queue \cup {[inc |-> work[r].inc, kind |-> work[r].op]}
    /\ work' = [work EXCEPT ![r] = NoWork]
    /\ UNCHANGED <<incident, report, busy, told, kept, raced>>

\* Slip: without task_acks_late the message is acknowledged when it is picked up.
PickUpAcknowledging(w, n) ==
    /\ busy[w] = Null /\ n \in queue
    /\ busy' = [busy EXCEPT ![w] = n] /\ queue' = queue \ {n}
    /\ UNCHANGED <<incident, report, work, told, kept, raced>>

PickUp(w, n) ==
    /\ busy[w] = Null /\ n \in queue /\ \A v \in Workers : busy[v] # n
    /\ busy' = [busy EXCEPT ![w] = n]
    /\ UNCHANGED <<incident, report, work, queue, told, kept, raced>>

\* The task ends and its message is acknowledged: the notifications are stored, or
\* _bg_notify_* has swallowed an exception, or the process that ran it was killed.
EndTask(w) ==
    /\ busy[w] # Null
    /\ queue' = queue \ {busy[w]}
    /\ busy' = [busy EXCEPT ![w] = Null]
    /\ \E outcome \in {"sent", "lost"} : told' = [told EXCEPT ![busy[w]] = outcome]
    /\ UNCHANGED <<incident, report, work, kept, raced>>

\* The worker goes down and comes back: what it was delivering is delivered again.
RestartWorker(w) ==
    /\ busy[w] # Null
    /\ busy' = [busy EXCEPT ![w] = Null]
    /\ UNCHANGED <<incident, report, work, queue, told, kept, raced>>
-----------------------------------------------------------------------------
(* Incident reports.                                                       *)

LiveReports(i) == {p \in Reports : report[p].life = "live" /\ report[p].incident = i}

\* Slip: Rule 1 forgotten.
LoadForReportOfAny(r, i) ==
    /\ work[r].pc = "idle" /\ incident[i].life = "live" /\ LiveReports(i) = {}
    /\ work' = [work EXCEPT ![r] = [NoWork EXCEPT !.pc = "reporting", !.inc = i]]
    /\ UNCHANGED <<incident, report, queue, busy, told, kept, raced>>

\* create_incident_report up to the insert: the work has begun (Rule 1), and there
\* is no report of it yet (Rule 4).
LoadForReport(r, i) ==
    /\ work[r].pc = "idle" /\ incident[i].life = "live"
    /\ incident[i].status # "open"
    /\ LiveReports(i) = {}
    /\ work' = [work EXCEPT ![r] = [NoWork EXCEPT !.pc = "reporting", !.inc = i]]
    /\ UNCHANGED <<incident, report, queue, busy, told, kept, raced>>

\* Slip: the index uq_incident_report_incident_active is not there.
InsertUnindexed(r, p) ==
    /\ work[r].pc = "reporting" /\ report[p].life = "unused"
    /\ \E photos \in SUBSET Photos :
          report' = [report EXCEPT ![p] = [life |-> "live", incident |-> work[r].inc, photos |-> photos]]
    /\ work' = [work EXCEPT ![r] = NoWork]
    /\ UNCHANGED <<incident, queue, busy, told, kept, raced>>

\* The insert, with any attachments; the partial unique index refuses a second
\* report, and the request is answered with a conflict.
InsertReport(r, p) ==
    /\ work[r].pc = "reporting" /\ report[p].life = "unused"
    /\ \/ /\ LiveReports(work[r].inc) = {}
          /\ \E photos \in SUBSET Photos :
                report' = [report EXCEPT ![p] = [life |-> "live", incident |-> work[r].inc,
                                                 photos |-> photos]]
       \/ LiveReports(work[r].inc) # {} /\ UNCHANGED report
    /\ work' = [work EXCEPT ![r] = NoWork]
    /\ UNCHANGED <<incident, queue, busy, told, kept, raced>>

LoadReport(r, p, op, photos, file) ==
    /\ work[r].pc = "idle" /\ report[p].life = "live"
    /\ work' = [work EXCEPT ![r] = [NoWork EXCEPT !.pc = "report", !.op = op, !.rep = p,
                                      !.had = report[p].photos, !.photos = photos, !.file = file]]
    /\ raced' = IF \E q \in Requests : HoldsReport(q, p) THEN raced \cup {p} ELSE raced
    /\ UNCHANGED <<incident, report, queue, busy, told, kept>>

\* A PATCH may replace the attachments by any others.
LoadForPatch(r, p) ==
    \E photos \in SUBSET Photos : LoadReport(r, p, "patch", photos, {})

LoadForDelete(r, p) == LoadReport(r, p, "delete", report[p].photos, {})

\* upload_report_photo: the file goes to the storage, and one more entry to a copy
\* of the list that was read.
LoadForUpload(r, p) ==
    /\ Cardinality(report[p].photos) < MaxPhotos
    /\ \E f \in Photos \ (report[p].photos \cup kept[p]) :
          LoadReport(r, p, "upload", report[p].photos \cup {f}, {f})

\* Slip: the entry is appended to the list in place, which the flush does not see.
AppendedInPlace(now, w) ==
    [now EXCEPT !.life = IF w.op = "delete" THEN "deleted" ELSE @,
                !.photos = IF w.op = "patch" THEN Written(@, w.had, w.photos) ELSE @]

FlushedReport(now, w) ==
    [now EXCEPT !.life = IF w.op = "delete" THEN "deleted" ELSE @,
                !.photos = Written(@, w.had, w.photos)]

CommitReport(r) ==
    /\ work[r].pc = "report"
    /\ LET w == work[r] IN
       /\ report' = [report EXCEPT ![w.rep] = FlushedReport(@, w)]
       /\ kept' = [kept EXCEPT ![w.rep] = IF w.op = "patch" THEN {} ELSE @ \cup w.file]
    /\ work' = [work EXCEPT ![r] = NoWork]
    /\ UNCHANGED <<incident, queue, busy, told, raced>>

\* An exception or a crash: what was not committed is rolled back, and a notice that
\* was not queued is never queued.
Fail(r) ==
    /\ work[r].pc # "idle"
    /\ LET n == [inc |-> work[r].inc, kind |-> work[r].op] IN
       told' = IF work[r].pc = "notify" /\ told[n] = "owed" /\ n \notin queue
               THEN [told EXCEPT ![n] = "lost"] ELSE told
    /\ work' = [work EXCEPT ![r] = NoWork]
    /\ UNCHANGED <<incident, report, queue, busy, kept, raced>>

RequestStep(r) ==
    \/ \E i \in Incidents : \/ CreateIncident(r, i)
                            \/ LoadForReport(r, i)
                            \/ \E op \in {"update", "start", "resolve", "delete"} \cup Milestones :
                                  LoadIncident(r, i, op)
    \/ \E p \in Reports : \/ InsertReport(r, p)
                          \/ LoadForPatch(r, p)
                          \/ LoadForDelete(r, p)
                          \/ LoadForUpload(r, p)
    \/ CommitIncident(r)
    \/ Enqueue(r)
    \/ CommitReport(r)
    \/ Fail(r)

WorkerStep(w) ==
    \/ \E n \in Notice : PickUp(w, n)
    \/ EndTask(w)
    \/ RestartWorker(w)

Next == (\E r \in Requests : RequestStep(r)) \/ (\E w \in Workers : WorkerStep(w))

Spec == Init /\ [][Next]_vars
-----------------------------------------------------------------------------
(* Properties.                                                             *)

\* An incident never has two live reports, whoever files them at once (Rule 4 and
\* the partial unique index behind it).
OneActiveReport ==
    \A p, q \in Reports :
       report[p].life = "live" /\ report[q].life = "live"
         /\ report[p].incident = report[q].incident => p = q

\* A report is of an incident on which work has begun, also when the incident was
\* resolved, started again or deleted after the report's handler read it (Rule 1).
ReportMeansStarted ==
    \A p \in Reports : report[p].life # "unused" => incident[report[p].incident].status # "open"

\* A milestone keeps the time it was first reached, which the SLA is judged by, while
\* no two requests overlap on the incident (mark_* of models/incident.py).
MilestoneStands ==
    [][\A i \in Incidents \ raced' : \A m \in Milestones :
          incident[i].stamps[m] # Null => incident'[i].stamps[m] = incident[i].stamps[m]]_vars

\* A photograph whose upload was answered with success is in the report until a PATCH
\* replaces the attachments, while no two requests overlap on the report.
PhotosKept == \A p \in Reports \ raced : kept[p] \subseteq report[p].photos

\* What was committed is announced, or its notice is on the way, or lost with an error
\* that was answered or logged: no restart of a worker loses it (core/celery_app.py).
NoticeUnderway ==
    \A n \in Notice :
       told[n] = "owed" => \/ n \in queue
                           \/ \E r \in Requests : /\ work[r].pc = "notify"
                                                  /\ work[r].inc = n.inc /\ work[r].op = n.kind
=============================================================================
