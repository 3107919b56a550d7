----------------------------- MODULE IncidentProofs ----------------------------
(***************************************************************************)
(* The invariants of Incidents, for any number of incidents, reports,      *)
(* photographs, requests and workers and any limit on the photographs.     *)
(*                                                                         *)
(* Rule 1 and the notices rest on what the requests at work know           *)
(* (WorkersOK); a milestone and a photograph also on the one request that  *)
(* holds a row nobody raced on having read it as it still is               *)
(* (HoldersAreCurrent).                                                    *)
(***************************************************************************)
EXTENDS Incidents, TLAPS

Operations == {"update", "start", "resolve", "delete"} \cup Milestones

\* A status never goes back to open, and only an empty stamp is written.
Forward(from, to) ==
    /\ to.status = from.status \/ to.status # "open"
    /\ \A m \in Milestones : to.stamps[m] = from.stamps[m] \/ from.stamps[m] = Null

WorkerOK(w, inc, rep) ==
    /\ w.pc \in {"incident", "notify", "reporting"} => w.inc \in Incidents
    /\ w.pc = "incident" => /\ Forward(w.seen, w.next) /\ w.op \in Operations
                            /\ inc[w.inc].life # "unused"
    /\ w.pc = "notify" => w.op \in Kinds
    /\ w.pc = "reporting" => inc[w.inc].status # "open"
    /\ w.pc = "report" => /\ w.rep \in Reports /\ rep[w.rep].life # "unused"
                          /\ w.op # "patch" => w.had \cup w.file \subseteq w.photos

WorkersOK == \A r \in Requests : WorkerOK(work[r], incident, report)

\* Who holds a row nobody raced on holds it alone, and has read it as it is.
HoldersAreCurrent ==
    /\ \A i \in Incidents \ raced, r \in Requests :
          HoldsIncident(r, i) => /\ work[r].seen = incident[i]
                                 /\ \A q \in Requests : HoldsIncident(q, i) => q = r
    /\ \A p \in Reports \ raced, r \in Requests :
          HoldsReport(r, p) => /\ work[r].had = report[p].photos
                               /\ \A q \in Requests : HoldsReport(q, p) => q = r

\* A report is of an incident at work, and none has kept a photograph before it is.
ReportsOK ==
    \A p \in Reports :
       /\ report[p].life # "unused" => /\ report[p].incident \in Incidents
                                       /\ incident[report[p].incident].status # "open"
       /\ report[p].life = "unused" => kept[p] = {}

Inv == /\ TypeOK /\ WorkersOK /\ HoldersAreCurrent /\ ReportsOK
       /\ OneActiveReport /\ NoticeUnderway /\ PhotosKept

LEMMA InvImpliesProperties ==
    Inv => OneActiveReport /\ ReportMeansStarted /\ PhotosKept /\ NoticeUnderway
  BY DEF Inv, ReportsOK, ReportMeansStarted
-----------------------------------------------------------------------------
(* What the actions build.                                                 *)

LEMMA EmptyRows == NoIncident \in IncidentRow /\ NoReport \in ReportRow
  BY DEF NoIncident, IncidentRow, NoReport, ReportRow, Life, Statuses

LEMMA IdleRequest ==
    /\ NoWork \in Work /\ NoWork.pc = "idle"
    /\ \A inc, rep : WorkerOK(NoWork, inc, rep)
  BY EmptyRows DEF NoWork, Work, WorkerOK

\* The methods of Incident keep the row's type and only go forward.
LEMMA AssignedForward ==
    ASSUME NEW row \in IncidentRow, NEW op \in Operations, NEW r \in Requests,
           NEW q, q = Assigned(row, op, r)
    PROVE  q \in IncidentRow /\ Forward(row, q)
<1>0. op \notin Milestones \/ op \notin {"update", "start", "resolve", "delete"}
  BY ConstantsAssumption DEF ConstantsAssumption
<1>1. CASE op = "update"
  <2>1. q = row
    BY <1>0, <1>1 DEF Assigned
  <2> QED
    BY <2>1 DEF Forward
<1>2. CASE op = "start"
  <2>1. q = [row EXCEPT !.status = "in_progress"]
    BY <1>0, <1>2 DEF Assigned
  <2>2. q = [life |-> row.life, status |-> "in_progress", stamps |-> row.stamps]
    BY <2>1 DEF IncidentRow
  <2> QED
    BY <2>2 DEF IncidentRow, Statuses, Forward
<1>3. CASE op = "resolve"
  <2>1. q = [row EXCEPT !.status = "resolved"]
    BY <1>0, <1>3 DEF Assigned
  <2>2. q = [life |-> row.life, status |-> "resolved", stamps |-> row.stamps]
    BY <2>1 DEF IncidentRow
  <2> QED
    BY <2>2 DEF IncidentRow, Statuses, Forward
<1>4. CASE op = "delete"
  <2>1. q = SoftDeleted(row)
    BY <1>0, <1>4 DEF Assigned
  <2>2. q = [life |-> "deleted", status |-> row.status, stamps |-> row.stamps]
    BY <2>1 DEF SoftDeleted, IncidentRow
  <2> QED
    BY <2>2 DEF IncidentRow, Life, Forward
<1>5. CASE op \in Milestones
  <2>0. op \notin {"update", "start", "resolve", "delete"}
    BY <1>0, <1>5
  <2>1. PICK s : s = IF row.stamps[op] = Null THEN r ELSE row.stamps[op]
    OBVIOUS
  <2>2. q = [row EXCEPT !.stamps[op] = s]
    BY <1>5, <2>0, <2>1 DEF Assigned
  <2>3. q = [life |-> row.life, status |-> row.status, stamps |-> [row.stamps EXCEPT ![op] = s]]
    BY <2>2 DEF IncidentRow
  <2>4. s \in Requests \cup {Null} /\ row.stamps \in [Milestones -> Requests \cup {Null}]
    BY <1>5, <2>1 DEF IncidentRow
  <2>5. [row.stamps EXCEPT ![op] = s] \in [Milestones -> Requests \cup {Null}]
    BY <2>4
  <2>6. q \in IncidentRow
    BY <2>3, <2>5 DEF IncidentRow
  <2>7. \A m \in Milestones : q.stamps[m] = row.stamps[m] \/ row.stamps[m] = Null
    BY <1>5, <2>1, <2>3, <2>4
  <2> QED
    BY <2>3, <2>6, <2>7 DEF Forward
<1> QED
  BY <1>1, <1>2, <1>3, <1>4, <1>5 DEF Operations

\* What a commit makes of the row: never open again, and a stamp that stands if the
\* handler read the row as it is.
LEMMA FlushedForward ==
    ASSUME NEW now \in IncidentRow, NEW seen \in IncidentRow, NEW next \in IncidentRow,
           Forward(seen, next), NEW q, q = Flushed(now, seen, next)
    PROVE  /\ q \in IncidentRow
           /\ q.status = now.status \/ q.status # "open"
           /\ now.life # "unused" => q.life # "unused"
           /\ seen = now => Forward(now, q)
<1>1. q = [life |-> IF next.life = "deleted" THEN "deleted" ELSE now.life,
           status |-> Written(now.status, seen.status, next.status),
           stamps |-> [m \in Milestones |-> Written(now.stamps[m], seen.stamps[m], next.stamps[m])]]
  BY DEF Flushed
<1>2. q \in IncidentRow
  <2>1. \A m \in Milestones : Written(now.stamps[m], seen.stamps[m], next.stamps[m]) \in Requests \cup {Null}
    BY DEF Written, IncidentRow
  <2>2. Written(now.status, seen.status, next.status) \in Statuses
    BY DEF Written, IncidentRow
  <2> QED
    BY <1>1, <2>1, <2>2 DEF IncidentRow, Life
<1>3. q.status = now.status \/ q.status # "open"
  BY <1>1 DEF Written, Forward
<1>4. seen = now => Forward(now, q)
  BY <1>1, <1>3 DEF Written, Forward
<1>5. now.life # "unused" => q.life # "unused"
  BY <1>1
<1> QED
  BY <1>2, <1>3, <1>4, <1>5
-----------------------------------------------------------------------------
(* Steps that leave the tables alone.                                      *)

LEMMA RowsStay ==
    ASSUME Inv, UNCHANGED <<incident, report, kept>>, raced \subseteq raced'
    PROVE  ReportsOK' /\ OneActiveReport' /\ PhotosKept'
  BY DEF Inv, ReportsOK, OneActiveReport, PhotosKept

\* Request r goes on with q; the others keep what they know.
LEMMA WorkChanges ==
    ASSUME Inv, NEW r \in Requests, NEW q \in Work, WorkerOK(q, incident, report),
           work' = [work EXCEPT ![r] = q], UNCHANGED <<incident, report>>
    PROVE  /\ work' \in [Requests -> Work]
           /\ \A p \in Requests : work'[p] = IF p = r THEN q ELSE work[p]
           /\ WorkersOK'
<1>1. work' \in [Requests -> Work] /\ \A p \in Requests : work'[p] = IF p = r THEN q ELSE work[p]
  BY DEF Inv, TypeOK
<1>2. WorkersOK'
  BY <1>1 DEF Inv, WorkersOK
<1> QED
  BY <1>1, <1>2

\* Who comes to hold nothing leaves the rows to the others.
LEMMA HoldersLeave ==
    ASSUME Inv, NEW r \in Requests, NEW q \in Work, q.pc \notin {"incident", "report"},
           work' = [work EXCEPT ![r] = q], UNCHANGED <<incident, report, raced>>
    PROVE  HoldersAreCurrent'
<1>1. \A p \in Requests : work'[p] = IF p = r THEN q ELSE work[p]
  BY DEF Inv, TypeOK
<1>2. \A p \in Requests, i \in Incidents : HoldsIncident(p, i)' => HoldsIncident(p, i) /\ work'[p] = work[p]
  BY <1>1 DEF HoldsIncident
<1>3. \A p \in Requests, x \in Reports : HoldsReport(p, x)' => HoldsReport(p, x) /\ work'[p] = work[p]
  BY <1>1 DEF HoldsReport
<1> QED
  BY <1>2, <1>3 DEF Inv, HoldersAreCurrent

LEMMA LoadIncidentStep ==
    ASSUME Inv, NEW r \in Requests, NEW i \in Incidents, NEW op \in Operations,
           LoadIncident(r, i, op)
    PROVE  Inv'
<1>1. incident[i] \in IncidentRow /\ work[r].pc = "idle" /\ incident[i].life = "live"
  BY DEF Inv, TypeOK, LoadIncident
<1>2. PICK n : n = Assigned(incident[i], op, r)
  OBVIOUS
<1>3. n \in IncidentRow /\ Forward(incident[i], n)
  BY <1>1, <1>2, AssignedForward
<1>4. PICK q : q = [NoWork EXCEPT !.pc = "incident", !.op = op, !.inc = i,
                                  !.seen = incident[i], !.next = n]
  OBVIOUS
<1>5. q = [pc |-> "incident", op |-> op, inc |-> i, seen |-> incident[i], next |-> n, rep |-> Null,
           had |-> {}, photos |-> {}, file |-> {}]
  BY <1>4 DEF NoWork
<1>6. q \in Work
  BY <1>1, <1>3, <1>5 DEF Work, Operations
<1>7. WorkerOK(q, incident, report)
  BY <1>1, <1>3, <1>5 DEF WorkerOK
<1>8. work' = [work EXCEPT ![r] = q] /\ UNCHANGED <<incident, report, queue, busy, told, kept>>
      /\ raced' = IF \E p \in Requests : HoldsIncident(p, i) THEN raced \cup {i} ELSE raced
  BY <1>2, <1>4 DEF LoadIncident
<1>9. work' \in [Requests -> Work] /\ WorkersOK'
      /\ \A p \in Requests : work'[p] = IF p = r THEN q ELSE work[p]
  BY <1>6, <1>7, <1>8, WorkChanges
<1>10. TypeOK'
  BY <1>8, <1>9 DEF Inv, TypeOK
<1>11. HoldersAreCurrent'
  <2>1. \A p \in Requests, x \in Reports : HoldsReport(p, x)' => HoldsReport(p, x) /\ work'[p] = work[p]
    BY <1>5, <1>9 DEF HoldsReport
  <2>2. \A p \in Requests, j \in Incidents :
           HoldsIncident(p, j)' => \/ p = r /\ j = i
                                   \/ p # r /\ HoldsIncident(p, j) /\ work'[p] = work[p]
    BY <1>5, <1>9 DEF HoldsIncident
  <2>3. i \notin raced' => ~ \E p \in Requests : HoldsIncident(p, i)
    BY <1>8
  <2>4. work'[r].seen = incident[i]
    BY <1>5, <1>9
  <2>5. ASSUME NEW j \in Incidents \ raced', NEW p \in Requests, HoldsIncident(p, j)'
        PROVE  /\ work'[p].seen = incident'[j]
               /\ \A o \in Requests : HoldsIncident(o, j)' => o = p
    <3>1. j \notin raced
      BY <1>8, <2>5
    <3>2. CASE j = i
      <4>1. \A o \in Requests : HoldsIncident(o, j)' => o = r
        BY <2>2, <2>3, <2>5, <3>2
      <4> QED
        BY <1>8, <2>4, <2>5, <3>2, <4>1
    <3>3. CASE j # i
      <4>1. \A o \in Requests : HoldsIncident(o, j)' => HoldsIncident(o, j) /\ work'[o] = work[o]
        BY <2>2, <2>5, <3>3
      <4>2. /\ work[p].seen = incident[j]
            /\ \A o \in Requests : HoldsIncident(o, j) => o = p
        BY <2>5, <3>1, <4>1 DEF Inv, HoldersAreCurrent
      <4> QED
        BY <1>8, <2>5, <4>1, <4>2
    <3> QED
      BY <3>2, <3>3
  <2>6. \A x \in Reports \ raced', p \in Requests :
           HoldsReport(p, x)' => /\ work'[p].had = report'[x].photos
                                 /\ \A o \in Requests : HoldsReport(o, x)' => o = p
    BY <1>8, <2>1 DEF Inv, HoldersAreCurrent
  <2> QED
    BY <2>5, <2>6 DEF HoldersAreCurrent
<1>12. ReportsOK' /\ OneActiveReport' /\ PhotosKept'
  BY <1>8, RowsStay
<1>13. NoticeUnderway'
  BY <1>1, <1>8, <1>9 DEF Inv, NoticeUnderway
<1> QED
  BY <1>9, <1>10, <1>11, <1>12, <1>13 DEF Inv

LEMMA LoadReportStep ==
    ASSUME Inv, NEW r \in Requests, NEW x \in Reports, NEW op \in {"patch", "delete", "upload"},
           NEW photos \in SUBSET Photos, NEW file \in SUBSET Photos,
           op # "patch" => report[x].photos \cup file \subseteq photos,
           LoadReport(r, x, op, photos, file)
    PROVE  Inv'
<1>1. report[x] \in ReportRow /\ work[r].pc = "idle" /\ report[x].life = "live"
  BY DEF Inv, TypeOK, LoadReport
<1>4. PICK q : q = [NoWork EXCEPT !.pc = "report", !.op = op, !.rep = x,
                                  !.had = report[x].photos, !.photos = photos, !.file = file]
  OBVIOUS
<1>5. q = [pc |-> "report", op |-> op, inc |-> Null, seen |-> NoIncident, next |-> NoIncident,
           rep |-> x, had |-> report[x].photos, photos |-> photos, file |-> file]
  BY <1>4 DEF NoWork
<1>6. q \in Work
  BY <1>1, <1>5, EmptyRows DEF Work, ReportRow
<1>7. WorkerOK(q, incident, report)
  BY <1>1, <1>5 DEF WorkerOK
<1>8. work' = [work EXCEPT ![r] = q] /\ UNCHANGED <<incident, report, queue, busy, told, kept>>
      /\ raced' = IF \E p \in Requests : HoldsReport(p, x) THEN raced \cup {x} ELSE raced
  BY <1>4 DEF LoadReport
<1>9. work' \in [Requests -> Work] /\ WorkersOK'
      /\ \A p \in Requests : work'[p] = IF p = r THEN q ELSE work[p]
  BY <1>6, <1>7, <1>8, WorkChanges
<1>10. TypeOK'
  BY <1>8, <1>9 DEF Inv, TypeOK
<1>11. HoldersAreCurrent'
  <2>1. \A p \in Requests, i \in Incidents : HoldsIncident(p, i)' => HoldsIncident(p, i) /\ work'[p] = work[p]
    BY <1>5, <1>9 DEF HoldsIncident
  <2>2. \A p \in Requests, y \in Reports :
           HoldsReport(p, y)' => \/ p = r /\ y = x
                                 \/ p # r /\ HoldsReport(p, y) /\ work'[p] = work[p]
    BY <1>5, <1>9 DEF HoldsReport
  <2>3. x \notin raced' => ~ \E p \in Requests : HoldsReport(p, x)
    BY <1>8
  <2>4. work'[r].had = report[x].photos
    BY <1>5, <1>9
  <2>5. ASSUME NEW y \in Reports \ raced', NEW p \in Requests, HoldsReport(p, y)'
        PROVE  /\ work'[p].had = report'[y].photos
               /\ \A o \in Requests : HoldsReport(o, y)' => o = p
    <3>1. y \notin raced
      BY <1>8, <2>5
    <3>2. CASE y = x
      <4>1. \A o \in Requests : HoldsReport(o, y)' => o = r
        BY <2>2, <2>3, <2>5, <3>2
      <4> QED
        BY <1>8, <2>4, <2>5, <3>2, <4>1
    <3>3. CASE y # x
      <4>1. \A o \in Requests : HoldsReport(o, y)' => HoldsReport(o, y) /\ work'[o] = work[o]
        BY <2>2, <2>5, <3>3
      <4>2. /\ work[p].had = report[y].photos
            /\ \A o \in Requests : HoldsReport(o, y) => o = p
        BY <2>5, <3>1, <4>1 DEF Inv, HoldersAreCurrent
      <4> QED
        BY <1>8, <2>5, <4>1, <4>2
    <3> QED
      BY <3>2, <3>3
  <2>6. \A i \in Incidents \ raced', p \in Requests :
           HoldsIncident(p, i)' => /\ work'[p].seen = incident'[i]
                                   /\ \A o \in Requests : HoldsIncident(o, i)' => o = p
    BY <1>8, <2>1 DEF Inv, HoldersAreCurrent
  <2> QED
    BY <2>5, <2>6 DEF HoldersAreCurrent
<1>12. ReportsOK' /\ OneActiveReport' /\ PhotosKept'
  BY <1>8, RowsStay
<1>13. NoticeUnderway'
  BY <1>1, <1>8, <1>9 DEF Inv, NoticeUnderway
<1> QED
  BY <1>9, <1>10, <1>11, <1>12, <1>13 DEF Inv

LEMMA LoadForReportStep ==
    ASSUME Inv, NEW r \in Requests, NEW i \in Incidents, LoadForReport(r, i)
    PROVE  Inv'
<1>1. work[r].pc = "idle" /\ incident[i].status # "open"
  BY DEF LoadForReport
<1>2. PICK q : q = [NoWork EXCEPT !.pc = "reporting", !.inc = i]
  OBVIOUS
<1>3. q = [pc |-> "reporting", op |-> Null, inc |-> i, seen |-> NoIncident, next |-> NoIncident,
           rep |-> Null, had |-> {}, photos |-> {}, file |-> {}]
  BY <1>2 DEF NoWork
<1>4. q \in Work /\ WorkerOK(q, incident, report)
  BY <1>1, <1>3, EmptyRows DEF Work, WorkerOK
<1>5. work' = [work EXCEPT ![r] = q] /\ UNCHANGED <<incident, report, queue, busy, told, kept, raced>>
  BY <1>2 DEF LoadForReport
<1>6. work' \in [Requests -> Work] /\ WorkersOK'
      /\ \A p \in Requests : work'[p] = IF p = r THEN q ELSE work[p]
  BY <1>4, <1>5, WorkChanges
<1>7. TypeOK'
  BY <1>5, <1>6 DEF Inv, TypeOK
<1>8. HoldersAreCurrent'
  BY <1>3, <1>4, <1>5, HoldersLeave
<1>9. ReportsOK' /\ OneActiveReport' /\ PhotosKept'
  BY <1>5, RowsStay
<1>10. NoticeUnderway'
  BY <1>1, <1>5, <1>6 DEF Inv, NoticeUnderway
<1> QED
  BY <1>6, <1>7, <1>8, <1>9, <1>10 DEF Inv

\* Requests that end without touching a table: queueing the notice, or failing.
LEMMA EnqueueStep ==
    ASSUME Inv, NEW r \in Requests, Enqueue(r)
    PROVE  Inv'
<1>1. work[r].pc = "notify" /\ [inc |-> work[r].inc, kind |-> work[r].op] \in Notice
  BY DEF Inv, WorkersOK, WorkerOK, Enqueue, Notice
<1>2. work' = [work EXCEPT ![r] = NoWork] /\ UNCHANGED <<incident, report, busy, told, kept, raced>>
      /\ queue' = queue \cup {[inc |-> work[r].inc, kind |-> work[r].op]}
  BY DEF Enqueue
<1>3. work' \in [Requests -> Work] /\ WorkersOK'
      /\ \A p \in Requests : work'[p] = IF p = r THEN NoWork ELSE work[p]
  BY <1>2, IdleRequest, WorkChanges
<1>4. TypeOK'
  BY <1>1, <1>2, <1>3 DEF Inv, TypeOK
<1>5. HoldersAreCurrent'
  BY <1>2, IdleRequest, HoldersLeave
<1>6. ReportsOK' /\ OneActiveReport' /\ PhotosKept'
  BY <1>2, RowsStay
<1>7. NoticeUnderway'
  <2> SUFFICES ASSUME NEW n \in Notice, told[n] = "owed", n \notin queue'
               PROVE  \E p \in Requests : work'[p].pc = "notify" /\ work'[p].inc = n.inc /\ work'[p].op = n.kind
    BY <1>2 DEF NoticeUnderway
  <2>1. PICK p \in Requests : work[p].pc = "notify" /\ work[p].inc = n.inc /\ work[p].op = n.kind
    BY <1>2 DEF Inv, NoticeUnderway
  <2>2. n = [inc |-> n.inc, kind |-> n.kind]
    BY DEF Notice
  <2>3. p # r
    BY <1>2, <2>1, <2>2
  <2> QED
    BY <1>3, <2>1, <2>3
<1> QED
  BY <1>3, <1>4, <1>5, <1>6, <1>7 DEF Inv

LEMMA FailStep ==
    ASSUME Inv, NEW r \in Requests, Fail(r)
    PROVE  Inv'
<1> DEFINE n == [inc |-> work[r].inc, kind |-> work[r].op]
<1>1. work[r].pc = "notify" => n \in Notice
  BY DEF Inv, WorkersOK, WorkerOK, Notice
<1>2. work' = [work EXCEPT ![r] = NoWork] /\ UNCHANGED <<incident, report, queue, busy, kept, raced>>
      /\ told' = IF work[r].pc = "notify" /\ told[n] = "owed" /\ n \notin queue
                 THEN [told EXCEPT ![n] = "lost"] ELSE told
  BY DEF Fail
<1>3. work' \in [Requests -> Work] /\ WorkersOK'
      /\ \A p \in Requests : work'[p] = IF p = r THEN NoWork ELSE work[p]
  BY <1>2, IdleRequest, WorkChanges
<1>4. TypeOK'
  BY <1>1, <1>2, <1>3 DEF Inv, TypeOK
<1>5. HoldersAreCurrent'
  BY <1>2, IdleRequest, HoldersLeave
<1>6. ReportsOK' /\ OneActiveReport' /\ PhotosKept'
  BY <1>2, RowsStay
<1>7. NoticeUnderway'
  <2> SUFFICES ASSUME NEW k \in Notice, told'[k] = "owed", k \notin queue
               PROVE  \E p \in Requests : work'[p].pc = "notify" /\ work'[p].inc = k.inc /\ work'[p].op = k.kind
    BY <1>2 DEF NoticeUnderway
  <2>1. told \in [Notice -> {"none", "owed", "sent", "lost"}]
    BY DEF Inv, TypeOK
  <2>2. told[k] = "owed" /\ ~ (work[r].pc = "notify" /\ k = n)
    BY <1>1, <1>2, <2>1
  <2>3. PICK p \in Requests : work[p].pc = "notify" /\ work[p].inc = k.inc /\ work[p].op = k.kind
    BY <2>2 DEF Inv, NoticeUnderway
  <2>4. k = [inc |-> k.inc, kind |-> k.kind]
    BY DEF Notice
  <2>5. p # r
    BY <2>2, <2>3, <2>4
  <2> QED
    BY <1>3, <2>3, <2>5
<1> QED
  BY <1>3, <1>4, <1>5, <1>6, <1>7 DEF Inv

\* The worker touches neither a table nor a request.
LEMMA WorkerStepStep ==
    ASSUME Inv, NEW w \in Workers, WorkerStep(w)
    PROVE  Inv'
<1>1. UNCHANGED <<incident, report, work, kept, raced>>
  BY DEF WorkerStep, PickUp, EndTask, RestartWorker
<1>2. WorkersOK' /\ HoldersAreCurrent' /\ ReportsOK' /\ OneActiveReport' /\ PhotosKept'
  BY <1>1 DEF Inv, WorkersOK, HoldersAreCurrent, HoldsIncident, HoldsReport, ReportsOK,
              OneActiveReport, PhotosKept
<1>3. TypeOK' /\ NoticeUnderway'
  <2>1. ASSUME NEW n \in Notice, PickUp(w, n)
        PROVE  TypeOK' /\ NoticeUnderway'
    BY <1>1, <2>1 DEF Inv, TypeOK, NoticeUnderway, PickUp
  <2>2. CASE EndTask(w)
    <3>1. PICK outcome \in {"sent", "lost"} : told' = [told EXCEPT ![busy[w]] = outcome]
      BY <2>2 DEF EndTask
    <3>2. busy[w] \in Notice /\ told \in [Notice -> {"none", "owed", "sent", "lost"}]
      BY <2>2 DEF EndTask, Inv, TypeOK
    <3>3. TypeOK'
      BY <1>1, <2>2, <3>1, <3>2 DEF EndTask, Inv, TypeOK
    <3>4. \A n \in Notice : told'[n] = "owed" => n # busy[w] /\ told[n] = "owed"
      BY <3>1, <3>2
    <3>5. NoticeUnderway'
      BY <1>1, <2>2, <3>4 DEF EndTask, Inv, NoticeUnderway
    <3> QED
      BY <3>3, <3>5
  <2>3. CASE RestartWorker(w)
    BY <1>1, <2>3 DEF Inv, TypeOK, NoticeUnderway, RestartWorker
  <2> QED
    BY <2>1, <2>2, <2>3 DEF WorkerStep
<1> QED
  BY <1>2, <1>3 DEF Inv
-----------------------------------------------------------------------------
(* Steps that change an incident.                                          *)

\* After the commit of op on i the request is idle, or owes the notice of it.
LEMMA AfterCommitOwes ==
    ASSUME NEW i \in Incidents, NEW op \in Operations \cup {"create"}, NEW q, q = AfterCommit(op, i)
    PROVE  /\ q \in Work /\ q.pc \in {"idle", "notify"}
           /\ \A inc, rep : WorkerOK(q, inc, rep)
           /\ op \in Kinds => q.pc = "notify" /\ q.inc = i /\ q.op = op
<1>1. CASE op \in Kinds
  <2>1. q = [pc |-> "notify", op |-> op, inc |-> i, seen |-> NoIncident, next |-> NoIncident,
             rep |-> Null, had |-> {}, photos |-> {}, file |-> {}]
    BY <1>1 DEF AfterCommit, NoWork
  <2>2. q \in Work
    BY <1>1, <2>1, EmptyRows, ConstantsAssumption DEF Work, ConstantsAssumption
  <2> QED
    BY <1>1, <2>1, <2>2 DEF WorkerOK
<1>2. CASE op \notin Kinds
  BY <1>2, IdleRequest DEF AfterCommit
<1> QED
  BY <1>1, <1>2

\* An incident changes, never back to open, and the request that changed it holds
\* nothing afterwards.
LEMMA IncidentChanges ==
    ASSUME Inv, NEW r \in Requests, NEW i \in Incidents, NEW op \in Operations \cup {"create"},
           NEW row \in IncidentRow, row.status = incident[i].status \/ row.status # "open",
           row.life # "unused", incident' = [incident EXCEPT ![i] = row],
           \A p \in Requests \ {r} : HoldsIncident(p, i) => i \in raced,
           work[r].pc # "notify",
           work' = [work EXCEPT ![r] = AfterCommit(op, i)], told' = Owed(i, op, told),
           UNCHANGED <<report, queue, busy, kept, raced>>
    PROVE  Inv'
<1>1. PICK q : q = AfterCommit(op, i)
  OBVIOUS
<1>2. /\ q \in Work /\ q.pc \in {"idle", "notify"} /\ \A inc, rep : WorkerOK(q, inc, rep)
      /\ op \in Kinds => q.pc = "notify" /\ q.inc = i /\ q.op = op
  BY <1>1, AfterCommitOwes
<1>3. \A p \in Requests : work'[p] = IF p = r THEN q ELSE work[p]
  BY <1>1 DEF Inv, TypeOK
<1>4. \A j \in Incidents : /\ j # i => incident'[j] = incident[j]
                           /\ incident[j].status # "open" => incident'[j].status # "open"
                           /\ incident[j].life # "unused" => incident'[j].life # "unused"
  BY DEF Inv, TypeOK
<1>5. told' \in [Notice -> {"none", "owed", "sent", "lost"}]
  BY DEF Owed, Inv, TypeOK
<1>6. TypeOK'
  BY <1>1, <1>2, <1>5 DEF Inv, TypeOK
<1>7. WorkersOK'
  BY <1>2, <1>3, <1>4 DEF Inv, WorkersOK, WorkerOK
<1>8. HoldersAreCurrent'
  <2>1. \A p \in Requests, j \in Incidents :
           HoldsIncident(p, j)' => p # r /\ HoldsIncident(p, j) /\ work'[p] = work[p]
    BY <1>2, <1>3 DEF HoldsIncident
  <2>2. \A p \in Requests, x \in Reports :
           HoldsReport(p, x)' => HoldsReport(p, x) /\ work'[p] = work[p]
    BY <1>2, <1>3 DEF HoldsReport
  <2>3. \A j \in Incidents \ raced, p \in Requests :
           HoldsIncident(p, j)' => /\ work'[p].seen = incident'[j]
                                   /\ \A o \in Requests : HoldsIncident(o, j)' => o = p
    BY <1>4, <2>1 DEF Inv, HoldersAreCurrent
  <2>4. \A x \in Reports \ raced, p \in Requests :
           HoldsReport(p, x)' => /\ work'[p].had = report'[x].photos
                                 /\ \A o \in Requests : HoldsReport(o, x)' => o = p
    BY <2>2 DEF Inv, HoldersAreCurrent
  <2> QED
    BY <2>3, <2>4 DEF HoldersAreCurrent
<1>9. ReportsOK' /\ OneActiveReport' /\ PhotosKept'
  BY <1>4 DEF Inv, ReportsOK, OneActiveReport, PhotosKept
<1>10. NoticeUnderway'
  <2> SUFFICES ASSUME NEW n \in Notice, told'[n] = "owed", n \notin queue
               PROVE  \E p \in Requests : work'[p].pc = "notify" /\ work'[p].inc = n.inc /\ work'[p].op = n.kind
    BY DEF NoticeUnderway
  <2>1. CASE n = [inc |-> i, kind |-> op]
    <3>1. n.inc = i /\ n.kind = op /\ op \in Kinds
      BY <2>1 DEF Notice
    <3> QED
      BY <1>2, <1>3, <3>1
  <2>2. CASE n # [inc |-> i, kind |-> op]
    <3>1. told[n] = "owed"
      BY <2>2 DEF Owed
    <3>2. PICK p \in Requests : work[p].pc = "notify" /\ work[p].inc = n.inc /\ work[p].op = n.kind
      BY <3>1 DEF Inv, NoticeUnderway
    <3> QED
      BY <1>3, <3>2
  <2> QED
    BY <2>1, <2>2
<1> QED
  BY <1>6, <1>7, <1>8, <1>9, <1>10 DEF Inv

LEMMA CreateIncidentStep ==
    ASSUME Inv, NEW r \in Requests, NEW i \in Incidents, CreateIncident(r, i)
    PROVE  Inv'
<1>1. incident[i] \in IncidentRow /\ incident[i].life = "unused" /\ work[r].pc = "idle"
  BY DEF Inv, TypeOK, CreateIncident
<1>2. PICK row : row = [life |-> "live", status |-> incident[i].status, stamps |-> incident[i].stamps]
  OBVIOUS
<1>3. row \in IncidentRow /\ row.life # "unused" /\ row.status = incident[i].status
  BY <1>1, <1>2 DEF IncidentRow, Life
<1>4. incident' = [incident EXCEPT ![i] = row]
  <2>1. incident' = [incident EXCEPT ![i] = [incident[i] EXCEPT !.life = "live"]]
    BY DEF CreateIncident, Inv, TypeOK
  <2>2. [incident[i] EXCEPT !.life = "live"] = row
    BY <1>1, <1>2 DEF IncidentRow
  <2> QED
    BY <2>1, <2>2
<1>5. \A p \in Requests : ~ HoldsIncident(p, i)
  BY <1>1 DEF Inv, WorkersOK, WorkerOK, HoldsIncident
<1> QED
  BY <1>1, <1>3, <1>4, <1>5, IncidentChanges DEF CreateIncident

LEMMA CommitIncidentStep ==
    ASSUME Inv, NEW r \in Requests, CommitIncident(r)
    PROVE  /\ Inv'
           /\ \A i \in Incidents \ raced' : Forward(incident[i], incident'[i])
<1>w. PICK w \in Work : w = work[r]
  BY DEF Inv, TypeOK
<1>i. PICK i \in Incidents : i = w.inc
  BY <1>w DEF Inv, WorkersOK, WorkerOK, CommitIncident
<1>1. /\ w.pc = "incident" /\ w.op \in Operations /\ Forward(w.seen, w.next)
      /\ incident[i].life # "unused" /\ incident[i] \in IncidentRow
      /\ w.seen \in IncidentRow /\ w.next \in IncidentRow
  BY <1>w, <1>i DEF Inv, TypeOK, WorkersOK, WorkerOK, CommitIncident, Work
<1>2. PICK row : row = Flushed(incident[i], w.seen, w.next)
  OBVIOUS
<1>3. /\ row \in IncidentRow /\ row.life # "unused"
      /\ row.status = incident[i].status \/ row.status # "open"
      /\ w.seen = incident[i] => Forward(incident[i], row)
  BY <1>1, <1>2, FlushedForward
<1>4. incident' = [incident EXCEPT ![i] = row] /\ work' = [work EXCEPT ![r] = AfterCommit(w.op, i)]
      /\ told' = Owed(i, w.op, told) /\ UNCHANGED <<report, queue, busy, kept, raced>>
  BY <1>w, <1>i, <1>2 DEF CommitIncident
<1>5. HoldsIncident(r, i)
  BY <1>w, <1>i, <1>1 DEF HoldsIncident
<1>6. i \notin raced => /\ w.seen = incident[i]
                        /\ \A p \in Requests : HoldsIncident(p, i) => p = r
  BY <1>w, <1>5 DEF Inv, HoldersAreCurrent
<1>7. Inv'
  BY <1>w, <1>1, <1>3, <1>4, <1>6, IncidentChanges
<1>8. ASSUME NEW j \in Incidents \ raced'
      PROVE  Forward(incident[j], incident'[j])
  <2>1. CASE j = i
    BY <1>1, <1>3, <1>4, <1>6, <1>8, <2>1 DEF Inv, TypeOK
  <2>2. CASE j # i
    BY <1>4, <2>2 DEF Inv, TypeOK, Forward
  <2> QED
    BY <2>1, <2>2
<1> QED
  BY <1>7, <1>8
-----------------------------------------------------------------------------
(* Steps that change a report.                                             *)

\* A report changes; the request that changed it is done.
LEMMA ReportChanges ==
    ASSUME Inv, NEW r \in Requests, NEW x \in Reports, NEW row \in ReportRow, NEW k \in SUBSET Photos,
           row.life # "unused", row.incident \in Incidents,
           incident[row.incident].status # "open",
           row.life = "live" => \A p \in Reports \ {x} :
              report[p].life = "live" => report[p].incident # row.incident,
           x \notin raced => k \subseteq row.photos,
           \A p \in Requests \ {r} : HoldsReport(p, x) => x \in raced,
           report' = [report EXCEPT ![x] = row], kept' = [kept EXCEPT ![x] = k],
           work[r].pc # "notify", work' = [work EXCEPT ![r] = NoWork],
           UNCHANGED <<incident, queue, busy, told, raced>>
    PROVE  Inv'
<1>1. \A p \in Requests : work'[p] = IF p = r THEN NoWork ELSE work[p]
  BY DEF Inv, TypeOK
<1>2. \A p \in Reports : /\ report'[p] = IF p = x THEN row ELSE report[p]
                         /\ kept'[p] = IF p = x THEN k ELSE kept[p]
  BY DEF Inv, TypeOK
<1>3. TypeOK'
  BY IdleRequest DEF Inv, TypeOK
<1>4. WorkersOK'
  BY <1>1, <1>2, IdleRequest DEF Inv, WorkersOK, WorkerOK
<1>5. HoldersAreCurrent'
  <2>1. \A p \in Requests, i \in Incidents :
           HoldsIncident(p, i)' => HoldsIncident(p, i) /\ work'[p] = work[p]
    BY <1>1, IdleRequest DEF HoldsIncident
  <2>2. \A p \in Requests, y \in Reports :
           HoldsReport(p, y)' => p # r /\ HoldsReport(p, y) /\ work'[p] = work[p]
    BY <1>1, IdleRequest DEF HoldsReport
  <2>3. \A i \in Incidents \ raced, p \in Requests :
           HoldsIncident(p, i)' => /\ work'[p].seen = incident'[i]
                                   /\ \A o \in Requests : HoldsIncident(o, i)' => o = p
    BY <2>1 DEF Inv, HoldersAreCurrent
  <2>4. \A y \in Reports \ raced, p \in Requests :
           HoldsReport(p, y)' => /\ work'[p].had = report'[y].photos
                                 /\ \A o \in Requests : HoldsReport(o, y)' => o = p
    BY <1>2, <2>2 DEF Inv, HoldersAreCurrent
  <2> QED
    BY <2>3, <2>4 DEF HoldersAreCurrent
<1>6. ReportsOK'
  BY <1>2 DEF Inv, ReportsOK
<1>7. OneActiveReport'
  BY <1>2 DEF Inv, OneActiveReport
<1>8. PhotosKept'
  BY <1>2 DEF Inv, PhotosKept
<1>9. NoticeUnderway'
  BY <1>1 DEF Inv, NoticeUnderway
<1> QED
  BY <1>3, <1>4, <1>5, <1>6, <1>7, <1>8, <1>9 DEF Inv

LEMMA InsertReportStep ==
    ASSUME Inv, NEW r \in Requests, NEW x \in Reports, InsertReport(r, x)
    PROVE  Inv'
<1>1. /\ work[r].pc = "reporting" /\ work[r].inc \in Incidents /\ report[x].life = "unused"
      /\ incident[work[r].inc].status # "open" /\ kept[x] = {}
  BY DEF Inv, WorkersOK, WorkerOK, ReportsOK, InsertReport
<1>2. work' = [work EXCEPT ![r] = NoWork] /\ UNCHANGED <<incident, queue, busy, told, kept, raced>>
  BY DEF InsertReport
<1>3. ASSUME LiveReports(work[r].inc) = {}, NEW photos \in SUBSET Photos,
             report' = [report EXCEPT ![x] = [life |-> "live", incident |-> work[r].inc,
                                              photos |-> photos]]
      PROVE  Inv'
  <2>1. PICK row : row = [life |-> "live", incident |-> work[r].inc, photos |-> photos]
    OBVIOUS
  <2>2. row \in ReportRow /\ row.life = "live" /\ row.incident = work[r].inc
    BY <1>1, <2>1 DEF ReportRow, Life
  <2>3. \A p \in Reports : report[p].life = "live" => report[p].incident # row.incident
    BY <1>3, <2>2 DEF LiveReports
  <2>4. \A p \in Requests : ~ HoldsReport(p, x)
    BY <1>1 DEF Inv, WorkersOK, WorkerOK, HoldsReport
  <2>5. report' = [report EXCEPT ![x] = row] /\ kept' = [kept EXCEPT ![x] = {}]
    BY <1>1, <1>2, <1>3, <2>1 DEF Inv, TypeOK
  <2> QED
    BY <1>1, <1>2, <2>2, <2>3, <2>4, <2>5, ReportChanges
<1>4. CASE UNCHANGED report
  <2>1. work' \in [Requests -> Work] /\ WorkersOK'
        /\ \A p \in Requests : work'[p] = IF p = r THEN NoWork ELSE work[p]
    BY <1>2, <1>4, IdleRequest, WorkChanges
  <2>2. TypeOK'
    BY <1>2, <1>4, <2>1 DEF Inv, TypeOK
  <2>3. HoldersAreCurrent'
    BY <1>2, <1>4, IdleRequest, HoldersLeave
  <2>4. ReportsOK' /\ OneActiveReport' /\ PhotosKept'
    BY <1>2, <1>4, RowsStay
  <2>5. NoticeUnderway'
    BY <1>1, <1>2, <2>1 DEF Inv, NoticeUnderway
  <2> QED
    BY <2>1, <2>2, <2>3, <2>4, <2>5 DEF Inv
<1> QED
  BY <1>3, <1>4 DEF InsertReport

LEMMA CommitReportStep ==
    ASSUME Inv, NEW r \in Requests, CommitReport(r)
    PROVE  Inv'
<1>w. PICK w \in Work : w = work[r]
  BY DEF Inv, TypeOK
<1>x. PICK x \in Reports : x = w.rep
  BY <1>w DEF Inv, WorkersOK, WorkerOK, CommitReport
<1>n. PICK now \in ReportRow : now = report[x]
  BY DEF Inv, TypeOK
<1>1. /\ w.pc = "report" /\ now.life # "unused"
      /\ w.op # "patch" => w.had \cup w.file \subseteq w.photos
  BY <1>w, <1>x, <1>n DEF Inv, WorkersOK, WorkerOK, CommitReport
<1>2. PICK row : row = FlushedReport(now, w)
  OBVIOUS
<1>3. PICK k : k = IF w.op = "patch" THEN {} ELSE kept[x] \cup w.file
  OBVIOUS
<1>4. row = [life |-> IF w.op = "delete" THEN "deleted" ELSE now.life,
             incident |-> now.incident, photos |-> Written(now.photos, w.had, w.photos)]
  BY <1>1, <1>2 DEF FlushedReport, ReportRow
<1>5. /\ row \in ReportRow /\ row.life # "unused" /\ row.incident = now.incident
      /\ row.life = "live" => now.life = "live"
  BY <1>1, <1>4 DEF ReportRow, Life, Work, Written
<1>6. k \in SUBSET Photos
  BY <1>1, <1>3 DEF Work, Inv, TypeOK
<1>7. report' = [report EXCEPT ![x] = row] /\ kept' = [kept EXCEPT ![x] = k]
      /\ work' = [work EXCEPT ![r] = NoWork] /\ UNCHANGED <<incident, queue, busy, told, raced>>
  BY <1>w, <1>x, <1>n, <1>2, <1>3 DEF CommitReport
<1>8. HoldsReport(r, x)
  BY <1>w, <1>x, <1>1 DEF HoldsReport
<1>9. x \notin raced => /\ w.had = now.photos
                        /\ \A p \in Requests : HoldsReport(p, x) => p = r
  BY <1>w, <1>n, <1>8 DEF Inv, HoldersAreCurrent
<1>10. x \notin raced => k \subseteq row.photos
  <2>1. x \notin raced => kept[x] \subseteq now.photos
    BY <1>n DEF Inv, PhotosKept
  <2>2. x \notin raced => row.photos = w.photos
    BY <1>4, <1>9 DEF Written
  <2> QED
    BY <1>1, <1>3, <1>9, <2>1, <2>2
<1>11. row.incident \in Incidents /\ incident[row.incident].status # "open"
  BY <1>n, <1>1, <1>5 DEF Inv, ReportsOK
<1>12. row.life = "live" => \A p \in Reports \ {x} :
          report[p].life = "live" => report[p].incident # row.incident
  BY <1>n, <1>5 DEF Inv, OneActiveReport
<1> QED
  BY <1>w, <1>1, <1>5, <1>6, <1>7, <1>9, <1>10, <1>11, <1>12, ReportChanges
-----------------------------------------------------------------------------
(* The theorems.                                                           *)

LEMMA InitEstablishes == Init => Inv
<1> SUFFICES ASSUME Init PROVE Inv
  OBVIOUS
<1>1. TypeOK
  BY EmptyRows, IdleRequest DEF Init, TypeOK
<1>2. \A r \in Requests : work[r] = NoWork
  BY DEF Init
<1>3. WorkersOK
  BY <1>2, IdleRequest DEF WorkersOK
<1>4. HoldersAreCurrent
  BY <1>2, IdleRequest DEF HoldersAreCurrent, HoldsIncident, HoldsReport
<1>5. ReportsOK /\ OneActiveReport /\ PhotosKept
  BY DEF Init, ReportsOK, OneActiveReport, PhotosKept, NoReport
<1>6. NoticeUnderway
  BY DEF Init, NoticeUnderway
<1> QED
  BY <1>1, <1>3, <1>4, <1>5, <1>6 DEF Inv

\* Every step keeps the invariant and moves an incident nobody raced on forward.
LEMMA NextKeeps ==
    ASSUME Inv, Next
    PROVE  Inv' /\ \A i \in Incidents \ raced' : Forward(incident[i], incident'[i])
<1>1. ASSUME NEW r \in Requests, NEW i \in Incidents, CreateIncident(r, i)
      PROVE  Inv' /\ \A j \in Incidents : Forward(incident[j], incident'[j])
  <2>1. Inv'
    BY <1>1, CreateIncidentStep
  <2>2. \A j \in Incidents : /\ incident'[j].status = incident[j].status
                             /\ incident'[j].stamps = incident[j].stamps
    BY <1>1 DEF CreateIncident, Inv, TypeOK, IncidentRow
  <2> QED
    BY <2>1, <2>2 DEF Forward
<1>2. ASSUME NEW r \in Requests, NEW i \in Incidents, NEW op \in Operations, LoadIncident(r, i, op)
      PROVE  Inv' /\ UNCHANGED incident
  BY <1>2, LoadIncidentStep DEF LoadIncident
<1>3. ASSUME NEW r \in Requests, NEW i \in Incidents, LoadForReport(r, i)
      PROVE  Inv' /\ UNCHANGED incident
  BY <1>3, LoadForReportStep DEF LoadForReport
<1>4. ASSUME NEW r \in Requests, NEW p \in Reports, InsertReport(r, p)
      PROVE  Inv' /\ UNCHANGED incident
  BY <1>4, InsertReportStep DEF InsertReport
<1>5. ASSUME NEW r \in Requests, NEW p \in Reports, LoadForPatch(r, p)
      PROVE  Inv' /\ UNCHANGED incident
  <2>1. PICK photos \in SUBSET Photos : LoadReport(r, p, "patch", photos, {})
    BY <1>5 DEF LoadForPatch
  <2>2. {} \in SUBSET Photos
    OBVIOUS
  <2>3. Inv'
    BY <2>1, <2>2, LoadReportStep
  <2> QED
    BY <2>1, <2>3 DEF LoadReport
<1>6. ASSUME NEW r \in Requests, NEW p \in Reports, LoadForDelete(r, p)
      PROVE  Inv' /\ UNCHANGED incident
  <2>1. report[p].photos \in SUBSET Photos
    BY DEF Inv, TypeOK, ReportRow
  <2>2. LoadReport(r, p, "delete", report[p].photos, {})
    BY <1>6 DEF LoadForDelete
  <2>3. Inv'
    BY <2>1, <2>2, LoadReportStep
  <2> QED
    BY <2>2, <2>3 DEF LoadReport
<1>7. ASSUME NEW r \in Requests, NEW p \in Reports, LoadForUpload(r, p)
      PROVE  Inv' /\ UNCHANGED incident
  <2>1. PICK f \in Photos : LoadReport(r, p, "upload", report[p].photos \cup {f}, {f})
    BY <1>7 DEF LoadForUpload
  <2>2. report[p].photos \cup {f} \in SUBSET Photos /\ {f} \in SUBSET Photos
    BY DEF Inv, TypeOK, ReportRow
  <2>3. Inv'
    BY <2>1, <2>2, LoadReportStep
  <2> QED
    BY <2>1, <2>3 DEF LoadReport
<1>8. ASSUME NEW r \in Requests, CommitIncident(r)
      PROVE  Inv' /\ \A i \in Incidents \ raced' : Forward(incident[i], incident'[i])
  BY <1>8, CommitIncidentStep
<1>9. ASSUME NEW r \in Requests, Enqueue(r) \/ Fail(r)
      PROVE  Inv' /\ UNCHANGED incident
  BY <1>9, EnqueueStep, FailStep DEF Enqueue, Fail
<1>10. ASSUME NEW r \in Requests, CommitReport(r)
       PROVE  Inv' /\ UNCHANGED incident
  BY <1>10, CommitReportStep DEF CommitReport
<1>11. ASSUME NEW w \in Workers, WorkerStep(w)
       PROVE  Inv' /\ UNCHANGED incident
  BY <1>11, WorkerStepStep DEF WorkerStep, PickUp, EndTask, RestartWorker
<1>12. UNCHANGED incident => \A i \in Incidents : Forward(incident[i], incident'[i])
  BY DEF Forward
<1> QED
  BY <1>1, <1>2, <1>3, <1>4, <1>5, <1>6, <1>7, <1>8, <1>9, <1>10, <1>11, <1>12
     DEF Next, RequestStep, Operations

LEMMA StutterKeeps == Inv /\ UNCHANGED vars => Inv'
  BY DEF vars, Inv, TypeOK, WorkersOK, HoldersAreCurrent, HoldsIncident, HoldsReport, ReportsOK,
         OneActiveReport, NoticeUnderway, PhotosKept

\* The inductive invariant holds in every state of every behaviour.
THEOREM IncidentInvariant == Spec => []Inv
<1>1. Inv /\ [Next]_vars => Inv'
  BY NextKeeps, StutterKeeps
<1> QED
  BY <1>1, InitEstablishes, PTL DEF Spec

\* Rows, requests, messages and notices keep their types (models/incident.py,
\* models/incident_report.py).
THEOREM IncidentTypes == Spec => []TypeOK
<1>1. Inv => TypeOK
  BY DEF Inv
<1> QED
  BY <1>1, IncidentInvariant, PTL

\* However many requests file it at once, an incident has one live report
\* (create_incident_report and the partial unique index).
THEOREM OneActiveReportAlways == Spec => []OneActiveReport
  BY InvImpliesProperties, IncidentInvariant, PTL

\* A report is only ever of an incident on which work has begun, whatever becomes of
\* the incident between the check and the insert (Rule 1).
THEOREM ReportMeansStartedAlways == Spec => []ReportMeansStarted
  BY InvImpliesProperties, IncidentInvariant, PTL

\* An acknowledged upload stays in its report while no two requests overlap on it
\* (upload_report_photo).
THEOREM PhotosKeptAlways == Spec => []PhotosKept
  BY InvImpliesProperties, IncidentInvariant, PTL

\* No committed event is forgotten: its notice is queued, on its way, sent or known
\* to be lost, through any number of restarts of the workers (tasks/notifications.py).
THEOREM NoticeUnderwayAlways == Spec => []NoticeUnderway
  BY InvImpliesProperties, IncidentInvariant, PTL

\* A milestone's first time stands while no two requests overlap on the incident
\* (mark_* of models/incident.py).
THEOREM MilestoneStandsAlways == Spec => MilestoneStands
<1>1. ASSUME Inv, [Next]_vars
      PROVE  [\A i \in Incidents \ raced' : \A m \in Milestones :
                 incident[i].stamps[m] # Null => incident'[i].stamps[m] = incident[i].stamps[m]]_vars
  BY <1>1, NextKeeps DEF Forward
<1> QED
  BY <1>1, IncidentInvariant, PTL DEF Spec, MilestoneStands
=============================================================================
