------------------------------- MODULE Compliance ------------------------------
(***************************************************************************)
(* The SHEQ compliance report: services/sheq_compliance.py, over the       *)
(* submissions and the tasks it reads.                                     *)
(*                                                                         *)
(* How a submission comes to be what it is is the subject of module Sheq:  *)
(* here every operation is a step.  Days stand for times.  Left out: the   *)
(* counts of failing items and of sections not applicable, names, and who  *)
(* may read the report.                                                    *)
(***************************************************************************)
EXTENDS Naturals, FiniteSets, Functions, UnitOfWork

CONSTANTS Checklists,    \* the submissions
          Jobs,          \* the tasks
          Crew,          \* the technicians
          Regions,       \* the regions of the sites
          Kinds,         \* the checklist types looked at
          SignoffDays,   \* the setting sheq.signoff_sla_days
          MaxDate,       \* a bound on the clock
          Anyone         \* no filter; the region of a submission without a site

ASSUME ComplianceAssumption ==
    /\ SignoffDays \in Nat /\ MaxDate \in Nat /\ Anyone \notin Nat \cup Crew \cup Regions \cup Kinds
    /\ IsFiniteSet(Checklists) /\ IsFiniteSet(Crew) /\ Crew # {} /\ Kinds # {}
    /\ Kinds \subseteq {"vehicle-daily", "daily-risk-assessment", "technician-master-safety", "journey-management"}

ChecklistStatuses == {"draft", "submitted", "signed_off"}
SignoffRequired == {"vehicle-daily", "daily-risk-assessment"}

\* `decision' is what the summary holds of a master safety checklist, `countersigned'
\* that a supervisor is among its signature_roles.
ChecklistRow == [life : Life, kind : Kinds, by : Crew, on : 0 .. MaxDate, at : 0 .. MaxDate,
                 status : ChecklistStatuses, region : Regions \cup {Anyone},
                 decision : {"Go", "No-Go"}, countersigned : BOOLEAN]
JobRow == [life : Life, by : Crew, on : 0 .. MaxDate, pending : BOOLEAN]

VARIABLES
    checklist,  \* the table sheq_submissions
    job,        \* the table tasks
    date        \* the clock
complianceVars == <<checklist, job, date>>

ComplianceTypeOK ==
    /\ checklist \in [Checklists -> ChecklistRow] /\ job \in [Jobs -> JobRow] /\ date \in 0 .. MaxDate

Someone == CHOOSE k \in Crew : TRUE

NoChecklist == [life |-> "unused", kind |-> CHOOSE k \in Kinds : TRUE, by |-> Someone, on |-> 0, at |-> 0,
                status |-> "draft", region |-> Anyone, decision |-> "Go", countersigned |-> FALSE]

ComplianceInit ==
    /\ checklist = [c \in Checklists |-> NoChecklist] /\ date = 0
    /\ job = [j \in Jobs |-> [life |-> "unused", by |-> Someone, on |-> 0, pending |-> TRUE]]

\* It is stamped as it becomes submitted.
SubmittedAt(row, status) == IF status = "submitted" /\ row.status # "submitted" THEN date ELSE row.at

Standing(c) == checklist[c].life = "live" /\ checklist[c].status # "signed_off"

\* create_submission, of work done today or before.
FileChecklist(c) ==
    /\ checklist[c].life = "unused"
    /\ \E kind \in Kinds, by \in Crew, on \in 0 .. date, region \in Regions \cup {Anyone},
          status \in ChecklistStatuses, decision \in {"Go", "No-Go"} :
          /\ decision = "No-Go" => kind = "technician-master-safety"
          /\ checklist' = [checklist EXCEPT ![c] =
                [life |-> "live", kind |-> kind, by |-> by, on |-> on, at |-> SubmittedAt(NoChecklist, status),
                 status |-> status, region |-> region, decision |-> decision, countersigned |-> FALSE]]
    /\ UNCHANGED <<job, date>>

\* update_submission, of a draft or a submitted checklist, to whatever status.
EditChecklist(c) ==
    /\ Standing(c)
    /\ \E on \in 0 .. date, status \in ChecklistStatuses :
          checklist' = [checklist EXCEPT ![c].status = status, ![c].on = on,
                                         ![c].at = SubmittedAt(checklist[c], status)]
    /\ UNCHANGED <<job, date>>

\* add_signature of a supervisor.
Countersign(c) ==
    /\ Standing(c)
    /\ checklist' = [checklist EXCEPT ![c].status = "signed_off", ![c].countersigned = TRUE]
    /\ UNCHANGED <<job, date>>

DeleteChecklist(c) ==
    /\ Standing(c)
    /\ checklist' = [checklist EXCEPT ![c] = SoftDeleted(@)]
    /\ UNCHANGED <<job, date>>

\* create_task and start_task, of a task planned for any day.
PlanJob(j) ==
    /\ job[j].life = "unused"
    /\ \E by \in Crew, on \in 0 .. MaxDate :
          job' = [job EXCEPT ![j] = [life |-> "live", by |-> by, on |-> on, pending |-> TRUE]]
    /\ UNCHANGED <<checklist, date>>

BeginJob(j) ==
    /\ job[j].life = "live" /\ job' = [job EXCEPT ![j].pending = FALSE]
    /\ UNCHANGED <<checklist, date>>

NextDate == date < MaxDate /\ date' = date + 1 /\ UNCHANGED <<checklist, job>>

ComplianceNext ==
    \/ \E c \in Checklists : \/ FileChecklist(c) \/ EditChecklist(c)
                             \/ Countersign(c) \/ DeleteChecklist(c)
    \/ \E j \in Jobs : PlanJob(j) \/ BeginJob(j)
    \/ NextDate

ComplianceSpec == ComplianceInit /\ [][ComplianceNext]_complianceVars
-----------------------------------------------------------------------------
(* The report, for a filter: the days it spans, which either end may leave     *)
(* open, a type, a technician and a region, or anyone.                         *)

Filter(from, to, kind, by, region) == [from |-> from, to |-> to, kind |-> kind, by |-> by, region |-> region]

Matches(wanted, is) == wanted = Anyone \/ wanted = is
Spans(f, day) == (f.from = Anyone \/ f.from <= day) /\ (f.to = Anyone \/ day <= f.to)

\* The submissions the report is of; a region drops those without a site.
RowsFor(f) ==
    {c \in Checklists :
        /\ checklist[c].life = "live" /\ Spans(f, checklist[c].on)
        /\ Matches(f.kind, checklist[c].kind) /\ Matches(f.by, checklist[c].by)
        /\ Matches(f.region, checklist[c].region)}

\* _submission_volume.
Volume(f, kind, status) ==
    Cardinality({c \in RowsFor(f) : checklist[c].kind = kind /\ checklist[c].status = status})

\* _no_go_stats: the rate is the first over the second.
MasterRows(f) == {c \in RowsFor(f) : checklist[c].kind = "technician-master-safety"}
NoGoes(f)     == {c \in MasterRows(f) : checklist[c].decision = "No-Go"}

AwaitsSignoff(c) == checklist[c].kind \in SignoffRequired /\ checklist[c].status = "submitted"

\* _overdue_signoffs and _signature_gaps.
OverdueSignoffs(f) == {c \in RowsFor(f) : AwaitsSignoff(c) /\ date > checklist[c].at + SignoffDays}
SignatureGaps(f)   == {c \in RowsFor(f) : AwaitsSignoff(c) /\ ~ checklist[c].countersigned}

\* Slip: the tasks of every technician are looked at, whoever is asked for.
JobsOfAll(f) == {j \in Jobs : job[j].life = "live" /\ ~ job[j].pending /\ Spans(f, job[j].on)}

\* The tasks that call for a checklist: they have no region here.
JobsFor(f) == {j \in Jobs : /\ job[j].life = "live" /\ ~ job[j].pending
                            /\ Spans(f, job[j].on) /\ Matches(f.by, job[j].by)}

\* _missed_vehicle_checks: a draft counts as a checklist of its day.
ExpectedChecks(f)  == {<<job[j].by, job[j].on>> : j \in JobsFor(f)}
SubmittedChecks(f) == {<<checklist[c].by, checklist[c].on>> :
                          c \in {x \in RowsFor(f) : checklist[x].kind = "vehicle-daily"}}

\* _compute_missed_vehicle_checks, of a report that looks at vehicle checks between two days.
MissedChecks(f) ==
    IF f.kind \in {Anyone, "vehicle-daily"} /\ Anyone \notin {f.from, f.to} THEN ExpectedChecks(f) \ SubmittedChecks(f) ELSE {}

ComplianceReport(f) ==
    [volume |-> [kind \in Kinds |-> [status \in ChecklistStatuses |-> Volume(f, kind, status)]],
     noGo |-> Cardinality(NoGoes(f)), masters |-> Cardinality(MasterRows(f)),
     overdue |-> OverdueSignoffs(f), gaps |-> SignatureGaps(f), missed |-> MissedChecks(f)]
-----------------------------------------------------------------------------
(* Properties.                                                             *)

\* A report adds up from those of the parts of its filter.
SumsUp(f, parts) ==
    /\ \A kind \in Kinds, status \in ChecklistStatuses :
          Volume(f, kind, status) = SumFunction([p \in parts |-> Volume(p, kind, status)])
    /\ Cardinality(NoGoes(f)) = SumFunction([p \in parts |-> Cardinality(NoGoes(p))])
    /\ OverdueSignoffs(f) = UNION {OverdueSignoffs(p) : p \in parts}
    /\ SignatureGaps(f)   = UNION {SignatureGaps(p) : p \in parts}
    /\ MissedChecks(f)    = UNION {MissedChecks(p) : p \in parts}

\* The days something was done or planned.
Dated == {checklist[c].on : c \in {x \in Checklists : checklist[x].life # "unused"}}
           \cup {job[j].on : j \in {x \in Jobs : job[x].life # "unused"}}

\* Reports of the technicians one by one, or of a span of days in two parts, add up to the
\* report of all: no filter adds a finding or loses one.  Reports of the regions do not:
\* a region narrows the submissions and not the tasks, and a checklist without a site is
\* then missed (lines 260 and 338).  Nor do the parts of a span that is open at an end,
\* which misses no check where a part between two days does (line 322).
FiltersPartition ==
    \A from, to \in Dated \cup {Anyone}, kind \in Kinds \cup {Anyone} :
       LET f == Filter(from, to, kind, Anyone, Anyone) IN
       /\ SumsUp(f, {[f EXCEPT !.by = k] : k \in Crew})
       /\ Anyone \notin {from, to} =>
             \A cut \in from .. to - 1 : SumsUp(f, {[f EXCEPT !.to = cut], [f EXCEPT !.from = cut + 1]})
=============================================================================
