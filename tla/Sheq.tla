---------------------------------- MODULE Sheq ---------------------------------
(***************************************************************************)
(* SHEQ checklist submissions: services/sheq_submission.py with the        *)
(* validation, summary and signature helpers it calls, over                *)
(* models/sheq_submission.py.                                              *)
(*                                                                         *)
(* A submission is drafted, submitted, signed by its crew and signed off   *)
(* by a supervisor, after which it is meant to be immutable.  Every        *)
(* handler loads the row, decides, assigns and commits once; a submission  *)
(* of a kind that wants a supervisor is then announced to management in a  *)
(* second commit.                                                          *)
(*                                                                         *)
(* Contents holds particular contents of a checklist, named after the rule *)
(* of sheq_validation.py that decides them.  Left out: the ownership checks,  *)
(* which refuse a request before it reads the status, performed_on and the *)
(* links to a task and a site, which no rule reads, and the descriptive    *)
(* fields of a signature.                                                  *)
(***************************************************************************)
EXTENDS Naturals, FiniteSets, UnitOfWork

CONSTANTS Submissions, Requests,
          Types,          \* the checklist types the instance offers
          Contents,       \* the contents the instance tells apart
          Roles,          \* the roles that sign
          MaxSignatures,  \* a bound on the signatures of a submission
          Null

Statuses == {"draft", "submitted", "signed_off"}

\* "roster" is a risk assessment with a named employee, "acked" and "unacked" a
\* journey with and without an e-mail acknowledgement, "damaged" a vehicle with
\* damage, "plain" breaks no rule and "failing" breaks one whatever else is there.
DataOf(type) ==
    Contents \cap CASE type = "vehicle-daily"            -> {"plain", "failing", "damaged"}
                    [] type = "journey-management"       -> {"failing", "acked", "unacked"}
                    [] type = "daily-risk-assessment"    -> {"plain", "failing", "roster"}
                    [] type = "technician-master-safety" -> {"plain", "failing"}

\* Photographs are evidence of damage to a vehicle.  Those of a master safety
\* checklist are part of what makes it plain or failing.
PhotosOf(type) == IF type = "vehicle-daily" THEN BOOLEAN ELSE {FALSE}

ChecklistTypes == {"vehicle-daily", "journey-management", "daily-risk-assessment",
                   "technician-master-safety"}

\* The types whose submission is announced to management.
SignOffTypes == {"vehicle-daily", "daily-risk-assessment"}

ASSUME ConstantsAssumption ==
    /\ Contents \subseteq {"plain", "failing", "damaged", "acked", "unacked", "roster"}
    /\ Types \subseteq ChecklistTypes
    /\ Roles \subseteq {"technician", "driver", "employee", "supervisor"}
    /\ MaxSignatures \in Nat
    /\ Null \notin Submissions \cup Contents \cup ChecklistTypes

\* `hash' is the content the signer had in front of him: data_hash tells any two
\* contents apart.
SignatureRecord == [role : Roles, hash : Contents]

\* sheq_summary.py: counters of the data and the attachments, and who has signed.
SummaryRecord == [data : Contents \cup {Null}, photos : BOOLEAN, roles : SUBSET Roles]

\* `photos' says that the attachments hold the evidence damage asks for,
\* `submitted' that submitted_at is set, `signedOff' that signed_off_at and
\* supervisor_user_id are.  Of the list of signatures the model keeps the set.
SubmissionRow == [life : Life, type : Types \cup {Null}, data : Contents \cup {Null},
                  photos : BOOLEAN, status : Statuses, sigs : SUBSET SignatureRecord,
                  summary : SummaryRecord, submitted : BOOLEAN, signedOff : BOOLEAN]

SignedBy(role, sigs) == \E g \in sigs : g.role = role

\* sheq_validation.py, a rule book for each type: damage wants a photograph, a
\* journey one and only one of a supervisor's signature and an e-mail
\* acknowledgement, a risk assessment the signature of every employee on its roster.
VehicleValid(d, photos) == d = "plain" \/ (d = "damaged" /\ photos)

JourneyValid(d, sigs) == \/ d = "acked"   /\ ~ SignedBy("supervisor", sigs)
                         \/ d = "unacked" /\ SignedBy("supervisor", sigs)

RiskAssessmentValid(d, sigs) == d = "plain" \/ (d = "roster" /\ SignedBy("employee", sigs))

MasterSafetyValid(d) == d = "plain"

Valid(type, d, photos, sigs) ==
    CASE type = "vehicle-daily"            -> VehicleValid(d, photos)
      [] type = "journey-management"       -> JourneyValid(d, sigs)
      [] type = "daily-risk-assessment"    -> RiskAssessmentValid(d, sigs)
      [] type = "technician-master-safety" -> MasterSafetyValid(d)
      [] OTHER -> TRUE

Summary(d, photos, sigs) == [data |-> d, photos |-> photos, roles |-> {g.role : g \in sigs}]

NoRow == [life |-> "unused", type |-> Null, data |-> Null, photos |-> FALSE,
          status |-> "draft", sigs |-> {}, summary |-> Summary(Null, FALSE, {}),
          submitted |-> FALSE, signedOff |-> FALSE]

\* A request from its load to its answer: the row it loaded and the object it
\* assigned to, which its commit writes.
Work == [pc : {"idle", "loaded", "refresh", "announce"},
         op : {Null, "update", "delete", "sign"}, sub : Submissions \cup {Null},
         seen : SubmissionRow, next : SubmissionRow]

NoWork == [pc |-> "idle", op |-> Null, sub |-> Null, seen |-> NoRow, next |-> NoRow]

VARIABLES
    row,    \* the table sheq_submissions
    work,   \* the requests being served
    told,   \* was management told of the last submission: "no", "yes" or "failed"
    raced   \* the submissions two requests have worked on at the same time
vars == <<row, work, told, raced>>

TypeOK ==
    /\ row \in [Submissions -> SubmissionRow]
    /\ work \in [Requests -> Work]
    /\ told \in [Submissions -> {"no", "yes", "failed"}]
    /\ raced \subseteq Submissions

Init ==
    /\ row = [s \in Submissions |-> NoRow]
    /\ work = [r \in Requests |-> NoWork]
    /\ told = [s \in Submissions |-> "no"]
    /\ raced = {}

\* The request has loaded the submission and not committed yet.
Holds(r, s) == work[r].pc = "loaded" /\ work[r].sub = s
-----------------------------------------------------------------------------
(* create_submission: one insert, with no signatures yet. *)

\* Slip: only a submission created as submitted is stamped at all.
NewRowUnstamped(type, d, photos, st) ==
    [NoRow EXCEPT !.life = "live", !.type = type, !.data = d, !.photos = photos,
                  !.status = st, !.summary = Summary(d, photos, {})]

NewRow(type, d, photos, st) ==
    [NoRow EXCEPT !.life = "live", !.type = type, !.data = d, !.photos = photos,
                  !.status = st, !.summary = Summary(d, photos, {}),
                  !.submitted = (st # "draft")]

Creating(s) == [NoWork EXCEPT !.pc = "refresh", !.sub = s]

Create(r, s) ==
    /\ work[r].pc = "idle" /\ row[s].life = "unused"
    /\ \E type \in Types, st \in Statuses : \E d \in DataOf(type), photos \in PhotosOf(type) :
          /\ st # "draft" => Valid(type, d, photos, {})
          /\ row' = [row EXCEPT ![s] = NewRow(type, d, photos, st)]
    /\ work' = [work EXCEPT ![r] = Creating(s)]
    /\ UNCHANGED <<told, raced>>

\* session.refresh reads the status again, and that decides whether to announce.
Refresh(r) ==
    /\ work[r].pc = "refresh"
    /\ LET w == work[r] IN
       work' = [work EXCEPT ![r] = IF row[w.sub].status = "submitted"
                                   THEN [w EXCEPT !.pc = "announce"] ELSE NoWork]
    /\ UNCHANGED <<row, told, raced>>
-----------------------------------------------------------------------------
(* Loading: what the handler read, checked and assigned. *)

\* Slip: the status of the row is not looked at.
AnyLive(rec) == rec.life = "live"

\* Anything but a signed-off submission may be edited, deleted and signed.
Open(rec) == rec.life = "live" /\ rec.status # "signed_off"

\* Slip: validation only where the status becomes submitted.
ValidatedOnSubmit(rec, st) == st = "submitted" /\ rec.status # "submitted"

\* Submitting validates, and so does every edit that is not of a draft kept a draft.
MustValidate(rec, st) == ~ (rec.status = "draft" /\ st = "draft")

\* A PATCH may set the data, the attachments and the status, signed_off included.
Edited(rec, d, photos, st) ==
    [rec EXCEPT !.data = d, !.photos = photos, !.status = st,
                !.submitted = @ \/ (st = "submitted" /\ rec.status # "submitted"),
                !.summary = Summary(d, photos, rec.sigs)]

\* Slip: the hash covers another column.
SignatureOverType(rec, role) == [role |-> role, hash |-> rec.type]

Signature(rec, role) == [role |-> role, hash |-> rec.data]

\* Slip: the summary is left as it was.
SignedKeepingSummary(rec, role) ==
    [rec EXCEPT !.sigs = @ \cup {Signature(rec, role)},
                !.status = IF role = "supervisor" THEN "signed_off" ELSE @,
                !.signedOff = @ \/ role = "supervisor"]

\* add_signature; a supervisor's signature signs the submission off, a draft too.
Signed(rec, role) ==
    [rec EXCEPT !.sigs = @ \cup {Signature(rec, role)},
                !.status = IF role = "supervisor" THEN "signed_off" ELSE @,
                !.signedOff = @ \/ role = "supervisor",
                !.summary = Summary(rec.data, rec.photos, rec.sigs \cup {Signature(rec, role)})]

Loaded(op, s, next) ==
    [pc |-> "loaded", op |-> op, sub |-> s, seen |-> row[s], next |-> next]

Load(r, op, s, next) ==
    /\ work[r].pc = "idle" /\ Open(row[s])
    /\ work' = [work EXCEPT ![r] = Loaded(op, s, next)]
    /\ raced' = IF \E q \in Requests : Holds(q, s) THEN raced \cup {s} ELSE raced
    /\ UNCHANGED <<row, told>>

LoadForUpdate(r, s) ==
    /\ Open(row[s])
    /\ \E d \in DataOf(row[s].type), photos \in PhotosOf(row[s].type), st \in Statuses :
          /\ MustValidate(row[s], st) => Valid(row[s].type, d, photos, row[s].sigs)
          /\ Load(r, "update", s, Edited(row[s], d, photos, st))

LoadForDelete(r, s) == Load(r, "delete", s, SoftDeleted(row[s]))

LoadForSign(r, s) ==
    /\ Cardinality(row[s].sigs) < MaxSignatures
    /\ \E role \in Roles : Load(r, "sign", s, Signed(row[s], role))
-----------------------------------------------------------------------------
(* Committing: the columns that were assigned another value than they had.   *)
(* A stamp is a fresh time and is never taken back.                          *)

Patched(now, w) ==
    [now EXCEPT !.data      = Written(@, w.seen.data, w.next.data),
                !.photos    = Written(@, w.seen.photos, w.next.photos),
                !.status    = Written(@, w.seen.status, w.next.status),
                !.summary   = Written(@, w.seen.summary, w.next.summary),
                !.submitted = @ \/ w.next.submitted]

\* Slip: the list of signatures is changed in place, which the flush misses.
CountersignedInPlace(now, w) ==
    [now EXCEPT !.status    = Written(@, w.seen.status, w.next.status),
                !.summary   = Written(@, w.seen.summary, w.next.summary),
                !.signedOff = @ \/ w.next.signedOff]

\* A signature is a record nobody else wrote, so the whole list is written.
Countersigned(now, w) ==
    [now EXCEPT !.sigs      = w.next.sigs,
                !.status    = Written(@, w.seen.status, w.next.status),
                !.summary   = Written(@, w.seen.summary, w.next.summary),
                !.signedOff = @ \/ w.next.signedOff]

\* Slip: what was taken back to a draft and submitted again is not announced again.
AnnouncesOnce(w) == /\ w.op = "update" /\ ~ w.seen.submitted
                    /\ w.next.status = "submitted" /\ w.seen.status # "submitted"

Announces(w) == /\ w.op = "update"
                /\ w.next.status = "submitted" /\ w.seen.status # "submitted"

Committed(now, w) == CASE w.op = "update" -> Patched(now, w)
                       [] w.op = "delete" -> SoftDeleted(now)
                       [] w.op = "sign"   -> Countersigned(now, w)

AfterCommit(w) == IF Announces(w) THEN [w EXCEPT !.pc = "announce"] ELSE NoWork

CommitWork(r) ==
    /\ work[r].pc = "loaded"
    /\ LET w == work[r] IN
       /\ row' = [row EXCEPT ![w.sub] = Committed(@, w)]
       /\ work' = [work EXCEPT ![r] = AfterCommit(w)]
       /\ told' = IF row[w.sub].status # "submitted" /\ row'[w.sub].status = "submitted"
                  THEN [told EXCEPT ![w.sub] = "no"] ELSE told
    /\ UNCHANGED raced

\* _notify_submitted, after the submission is committed.
Announce(r) ==
    /\ work[r].pc = "announce"
    /\ LET s == work[r].sub IN
       told' = IF row[s].type \in SignOffTypes THEN [told EXCEPT ![s] = "yes"] ELSE told
    /\ work' = [work EXCEPT ![r] = NoWork]
    /\ UNCHANGED <<row, raced>>

\* An exception or a crash: the open transaction is rolled back, and what was
\* committed before it stays.
Fail(r) ==
    /\ work[r].pc # "idle"
    /\ LET w == work[r] IN
       told' = IF w.pc # "loaded" /\ told[w.sub] = "no"
               THEN [told EXCEPT ![w.sub] = "failed"] ELSE told
    /\ work' = [work EXCEPT ![r] = NoWork]
    /\ UNCHANGED <<row, raced>>

Next ==
    \E r \in Requests :
       \/ \E s \in Submissions : \/ Create(r, s)
                                 \/ LoadForUpdate(r, s)
                                 \/ LoadForDelete(r, s)
                                 \/ LoadForSign(r, s)
       \/ Refresh(r)
       \/ CommitWork(r)
       \/ Announce(r)
       \/ Fail(r)

Spec == Init /\ [][Next]_vars
-----------------------------------------------------------------------------
(* Properties.  The first two hold however the requests interleave; the       *)
(* others are what the code achieves while no two requests overlap on the     *)
(* submission, and a race on it may break.                                    *)

\* Whatever requests race on it, a submission that is submitted carries the time
\* it was submitted: create and PATCH set the two together (lines 120 and 290).
SubmittedIsStamped ==
    \A s \in Submissions : row[s].status = "submitted" => row[s].submitted

\* Management has been told of a submission that waits for its sign-off, or the
\* request that submitted it is still to tell it, or the telling has failed and was
\* answered with an error: no interleaving loses the notice (lines 140 and 314).
SubmittedIsAnnounced ==
    \A s \in Submissions :
       row[s].status = "submitted" /\ row[s].type \in SignOffTypes =>
          \/ told[s] # "no"
          \/ \E r \in Requests : work[r].pc \in {"refresh", "announce"} /\ work[r].sub = s

\* A submitted checklist meets the rules of its type, whatever was edited or signed
\* since: "a PATCH must never leave a submitted row failing its own rules".
SubmittedIsValid ==
    \A s \in Submissions \ raced :
       row[s].status = "submitted" =>
          Valid(row[s].type, row[s].data, row[s].photos, row[s].sigs)

\* The stored summary is the summary of the stored data, attachments and signatures
\* after every mutation (compute_sheq_summary: "never trust a stale stored summary").
SummaryIsCurrent ==
    \A s \in Submissions \ raced :
       row[s].summary = Summary(row[s].data, row[s].photos, row[s].sigs)

\* What a supervisor signed off is what is stored: a stamped sign-off comes with a
\* supervisor's signature whose hash is that of the data as it is now.
SignOffVerifies ==
    \A s \in Submissions \ raced :
       row[s].signedOff => /\ row[s].status = "signed_off"
                           /\ \E g \in row[s].sigs : g.role = "supervisor" /\ g.hash = row[s].data

\* What is stored of a submission goes together: its status, the rules of its type, its
\* summary and its signatures.
SubmissionConsistent == SubmittedIsValid /\ SummaryIsCurrent /\ SignOffVerifies

\* A signed-off submission is neither edited, nor signed again, nor deleted.
SignedOffIsFinal ==
    [][\A s \in Submissions :
          row[s].status = "signed_off" /\ s \notin raced' => row'[s] = row[s]]_vars

\* signed_off is reached through a supervisor's signature alone, as the description
\* of SheqSubmissionUpdate.status says.
SignedOffBySignature ==
    \A s \in Submissions : row[s].status = "signed_off" => row[s].signedOff
=============================================================================
