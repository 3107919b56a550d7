------------------------------- MODULE SheqProofs ------------------------------
(***************************************************************************)
(* The invariants of Sheq, for any number of submissions and requests.     *)
(*                                                                         *)
(* What the rows promise is seldom inductive alone: it rests on what the   *)
(* requests at work have assigned (WorkersOK) and, for a submission no two *)
(* requests have overlapped on, on the one request at work having read the *)
(* row as it still is (SeenIsCurrent).                                     *)
(***************************************************************************)
EXTENDS Sheq, TLAPS

\* What every row keeps, and what a row nobody raced on keeps.
RowOK(rec) == /\ rec.status = "submitted" => rec.submitted
              /\ rec.life = "unused" => rec.status = "draft"
              /\ rec.life = "live" => rec.data # Null

CleanRow(rec) ==
    /\ rec.status = "submitted" => Valid(rec.type, rec.data, rec.photos, rec.sigs)
    /\ rec.summary = Summary(rec.data, rec.photos, rec.sigs)
    /\ rec.signedOff => /\ rec.status = "signed_off"
                        /\ \E g \in rec.sigs : g.role = "supervisor" /\ g.hash = rec.data

\* What the handler assigned follows from what it read.
Assigned(w) ==
    \/ /\ w.op = "update"
       /\ \E d \in Contents, photos \in BOOLEAN, st \in Statuses :
             /\ MustValidate(w.seen, st) => Valid(w.seen.type, d, photos, w.seen.sigs)
             /\ w.next = Edited(w.seen, d, photos, st)
    \/ w.op = "delete" /\ w.next = SoftDeleted(w.seen)
    \/ w.op = "sign" /\ \E role \in Roles : w.next = Signed(w.seen, role)

WorkerOK(w, rows) ==
    /\ w.pc # "idle" => w.sub \in Submissions
    /\ w.pc = "loaded" => Open(w.seen) /\ RowOK(w.seen) /\ Assigned(w)
                      /\ rows[w.sub].life # "unused"

WorkersOK == \A r \in Requests : WorkerOK(work[r], row)

\* A request working on a submission nobody raced on is alone with it, and has
\* read the row as it is.
SeenIsCurrent ==
    \A s \in Submissions \ raced, r \in Requests :
       Holds(r, s) => /\ work[r].seen = row[s]
                      /\ \A q \in Requests : Holds(q, s) => q = r

RowsOK == /\ \A s \in Submissions : RowOK(row[s])
          /\ \A s \in Submissions \ raced : CleanRow(row[s])

Inv == TypeOK /\ WorkersOK /\ SeenIsCurrent /\ RowsOK /\ SubmittedIsAnnounced

LEMMA InvImpliesProperties ==
    Inv => /\ SubmittedIsStamped /\ SubmittedIsAnnounced /\ SubmittedIsValid
           /\ SummaryIsCurrent /\ SignOffVerifies
  BY DEF Inv, RowsOK, RowOK, CleanRow, SubmittedIsStamped, SubmittedIsValid, SummaryIsCurrent,
         SignOffVerifies
-----------------------------------------------------------------------------
(* Types of what the actions build. *)

LEMMA SummaryType ==
    ASSUME NEW d \in Contents \cup {Null}, NEW photos \in BOOLEAN,
           NEW sigs \in SUBSET SignatureRecord
    PROVE  Summary(d, photos, sigs) \in SummaryRecord
  BY DEF Summary, SummaryRecord, SignatureRecord

LEMMA NoRowType == NoRow \in SubmissionRow /\ RowOK(NoRow) /\ CleanRow(NoRow)
<1>1. Summary(Null, FALSE, {}) \in SummaryRecord
  BY SummaryType
<1>2. NoRow \in SubmissionRow
  BY <1>1 DEF NoRow, SubmissionRow, Life, Statuses
<1> QED
  BY <1>2 DEF NoRow, RowOK, CleanRow

LEMMA NoWorkType == NoWork \in Work /\ NoWork.pc = "idle" /\ \A rows : WorkerOK(NoWork, rows)
  BY NoRowType DEF NoWork, Work, WorkerOK

LEMMA NewRowType ==
    ASSUME NEW type \in Types, NEW d \in Contents, NEW photos \in BOOLEAN, NEW st \in Statuses,
           st # "draft" => Valid(type, d, photos, {}),
           NEW q, q = NewRow(type, d, photos, st)
    PROVE  q \in SubmissionRow /\ RowOK(q) /\ CleanRow(q)
<1>1. PICK stamped \in BOOLEAN : stamped = (st # "draft")
  OBVIOUS
<1>2. q = [life |-> "live", type |-> type, data |-> d, photos |-> photos, status |-> st,
           sigs |-> {}, summary |-> Summary(d, photos, {}), submitted |-> stamped,
           signedOff |-> FALSE]
  BY <1>1 DEF NewRow, NoRow
<1>3. q \in SubmissionRow
  BY <1>2, SummaryType DEF SubmissionRow, Life
<1>4. RowOK(q)
  <2>1. q.status = st /\ q.submitted = stamped /\ q.life = "live" /\ q.data = d
    BY <1>2
  <2>2. d # Null
    BY ConstantsAssumption DEF ConstantsAssumption
  <2>3. q.status = "submitted" => q.submitted
    BY <1>1, <2>1
  <2> QED
    BY <2>1, <2>2, <2>3 DEF RowOK
<1>5. CleanRow(q)
  BY <1>2 DEF CleanRow
<1> QED
  BY <1>3, <1>4, <1>5

LEMMA EditedType ==
    ASSUME NEW rec \in SubmissionRow, NEW d \in Contents, NEW photos \in BOOLEAN,
           NEW st \in Statuses, NEW q, q = Edited(rec, d, photos, st)
    PROVE  /\ q \in SubmissionRow
           /\ q = [life |-> rec.life, type |-> rec.type, data |-> d, photos |-> photos,
                   status |-> st, sigs |-> rec.sigs, summary |-> Summary(d, photos, rec.sigs),
                   submitted |-> rec.submitted \/ (st = "submitted" /\ rec.status # "submitted"),
                   signedOff |-> rec.signedOff]
<1>1. PICK stamped \in BOOLEAN :
         stamped = (rec.submitted \/ (st = "submitted" /\ rec.status # "submitted"))
  OBVIOUS
<1>2. q = [life |-> rec.life, type |-> rec.type, data |-> d, photos |-> photos,
           status |-> st, sigs |-> rec.sigs, summary |-> Summary(d, photos, rec.sigs),
           submitted |-> stamped, signedOff |-> rec.signedOff]
  BY <1>1 DEF Edited, SubmissionRow
<1>3. rec.sigs \in SUBSET SignatureRecord
  BY DEF SubmissionRow
<1>4. q \in SubmissionRow
  BY <1>2, <1>3, SummaryType DEF SubmissionRow
<1> QED
  BY <1>1, <1>2, <1>4

LEMMA SignedType ==
    ASSUME NEW rec \in SubmissionRow, rec.data # Null, NEW role \in Roles,
           NEW q, q = Signed(rec, role)
    PROVE  /\ q \in SubmissionRow
           /\ q = [life |-> rec.life, type |-> rec.type, data |-> rec.data,
                   photos |-> rec.photos,
                   status |-> IF role = "supervisor" THEN "signed_off" ELSE rec.status,
                   sigs |-> rec.sigs \cup {Signature(rec, role)},
                   summary |-> Summary(rec.data, rec.photos, rec.sigs \cup {Signature(rec, role)}),
                   submitted |-> rec.submitted,
                   signedOff |-> rec.signedOff \/ role = "supervisor"]
<1>1. Signature(rec, role) \in SignatureRecord
  BY DEF Signature, SignatureRecord, SubmissionRow
<1>2. PICK sigs \in SUBSET SignatureRecord : sigs = rec.sigs \cup {Signature(rec, role)}
  BY <1>1 DEF SubmissionRow
<1>3. PICK off \in BOOLEAN : off = (rec.signedOff \/ role = "supervisor")
  OBVIOUS
<1>4. q = [life |-> rec.life, type |-> rec.type, data |-> rec.data, photos |-> rec.photos,
           status |-> IF role = "supervisor" THEN "signed_off" ELSE rec.status,
           sigs |-> sigs, summary |-> Summary(rec.data, rec.photos, sigs),
           submitted |-> rec.submitted, signedOff |-> off]
  BY <1>2, <1>3 DEF Signed, SubmissionRow
<1>5. q \in SubmissionRow
  BY <1>4, SummaryType DEF SubmissionRow, Statuses
<1> QED
  BY <1>2, <1>3, <1>4, <1>5
-----------------------------------------------------------------------------
(* What a commit makes of the row. *)

LEMMA CommittedRow ==
    ASSUME NEW now \in SubmissionRow, RowOK(now), now.life # "unused",
           NEW w \in Work, Open(w.seen), RowOK(w.seen), Assigned(w),
           NEW q, q = Committed(now, w)
    PROVE  /\ q \in SubmissionRow /\ RowOK(q) /\ q.life # "unused" /\ q.type = now.type
           /\ q.status = "submitted" => now.status = "submitted" \/ Announces(w)
           /\ w.seen = now /\ CleanRow(now) => CleanRow(q)
<1>0. w.seen \in SubmissionRow /\ w.next \in SubmissionRow /\ w.seen.data # Null
  BY DEF Work, Open, RowOK
<1>1. CASE w.op = "update"
  <2>1. PICK d \in Contents, photos \in BOOLEAN, st \in Statuses :
           /\ MustValidate(w.seen, st) => Valid(w.seen.type, d, photos, w.seen.sigs)
           /\ w.next = Edited(w.seen, d, photos, st)
    BY <1>1 DEF Assigned
  <2>2. w.next = [life |-> w.seen.life, type |-> w.seen.type, data |-> d, photos |-> photos,
                  status |-> st, sigs |-> w.seen.sigs,
                  summary |-> Summary(d, photos, w.seen.sigs),
                  submitted |-> w.seen.submitted
                                \/ (st = "submitted" /\ w.seen.status # "submitted"),
                  signedOff |-> w.seen.signedOff]
    BY <1>0, <2>1, EditedType
  <2>3. PICK stamped \in BOOLEAN : stamped = (now.submitted \/ w.next.submitted)
    OBVIOUS
  <2>4. q = Patched(now, w)
    BY <1>1 DEF Committed
  <2>5. q = [life |-> now.life, type |-> now.type,
             data |-> Written(now.data, w.seen.data, w.next.data),
             photos |-> Written(now.photos, w.seen.photos, w.next.photos),
             status |-> Written(now.status, w.seen.status, w.next.status),
             sigs |-> now.sigs,
             summary |-> Written(now.summary, w.seen.summary, w.next.summary),
             submitted |-> stamped, signedOff |-> now.signedOff]
    BY <2>3, <2>4 DEF Patched, SubmissionRow
  <2>6. q \in SubmissionRow
    BY <1>0, <2>5 DEF SubmissionRow, Written
  <2>7. q.status = "submitted" => now.status = "submitted" \/ Announces(w)
    BY <1>1, <2>5 DEF Announces, Written
  <2>8. RowOK(q)
    <3>1. q.status = "submitted" => q.submitted
      <4>0. q.submitted = stamped
        BY <2>5
      <4>1. CASE now.status = "submitted"
        BY <2>3, <4>0, <4>1 DEF RowOK
      <4>2. CASE q.status = "submitted" /\ now.status # "submitted"
        <5>1. st = "submitted" /\ w.seen.status # "submitted"
          BY <2>2, <2>5, <4>2 DEF Written
        <5>2. w.next.submitted = (w.seen.submitted
                                  \/ (st = "submitted" /\ w.seen.status # "submitted"))
          BY <2>2
        <5>3. w.next.submitted
          BY <5>1, <5>2
        <5> QED
          BY <2>3, <4>0, <5>3
      <4> QED
        BY <4>1, <4>2
    <3>2. w.next.data # Null
      BY <2>2, ConstantsAssumption DEF ConstantsAssumption
    <3>3. q.life = now.life /\ (q.data = now.data \/ q.data = w.next.data)
      BY <2>5 DEF Written
    <3> QED
      BY <3>1, <3>2, <3>3 DEF RowOK
  <2>9. ASSUME w.seen = now, CleanRow(now)
        PROVE  CleanRow(q)
    <3>1. q.type = now.type /\ q.data = d /\ q.photos = photos /\ q.status = st /\ q.sigs = now.sigs
          /\ q.summary = Summary(d, photos, now.sigs) /\ q.signedOff = now.signedOff
      BY <2>2, <2>5, <2>9 DEF Written
    <3>2. ~ now.signedOff
      BY <2>9 DEF Open, CleanRow
    <3>3. st = "submitted" => Valid(now.type, d, photos, now.sigs)
      BY <2>1, <2>9 DEF MustValidate
    <3> QED
      BY <3>1, <3>2, <3>3 DEF CleanRow
  <2> QED
    BY <2>5, <2>6, <2>7, <2>8, <2>9
<1>2. CASE w.op = "delete"
  <2>1. q = SoftDeleted(now)
    BY <1>2 DEF Committed
  <2>2. q = [life |-> "deleted", type |-> now.type, data |-> now.data, photos |-> now.photos,
             status |-> now.status, sigs |-> now.sigs, summary |-> now.summary,
             submitted |-> now.submitted, signedOff |-> now.signedOff]
    BY <2>1 DEF SoftDeleted, SubmissionRow
  <2>3. q \in SubmissionRow
    BY <2>2 DEF SubmissionRow, Life
  <2> QED
    BY <2>2, <2>3 DEF RowOK, CleanRow
<1>3. CASE w.op = "sign"
  <2>1. PICK role \in Roles : w.next = Signed(w.seen, role)
    BY <1>3 DEF Assigned
  <2>2. w.next = [life |-> w.seen.life, type |-> w.seen.type, data |-> w.seen.data,
                  photos |-> w.seen.photos,
                  status |-> IF role = "supervisor" THEN "signed_off" ELSE w.seen.status,
                  sigs |-> w.seen.sigs \cup {Signature(w.seen, role)},
                  summary |-> Summary(w.seen.data, w.seen.photos,
                                      w.seen.sigs \cup {Signature(w.seen, role)}),
                  submitted |-> w.seen.submitted,
                  signedOff |-> w.seen.signedOff \/ role = "supervisor"]
    BY <1>0, <2>1, SignedType
  <2>3. PICK off \in BOOLEAN : off = (now.signedOff \/ w.next.signedOff)
    OBVIOUS
  <2>4. q = Countersigned(now, w)
    BY <1>3 DEF Committed
  <2>5. q = [life |-> now.life, type |-> now.type, data |-> now.data, photos |-> now.photos,
             status |-> Written(now.status, w.seen.status, w.next.status),
             sigs |-> w.next.sigs,
             summary |-> Written(now.summary, w.seen.summary, w.next.summary),
             submitted |-> now.submitted, signedOff |-> off]
    BY <2>3, <2>4 DEF Countersigned, SubmissionRow
  <2>6. q \in SubmissionRow
    BY <1>0, <2>5 DEF SubmissionRow, Written
  <2>7. q.status = "submitted" => now.status = "submitted"
    BY <2>2, <2>5 DEF Written
  <2>8. RowOK(q)
    BY <2>5, <2>7 DEF RowOK
  <2>9. ASSUME w.seen = now, CleanRow(now)
        PROVE  CleanRow(q)
    <3> DEFINE g == Signature(now, role)
    <3>1. /\ q.type = now.type /\ q.data = now.data /\ q.photos = now.photos
          /\ q.sigs = now.sigs \cup {g}
          /\ q.status = IF role = "supervisor" THEN "signed_off" ELSE now.status
          /\ q.summary = Summary(now.data, now.photos, now.sigs \cup {g})
          /\ q.signedOff = (now.signedOff \/ role = "supervisor")
      <4>1. /\ q.type = now.type /\ q.data = now.data /\ q.photos = now.photos
            /\ q.sigs = now.sigs \cup {g}
        BY <2>2, <2>5, <2>9
      <4>2. /\ q.status = IF role = "supervisor" THEN "signed_off" ELSE now.status
            /\ q.summary = Summary(now.data, now.photos, now.sigs \cup {g})
        BY <2>2, <2>5, <2>9 DEF Written
      <4>3. q.signedOff = off /\ off = (now.signedOff \/ w.next.signedOff)
        BY <2>3, <2>5
      <4>4. w.next.signedOff = (now.signedOff \/ role = "supervisor")
        BY <2>2, <2>9
      <4>5. q.signedOff = (now.signedOff \/ role = "supervisor")
        BY <4>3, <4>4
      <4> QED
        BY <4>1, <4>2, <4>5
    <3>2. ~ now.signedOff
      BY <2>9 DEF Open, CleanRow
    <3>3. g.role = role /\ g.hash = now.data
      BY DEF Signature
    <3>4. ASSUME q.status = "submitted"
          PROVE  Valid(now.type, now.data, now.photos, now.sigs \cup {g})
      <4>1. role # "supervisor" /\ Valid(now.type, now.data, now.photos, now.sigs)
        BY <2>9, <3>1, <3>4 DEF CleanRow
      <4> QED
        BY <3>3, <4>1 DEF Valid, VehicleValid, JourneyValid, RiskAssessmentValid, MasterSafetyValid,
             SignedBy
    <3> QED
      BY <3>1, <3>2, <3>3, <3>4 DEF CleanRow
  <2> QED
    BY <2>5, <2>6, <2>7, <2>8, <2>9
<1> QED
  BY <1>1, <1>2, <1>3 DEF Assigned
-----------------------------------------------------------------------------
(* Every step keeps the invariant. *)

\* A request goes on without touching a row and without holding one.
LEMMA RequestGoesOn ==
    ASSUME Inv, NEW r \in Requests, NEW q \in Work, WorkerOK(q, row), q.pc # "loaded",
           work' = [work EXCEPT ![r] = q], UNCHANGED <<row, raced>>,
           told' \in [Submissions -> {"no", "yes", "failed"}]
    PROVE  TypeOK' /\ WorkersOK' /\ SeenIsCurrent' /\ RowsOK'
<1>1. TypeOK'
  BY DEF Inv, TypeOK
<1>2. \A p \in Requests : work'[p] = IF p = r THEN q ELSE work[p]
  BY DEF Inv, TypeOK
<1>3. WorkersOK'
  BY <1>2 DEF Inv, WorkersOK
<1>4. \A p \in Requests, s \in Submissions : Holds(p, s)' => Holds(p, s) /\ work'[p] = work[p]
  BY <1>2 DEF Holds
<1>5. SeenIsCurrent'
  BY <1>4 DEF Inv, SeenIsCurrent
<1>6. RowsOK'
  BY DEF Inv, RowsOK
<1> QED
  BY <1>1, <1>3, <1>5, <1>6

LEMMA CreateStep ==
    ASSUME Inv, NEW r \in Requests, NEW s \in Submissions, Create(r, s)
    PROVE  Inv'
<1>1. PICK type \in Types, st \in Statuses, d \in Contents, photos \in BOOLEAN :
         /\ st # "draft" => Valid(type, d, photos, {})
         /\ row' = [row EXCEPT ![s] = NewRow(type, d, photos, st)]
  BY DEF Create, DataOf, PhotosOf
<1>2. PICK n : n = NewRow(type, d, photos, st)
  OBVIOUS
<1>3. n \in SubmissionRow /\ RowOK(n) /\ CleanRow(n) /\ n.life = "live"
  <2>1. n.life = "live"
    BY <1>2 DEF NewRow, NoRow
  <2> QED
    BY <1>1, <1>2, <2>1, NewRowType
<1>4. PICK q : q = Creating(s)
  OBVIOUS
<1>5. q = [pc |-> "refresh", op |-> Null, sub |-> s, seen |-> NoRow, next |-> NoRow]
  BY <1>4 DEF Creating, NoWork
<1>6. q \in Work
  BY <1>5, NoRowType DEF Work
<1>7. /\ row[s].life = "unused" /\ work[r].pc = "idle" /\ UNCHANGED <<told, raced>>
      /\ row' = [row EXCEPT ![s] = n] /\ work' = [work EXCEPT ![r] = q]
  BY <1>1, <1>2, <1>4 DEF Create
<1>8. TypeOK'
  BY <1>3, <1>6, <1>7 DEF Inv, TypeOK
<1>9. /\ \A p \in Requests : work'[p] = IF p = r THEN q ELSE work[p]
      /\ \A t \in Submissions : row'[t] = IF t = s THEN n ELSE row[t]
  BY <1>7 DEF Inv, TypeOK
<1>10. WorkersOK'
  <2>1. WorkerOK(q, row')
    BY <1>5 DEF WorkerOK
  <2>2. \A p \in Requests : WorkerOK(work[p], row')
    BY <1>3, <1>9 DEF Inv, WorkersOK, WorkerOK
  <2> QED
    BY <1>9, <2>1, <2>2 DEF WorkersOK
<1>11. \A p \in Requests, t \in Submissions :
          Holds(p, t)' => t # s /\ Holds(p, t) /\ work'[p] = work[p]
  BY <1>5, <1>7, <1>9 DEF Inv, WorkersOK, WorkerOK, Holds
<1>12. SeenIsCurrent'
  BY <1>7, <1>9, <1>11 DEF Inv, SeenIsCurrent
<1>13. RowsOK'
  BY <1>3, <1>7, <1>9 DEF Inv, RowsOK
<1>14. SubmittedIsAnnounced'
  <2>1. work'[r].pc = "refresh" /\ work'[r].sub = s
    BY <1>5, <1>9
  <2>2. \A p \in Requests : work[p].pc \in {"refresh", "announce"} => work'[p] = work[p]
    BY <1>7, <1>9
  <2> QED
    BY <1>7, <1>9, <2>1, <2>2 DEF Inv, SubmittedIsAnnounced
<1> QED
  BY <1>8, <1>10, <1>12, <1>13, <1>14 DEF Inv

LEMMA LoadStep ==
    ASSUME Inv, NEW r \in Requests, NEW s \in Submissions, NEW op \in {"update", "delete", "sign"},
           NEW n \in SubmissionRow, Load(r, op, s, n), Assigned(Loaded(op, s, n))
    PROVE  Inv'
<1>1. PICK q : q = Loaded(op, s, n)
  OBVIOUS
<1>2. q = [pc |-> "loaded", op |-> op, sub |-> s, seen |-> row[s], next |-> n]
  BY <1>1 DEF Loaded
<1>3. q \in Work
  BY <1>2 DEF Work, Inv, TypeOK
<1>4. /\ work[r].pc = "idle" /\ Open(row[s]) /\ work' = [work EXCEPT ![r] = q]
      /\ raced' = IF \E p \in Requests : Holds(p, s) THEN raced \cup {s} ELSE raced
      /\ UNCHANGED <<row, told>>
  BY <1>1 DEF Load
<1>5. TypeOK'
  BY <1>3, <1>4 DEF Inv, TypeOK
<1>6. \A p \in Requests : work'[p] = IF p = r THEN q ELSE work[p]
  BY <1>4 DEF Inv, TypeOK
<1>7. WorkersOK'
  <2>1. WorkerOK(q, row)
    BY <1>1, <1>2, <1>4 DEF WorkerOK, Open, Inv, RowsOK
  <2> QED
    BY <1>4, <1>6, <2>1 DEF WorkersOK, Inv
<1>8. SeenIsCurrent'
  <2>1. SUFFICES ASSUME NEW t \in Submissions \ raced', NEW p \in Requests, Holds(p, t)'
                 PROVE  /\ work'[p].seen = row'[t]
                        /\ \A o \in Requests : Holds(o, t)' => o = p
    BY DEF SeenIsCurrent
  <2>2. t \notin raced /\ (t = s => \A o \in Requests : ~ Holds(o, s))
    BY <1>4, <2>1
  <2>3. \A o \in Requests \ {r} : Holds(o, t)' <=> Holds(o, t)
    BY <1>6 DEF Holds
  <2>4. Holds(r, t)' => t = s
    BY <1>2, <1>6 DEF Holds
  <2>5. CASE p = r
    BY <1>2, <1>4, <1>6, <2>1, <2>2, <2>3, <2>4, <2>5
  <2>6. CASE p # r
    <3>1. Holds(p, t) /\ t # s
      BY <2>1, <2>2, <2>3, <2>6
    <3>2. work[p].seen = row[t] /\ \A o \in Requests : Holds(o, t) => o = p
      BY <2>2, <3>1 DEF Inv, SeenIsCurrent
    <3> QED
      BY <1>4, <1>6, <2>3, <2>4, <2>6, <3>1, <3>2
  <2> QED
    BY <2>5, <2>6
<1>9. RowsOK'
  BY <1>4 DEF Inv, RowsOK
<1>10. SubmittedIsAnnounced'
  <2>1. \A p \in Requests : work[p].pc \in {"refresh", "announce"} => work'[p] = work[p]
    BY <1>4, <1>6
  <2> QED
    BY <1>4, <2>1 DEF Inv, SubmittedIsAnnounced
<1> QED
  BY <1>5, <1>7, <1>8, <1>9, <1>10 DEF Inv

LEMMA CommitStep ==
    ASSUME Inv, NEW r \in Requests, CommitWork(r)
    PROVE  Inv'
<1>1. PICK w \in Work : w = work[r]
  BY DEF Inv, TypeOK
<1>2. PICK s \in Submissions : s = w.sub
  BY <1>1 DEF CommitWork, Inv, WorkersOK, WorkerOK
<1>3. PICK n : n = Committed(row[s], w)
  OBVIOUS
<1>4. PICK q : q = AfterCommit(w)
  OBVIOUS
<1>5. /\ w.pc = "loaded" /\ row' = [row EXCEPT ![s] = n] /\ work' = [work EXCEPT ![r] = q]
      /\ told' = IF row[s].status # "submitted" /\ row'[s].status = "submitted"
                 THEN [told EXCEPT ![s] = "no"] ELSE told
      /\ raced' = raced
  BY <1>1, <1>2, <1>3, <1>4 DEF CommitWork, Inv, TypeOK
<1>6. /\ row[s] \in SubmissionRow /\ RowOK(row[s]) /\ row[s].life # "unused"
      /\ Open(w.seen) /\ RowOK(w.seen) /\ Assigned(w)
  BY <1>1, <1>2, <1>5 DEF Inv, TypeOK, RowsOK, WorkersOK, WorkerOK
<1>7. /\ n \in SubmissionRow /\ RowOK(n) /\ n.life # "unused" /\ n.type = row[s].type
      /\ n.status = "submitted" => row[s].status = "submitted" \/ Announces(w)
      /\ w.seen = row[s] /\ CleanRow(row[s]) => CleanRow(n)
  BY <1>3, <1>6, CommittedRow
<1>8. /\ q \in Work /\ q.pc # "loaded" /\ (q.pc # "idle" => q.sub = s)
      /\ Announces(w) => q.pc = "announce"
  <2>1. CASE Announces(w)
    <3>1. q = [pc |-> "announce", op |-> w.op, sub |-> w.sub, seen |-> w.seen, next |-> w.next]
      BY <1>4, <2>1 DEF AfterCommit, Work
    <3> QED
      BY <1>2, <3>1 DEF Work
  <2>2. CASE ~ Announces(w)
    BY <1>4, <2>2, NoWorkType DEF AfterCommit
  <2> QED
    BY <2>1, <2>2
<1>9. /\ \A p \in Requests : work'[p] = IF p = r THEN q ELSE work[p]
      /\ \A t \in Submissions : row'[t] = IF t = s THEN n ELSE row[t]
  BY <1>5 DEF Inv, TypeOK
<1>10. TypeOK'
  BY <1>5, <1>7, <1>8 DEF Inv, TypeOK
<1>11. WorkersOK'
  <2>1. WorkerOK(q, row')
    BY <1>8 DEF WorkerOK
  <2>2. \A p \in Requests : WorkerOK(work[p], row')
    BY <1>7, <1>9 DEF Inv, WorkersOK, WorkerOK
  <2> QED
    BY <1>9, <2>1, <2>2 DEF WorkersOK
<1>12. Holds(r, s)
  BY <1>1, <1>2, <1>5 DEF Holds
<1>13. \A p \in Requests, t \in Submissions :
          Holds(p, t)' => p # r /\ Holds(p, t) /\ work'[p] = work[p]
  BY <1>8, <1>9 DEF Holds
<1>14. SeenIsCurrent'
  <2>1. SUFFICES ASSUME NEW t \in Submissions \ raced', NEW p \in Requests, Holds(p, t)'
                 PROVE  /\ work'[p].seen = row'[t]
                        /\ \A o \in Requests : Holds(o, t)' => o = p
    BY DEF SeenIsCurrent
  <2>2. /\ Holds(p, t) /\ p # r /\ work'[p] = work[p] /\ work[p].seen = row[t]
        /\ \A o \in Requests : Holds(o, t) => o = p
    BY <1>5, <1>13, <2>1 DEF Inv, SeenIsCurrent
  <2>3. t # s
    BY <1>12, <2>2
  <2> QED
    BY <1>9, <1>13, <2>2, <2>3
<1>15. RowsOK'
  <2>1. s \notin raced => CleanRow(n)
    BY <1>1, <1>7, <1>12 DEF Inv, SeenIsCurrent, RowsOK
  <2> QED
    BY <1>5, <1>7, <1>9, <2>1 DEF Inv, RowsOK
<1>16. SubmittedIsAnnounced'
  <2>1. SUFFICES ASSUME NEW t \in Submissions, row'[t].status = "submitted",
                        row'[t].type \in SignOffTypes, told'[t] = "no"
                 PROVE  \E p \in Requests : /\ work'[p].pc \in {"refresh", "announce"}
                                            /\ work'[p].sub = t
    BY DEF SubmittedIsAnnounced
  <2>2. CASE t = s /\ Announces(w)
    BY <1>8, <1>9, <2>2
  <2>3. CASE row[t].status = "submitted" /\ (t = s => ~ Announces(w))
    <3>1. row[t].type = row'[t].type
      BY <1>7, <1>9
    <3>2. told[t] = "no"
      BY <1>5, <2>1, <2>3 DEF Inv, TypeOK
    <3>3. PICK p \in Requests : work[p].pc \in {"refresh", "announce"} /\ work[p].sub = t
      BY <2>1, <2>3, <3>1, <3>2 DEF Inv, SubmittedIsAnnounced
    <3>4. work'[p] = work[p]
      BY <1>1, <1>5, <1>9, <3>3
    <3> QED
      BY <3>3, <3>4
  <2> QED
    BY <1>7, <1>9, <2>1, <2>2, <2>3
<1> QED
  BY <1>10, <1>11, <1>14, <1>15, <1>16 DEF Inv
-----------------------------------------------------------------------------
LEMMA InitStep == Init => Inv
<1> SUFFICES ASSUME Init PROVE Inv
  OBVIOUS
<1>1. TypeOK
  BY NoRowType, NoWorkType DEF Init, TypeOK
<1>2. \A r \in Requests : work[r] = NoWork
  BY DEF Init
<1>3. WorkersOK
  BY <1>2, NoWorkType DEF WorkersOK
<1>4. SeenIsCurrent
  BY <1>2, NoWorkType DEF SeenIsCurrent, Holds
<1>5. RowsOK
  BY NoRowType DEF Init, RowsOK
<1>6. SubmittedIsAnnounced
  BY DEF Init, SubmittedIsAnnounced, NoRow
<1> QED
  BY <1>1, <1>3, <1>4, <1>5, <1>6 DEF Inv

LEMMA NextStep == Inv /\ [Next]_vars => Inv'
<1> SUFFICES ASSUME Inv, [Next]_vars PROVE Inv'
  OBVIOUS
<1>1. CASE UNCHANGED vars
  BY <1>1 DEF vars, Inv, TypeOK, WorkersOK, SeenIsCurrent, Holds, RowsOK, SubmittedIsAnnounced
<1>2. ASSUME NEW r \in Requests, NEW s \in Submissions, Create(r, s)
      PROVE  Inv'
  BY <1>2, CreateStep
<1>3. ASSUME NEW r \in Requests, NEW s \in Submissions, LoadForUpdate(r, s)
      PROVE  Inv'
  <2>1. PICK d \in Contents, photos \in BOOLEAN, st \in Statuses :
           /\ MustValidate(row[s], st) => Valid(row[s].type, d, photos, row[s].sigs)
           /\ Load(r, "update", s, Edited(row[s], d, photos, st))
    BY <1>3 DEF LoadForUpdate, DataOf, PhotosOf
  <2>2. PICK n : n = Edited(row[s], d, photos, st)
    OBVIOUS
  <2>3. n \in SubmissionRow
    BY <2>2, EditedType DEF Inv, TypeOK
  <2>4. Assigned(Loaded("update", s, n))
    BY <2>1, <2>2 DEF Assigned, Loaded
  <2> QED
    BY <2>1, <2>2, <2>3, <2>4, LoadStep
<1>4. ASSUME NEW r \in Requests, NEW s \in Submissions, LoadForDelete(r, s)
      PROVE  Inv'
  <2>1. PICK n : n = SoftDeleted(row[s])
    OBVIOUS
  <2>2. n \in SubmissionRow
    BY <2>1 DEF SoftDeleted, Inv, TypeOK, SubmissionRow, Life
  <2>3. Assigned(Loaded("delete", s, n))
    BY <2>1 DEF Assigned, Loaded
  <2> QED
    BY <1>4, <2>1, <2>2, <2>3, LoadStep DEF LoadForDelete
<1>5. ASSUME NEW r \in Requests, NEW s \in Submissions, LoadForSign(r, s)
      PROVE  Inv'
  <2>1. PICK role \in Roles : Load(r, "sign", s, Signed(row[s], role))
    BY <1>5 DEF LoadForSign
  <2>2. PICK n : n = Signed(row[s], role)
    OBVIOUS
  <2>3. row[s] \in SubmissionRow /\ row[s].data # Null
    BY <2>1 DEF Load, Open, Inv, TypeOK, RowsOK, RowOK
  <2>4. n \in SubmissionRow
    BY <2>2, <2>3, SignedType
  <2>5. Assigned(Loaded("sign", s, n))
    BY <2>2 DEF Assigned, Loaded
  <2> QED
    BY <2>1, <2>2, <2>4, <2>5, LoadStep
<1>6. ASSUME NEW r \in Requests, CommitWork(r)
      PROVE  Inv'
  BY <1>6, CommitStep
<1>7. ASSUME NEW r \in Requests, Refresh(r)
      PROVE  Inv'
  <2>1. PICK q : q = IF row[work[r].sub].status = "submitted"
                     THEN [work[r] EXCEPT !.pc = "announce"] ELSE NoWork
    OBVIOUS
  <2>2. /\ work[r].pc = "refresh" /\ work[r].sub \in Submissions /\ work[r] \in Work
        /\ work' = [work EXCEPT ![r] = q] /\ UNCHANGED <<row, told, raced>>
    BY <1>7, <2>1 DEF Refresh, Inv, TypeOK, WorkersOK, WorkerOK
  <2>3. /\ q \in Work /\ q.pc # "loaded" /\ (q.pc # "idle" => q.sub \in Submissions)
        /\ row[work[r].sub].status = "submitted" => q.pc = "announce" /\ q.sub = work[r].sub
    <3>1. CASE row[work[r].sub].status = "submitted"
      <4>1. q = [pc |-> "announce", op |-> work[r].op, sub |-> work[r].sub,
                 seen |-> work[r].seen, next |-> work[r].next]
        BY <2>1, <2>2, <3>1 DEF Work
      <4> QED
        BY <2>2, <4>1 DEF Work
    <3>2. CASE row[work[r].sub].status # "submitted"
      BY <2>1, <3>2, NoWorkType
    <3> QED
      BY <3>1, <3>2
  <2>4. WorkerOK(q, row)
    BY <2>3 DEF WorkerOK
  <2>5. TypeOK' /\ WorkersOK' /\ SeenIsCurrent' /\ RowsOK'
    BY <2>2, <2>3, <2>4, RequestGoesOn DEF Inv, TypeOK
  <2>6. SubmittedIsAnnounced'
    <3>1. \A p \in Requests : work'[p] = IF p = r THEN q ELSE work[p]
      BY <2>2 DEF Inv, TypeOK
    <3>2. \A t \in Submissions : work[r].sub = t /\ row[t].status = "submitted" =>
             work'[r].pc = "announce" /\ work'[r].sub = t
      BY <2>3, <3>1
    <3> QED
      BY <2>2, <3>1, <3>2 DEF Inv, SubmittedIsAnnounced
  <2> QED
    BY <2>5, <2>6 DEF Inv
<1>8. ASSUME NEW r \in Requests, Announce(r) \/ Fail(r)
      PROVE  Inv'
  <2>1. /\ work[r].sub \in Submissions /\ work' = [work EXCEPT ![r] = NoWork]
        /\ UNCHANGED <<row, raced>>
    BY <1>8 DEF Announce, Fail, Inv, WorkersOK, WorkerOK
  <2>2. /\ told' \in [Submissions -> {"no", "yes", "failed"}]
        /\ \A t \in Submissions : told[t] # "no" => told'[t] # "no"
        /\ work[r].pc \in {"refresh", "announce"} =>
              told'[work[r].sub] # "no" \/ row[work[r].sub].type \notin SignOffTypes
    BY <1>8, <2>1 DEF Announce, Fail, Inv, TypeOK
  <2>3. TypeOK' /\ WorkersOK' /\ SeenIsCurrent' /\ RowsOK'
    BY <2>1, <2>2, NoWorkType, RequestGoesOn
  <2>4. SubmittedIsAnnounced'
    <3>1. SUFFICES ASSUME NEW t \in Submissions, row[t].status = "submitted",
                          row[t].type \in SignOffTypes, told'[t] = "no"
                   PROVE  \E p \in Requests : /\ work'[p].pc \in {"refresh", "announce"}
                                              /\ work'[p].sub = t
      BY <2>1 DEF SubmittedIsAnnounced
    <3>2. PICK p \in Requests : work[p].pc \in {"refresh", "announce"} /\ work[p].sub = t
      BY <2>2, <3>1 DEF Inv, SubmittedIsAnnounced
    <3>3. p # r
      BY <2>2, <3>1, <3>2
    <3> QED
      BY <2>1, <3>2, <3>3 DEF Inv, TypeOK
  <2> QED
    BY <2>3, <2>4 DEF Inv
<1> QED
  BY <1>1, <1>2, <1>3, <1>4, <1>5, <1>6, <1>7, <1>8 DEF Next

\* The invariant holds of every behaviour of create_submission, update_submission,
\* delete_submission and add_signature, however their requests interleave and fail.
THEOREM SheqInvariant == Spec => []Inv
  BY InitStep, NextStep, PTL DEF Spec

\* The tables, the requests and the ghosts keep their types.
THEOREM SheqTypes == Spec => []TypeOK
  BY SheqInvariant, PTL DEF Inv

\* A submitted checklist carries the time of its submission, whatever races on it.
THEOREM SubmittedIsStampedAlways == Spec => []SubmittedIsStamped
  BY SheqInvariant, InvImpliesProperties, PTL

\* No interleaving of create_submission and update_submission loses the notice to
\* management of a submission that waits for its sign-off.
THEOREM SubmittedIsAnnouncedAlways == Spec => []SubmittedIsAnnounced
  BY SheqInvariant, InvImpliesProperties, PTL

\* While no two requests overlap on it, no edit, signature or sign-off leaves a
\* submitted checklist that breaks the rules of its type, the summary is that of what is
\* stored, and a sign-off is of the data that is stored.
THEOREM SubmissionConsistentAlways == Spec => []SubmissionConsistent
  BY SheqInvariant, InvImpliesProperties, PTL DEF SubmissionConsistent

\* While no two requests overlap on it, a signed-off submission never changes again.
THEOREM SignedOffIsFinalAlways == Spec => SignedOffIsFinal
<1>1. Inv /\ Inv' /\ [Next]_vars =>
         [\A s \in Submissions : row[s].status = "signed_off" /\ s \notin raced' =>
             row'[s] = row[s]]_vars
  <2> SUFFICES ASSUME Inv, Next, NEW s \in Submissions, row[s].status = "signed_off",
                      s \notin raced'
               PROVE  row'[s] = row[s]
    BY DEF vars
  <2>1. ASSUME NEW r \in Requests, NEW t \in Submissions, Create(r, t)
        PROVE  row'[s] = row[s]
    BY <2>1 DEF Create, Inv, RowsOK, RowOK, TypeOK
  <2>2. ASSUME NEW r \in Requests, CommitWork(r)
        PROVE  row'[s] = row[s]
    <3>1. s \notin raced /\ Open(work[r].seen) /\ work[r].pc = "loaded"
      BY <2>2 DEF CommitWork, Inv, WorkersOK, WorkerOK
    <3>2. work[r].sub # s
      BY <3>1 DEF Inv, SeenIsCurrent, Holds, Open
    <3> QED
      BY <2>2, <3>2 DEF CommitWork, Inv, TypeOK
  <2> QED
    BY <2>1, <2>2 DEF Next, LoadForUpdate, LoadForDelete, LoadForSign, Load, Refresh, Announce, Fail
<1> QED
  BY <1>1, SheqInvariant, PTL DEF Spec, SignedOffIsFinal
=============================================================================
