--------------------------------- MODULE Forms ---------------------------------
(***************************************************************************)
(* Forms defined at run time and what is filed under them:                 *)
(* services/template_category.py, services/form_template.py,               *)
(* services/form_submission.py, services/form_validation.py and their      *)
(* models.  Management edits a form while it is being filled in; what is   *)
(* filed keeps a copy of the form it was judged by.                        *)
(*                                                                         *)
(* One category is modelled.  Left out: the task or the incident it may    *)
(* ask a submission for, names, codes, labels and the order of the fields. *)
(***************************************************************************)
EXTENDS Naturals, UnitOfWork

CONSTANTS Templates, Filings,
          Editors,      \* the requests
          Structures,   \* the structures of a form: functions from keys to fields
          Payloads,     \* what may be filed
          MaxVersion,   \* a bound on the versions
          Refused       \* what a value that a field does not take is turned into

\* `range' holds the amounts, lengths and sizes the constraints of a field allow, and
\* `options' the options of an enumeration or the mime types of an attachment.
IsField(f) ==
    /\ f.type \in {"string", "number", "boolean", "date", "enum", "attachment"}
    /\ f.required \in BOOLEAN

\* A value: its kind, what a text reads as or the type of a file, and how long or large
\* it is.
IsRaw(v) ==
    /\ v = [kind |-> v.kind, reads |-> v.reads, amount |-> v.amount, length |-> v.length]
    /\ v.kind \in {"null", "text", "number", "bool", "file"}
    /\ v.amount \in Nat /\ v.length \in Nat

ASSUME FormsAssumption ==
    /\ MaxVersion \in Nat \ {0} /\ Structures # {}
    /\ \A s \in Structures : \A k \in DOMAIN s : IsField(s[k])
    /\ \A p \in Payloads : /\ \A k \in DOMAIN p.values : IsRaw(p.values[k])
                           /\ \A k \in DOMAIN p.attachments : IsRaw(p.attachments[k])

CategoryRow == [life : Life, active : BOOLEAN, system : BOOLEAN]

TemplateRow == [life : Life, active : BOOLEAN, version : 0 .. MaxVersion, structure : Structures]

\* A request: the row it read and assigned, or what it is to file.
NoTemplate == [life |-> "unused", active |-> FALSE, version |-> 0, structure |-> CHOOSE s \in Structures : TRUE]

NoEdit == [op |-> "idle", template |-> CHOOSE t \in Templates : TRUE, seen |-> NoTemplate, next |-> NoTemplate,
           filled |-> Refused]

VARIABLES
    category,   \* the row of the table template_categories
    template,   \* the table form_templates
    filed,      \* the table form_submissions
    edit,       \* the requests being served
    forked      \* the templates two structural updates have held at the same time
formVars == <<category, template, filed, edit, forked>>

NotFiled == [life |-> "unused"]

FormsTypeOK ==
    /\ category \in CategoryRow
    /\ template \in [Templates -> TemplateRow]
    /\ \A s \in Filings : filed[s] = NotFiled \/ filed[s].template \in Templates
    /\ \A e \in Editors : /\ edit[e].op \in {"idle", "create", "update", "submit"}
                          /\ {edit[e].seen, edit[e].next} \subseteq TemplateRow
    /\ forked \subseteq Templates

\* The built-in categories are seeded.
FormsInit ==
    /\ \E life \in {"unused", "live"} :
          category = [life |-> life, active |-> TRUE, system |-> (life = "live")]
    /\ template = [t \in Templates |-> NoTemplate]
    /\ filed = [s \in Filings |-> NotFiled]
    /\ edit = [e \in Editors |-> NoEdit]
    /\ forked = {}
-----------------------------------------------------------------------------
(* validate_submission.                                                    *)

ValidString(f, v) == IF v.kind = "text" /\ v.length \in f.range THEN v ELSE Refused

Amount(n) == [kind |-> "number", reads |-> "", amount |-> n, length |-> 0]
Truth(b)  == [kind |-> "bool", reads |-> b, amount |-> 0, length |-> 0]

\* Slip: the amount a text reads as is not held against the constraints.
LenientNumber(f, v) ==
    IF (v.kind = "text" /\ v.reads = "amount") \/ (v.kind = "number" /\ v.amount \in f.range)
    THEN Amount(v.amount) ELSE Refused

ValidNumber(f, v) ==
    IF (v.kind = "number" \/ (v.kind = "text" /\ v.reads = "amount")) /\ v.amount \in f.range
    THEN Amount(v.amount) ELSE Refused

ValidBoolean(f, v) ==
    IF v.kind = "bool" \/ (v.kind = "text" /\ v.reads \in {"true", "false"})
    THEN Truth(v.reads) ELSE Refused

\* A date in another form is written as an ISO date.
ValidDate(f, v) ==
    IF v.kind = "text" /\ v.reads \in {"date", "compact date"} THEN [v EXCEPT !.reads = "date"] ELSE Refused

ValidEnum(f, v) == IF v.kind = "text" /\ v.reads \in f.options THEN v ELSE Refused

ValidAttachment(f, v) ==
    IF v.kind = "file" /\ v.reads \in f.options /\ v.amount \in f.range THEN v ELSE Refused

Coerced(f, v) ==
    CASE f.type = "string"  -> ValidString(f, v)
      [] f.type = "number"  -> ValidNumber(f, v)
      [] f.type = "boolean" -> ValidBoolean(f, v)
      [] f.type = "date"    -> ValidDate(f, v)
      [] f.type = "enum"    -> ValidEnum(f, v)
      [] OTHER              -> ValidAttachment(f, v)

IsEmpty(v) == v.kind = "null" \/ (v.kind = "text" /\ v.reads = "blank")

Given(source) == {k \in DOMAIN source : ~ IsEmpty(source[k])}

CoercedAll(s, source) == [k \in Given(source) |-> Coerced(s[k], source[k])]

Validated(s, p) ==
    LET files  == {k \in DOMAIN s : s[k].type = "attachment"}
        inputs == DOMAIN s \ files IN
    IF /\ DOMAIN p.values \subseteq inputs /\ DOMAIN p.attachments \subseteq files
       /\ \A k \in DOMAIN s : s[k].required => k \in Given(p.values) \cup Given(p.attachments)
       /\ \A k \in Given(p.values) : Coerced(s[k], p.values[k]) # Refused
       /\ \A k \in Given(p.attachments) : Coerced(s[k], p.attachments[k]) # Refused
    THEN [values |-> CoercedAll(s, p.values), attachments |-> CoercedAll(s, p.attachments)]
    ELSE Refused
-----------------------------------------------------------------------------
(* The category.  What a request assigns does not depend on what it read.  *)

CreateCategory ==
    /\ category.life = "unused"
    /\ \E active \in BOOLEAN : category' = [life |-> "live", active |-> active, system |-> FALSE]
    /\ UNCHANGED <<template, filed, edit, forked>>

UpdateCategory ==
    /\ category.life = "live"
    /\ \E active \in BOOLEAN : category' = [category EXCEPT !.active = active]
    /\ UNCHANGED <<template, filed, edit, forked>>

DeleteCategory ==
    /\ category.life = "live" /\ ~ category.system
    /\ category' = SoftDeleted(category)
    /\ UNCHANGED <<template, filed, edit, forked>>
-----------------------------------------------------------------------------
(* The templates.                                                          *)

BeginEdit(e, w) ==
    /\ edit[e].op = "idle"
    /\ edit' = [edit EXCEPT ![e] = w]

\* create_template: of an active category, whatever becomes of it before the insert.
LoadCategory(e) ==
    /\ category.life = "live" /\ category.active
    /\ BeginEdit(e, [NoEdit EXCEPT !.op = "create"])
    /\ UNCHANGED <<category, template, filed, forked>>

InsertTemplate(e, t) ==
    /\ edit[e].op = "create" /\ template[t].life = "unused"
    /\ \E active \in BOOLEAN, s \in Structures :
          template' = [template EXCEPT ![t] = [life |-> "live", active |-> active, version |-> 1,
                                               structure |-> s]]
    /\ edit' = [edit EXCEPT ![e] = NoEdit]
    /\ UNCHANGED <<category, filed, forked>>

Restructures(w) == w.op = "update" /\ w.next.version # w.seen.version

\* update_template: a structure makes a version of its own.
LoadUpdate(e, t) ==
    /\ template[t].life = "live" /\ template[t].version < MaxVersion
    /\ \E active \in BOOLEAN, s \in Structures, structural \in BOOLEAN :
          LET row == template[t]
              next == IF structural
                      THEN [row EXCEPT !.active = active, !.structure = s, !.version = @ + 1]
                      ELSE [row EXCEPT !.active = active]
              w == [NoEdit EXCEPT !.op = "update", !.template = t, !.seen = row, !.next = next] IN
          /\ BeginEdit(e, w)
          /\ forked' = IF structural /\ \E d \in Editors : Restructures(edit[d]) /\ edit[d].template = t
                       THEN forked \cup {t} ELSE forked
    /\ UNCHANGED <<category, template, filed>>

CommitUpdate(e) ==
    /\ edit[e].op = "update"
    /\ LET row  == template[edit[e].template]
           seen == edit[e].seen
           next == edit[e].next IN
       template' = [template EXCEPT ![edit[e].template] =
          [row EXCEPT !.active    = Written(row.active, seen.active, next.active),
                      !.version   = Written(row.version, seen.version, next.version),
                      !.structure = Written(row.structure, seen.structure, next.structure)]]
    /\ edit' = [edit EXCEPT ![e] = NoEdit]
    /\ UNCHANGED <<category, filed, forked>>

\* delete_template.
DeleteTemplate(t) ==
    /\ template[t].life = "live"
    /\ template' = [template EXCEPT ![t] = SoftDeleted(@)]
    /\ UNCHANGED <<category, filed, edit, forked>>
-----------------------------------------------------------------------------
(* The submissions.                                                        *)

\* create_submission: of an active template, whatever has become of its category.
LoadSubmission(e, t, p) ==
    /\ template[t].life = "live" /\ template[t].active
    /\ LET filled == Validated(template[t].structure, p) IN
       /\ filled # Refused
       /\ BeginEdit(e, [NoEdit EXCEPT !.op = "submit", !.template = t, !.seen = template[t],
                                 !.filled = filled])
    /\ UNCHANGED <<category, template, filed, forked>>

InsertSubmission(e, s) ==
    /\ edit[e].op = "submit" /\ filed[s] = NotFiled
    /\ filed' = [filed EXCEPT ![s] =
          [life |-> "live", template |-> edit[e].template, version |-> edit[e].seen.version,
           snapshot |-> edit[e].seen.structure, filled |-> edit[e].filled]]
    /\ edit' = [edit EXCEPT ![e] = NoEdit]
    /\ UNCHANGED <<category, template, forked>>

FailEdit(e) ==
    /\ edit[e].op # "idle"
    /\ edit' = [edit EXCEPT ![e] = NoEdit]
    /\ UNCHANGED <<category, template, filed, forked>>

FormsNext ==
    \/ CreateCategory
    \/ UpdateCategory
    \/ DeleteCategory
    \/ \E t \in Templates : DeleteTemplate(t)
    \/ \E e \in Editors : \/ \E t \in Templates : \/ LoadUpdate(e, t) \/ InsertTemplate(e, t)
                                                  \/ \E p \in Payloads : LoadSubmission(e, t, p)
                          \/ LoadCategory(e)
                          \/ CommitUpdate(e)
                          \/ \E s \in Filings : InsertSubmission(e, s)
                          \/ FailEdit(e)

FormsSpec == FormsInit /\ [][FormsNext]_formVars
-----------------------------------------------------------------------------
(* Properties.                                                             *)

Filed == {s \in Filings : filed[s] # NotFiled}

\* What was filed stays valid, value by value, under the form it carries, however the
\* template has been edited since ("so later edits to the template never invalidate
\* historical submissions"), and that form is the one its version number stands for,
\* but for templates of which two structural updates have crossed.
FiledStaysValid ==
    /\ \A s \in Filed : Validated(filed[s].snapshot, filed[s].filled) = filed[s].filled
    /\ \A s, q \in Filed :
          filed[s].template = filed[q].template /\ filed[s].version = filed[q].version
             => filed[s].template \in forked \/ filed[s].snapshot = filed[q].snapshot
=============================================================================
