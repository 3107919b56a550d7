--------------------------------- MODULE Diesel --------------------------------
(***************************************************************************)
(* The diesel history of a site: read_diesel_site_history of               *)
(* services/report.py with the coercions of services/report_support.py and *)
(* utils/funcs.py, over the reports it reads.                              *)
(*                                                                         *)
(* Technicians file what they filled up as they wrote it, and may edit a   *)
(* report that is completed.  Litres and amounts are in thousandths, a     *)
(* running time in minutes.  Left out: that sums of floats are rounded,    *)
(* negative numbers, the texts `nan' and `inf', which float() takes and    *)
(* which spread to every total they enter, the scope of the reader, which  *)
(* refuses him before anything is read, and the descriptions copied from   *)
(* the report.                                                             *)
(***************************************************************************)
EXTENDS Naturals, Sequences, FiniteSetsExt, Functions, UnitOfWork

CONSTANTS Visits,    \* the diesel reports
          Places,    \* the sites
          Fillups,   \* what `diesel_fillups' may hold: sequences of entries
          MaxDay,    \* a bound on the clock
          NoTime     \* no running time

ASSUME DieselAssumption ==
    /\ MaxDay \in Nat /\ NoTime \notin Nat /\ IsFiniteSet(Visits) /\ Places # {}
    /\ <<>> \in Fillups /\ \A fills \in Fillups : IsFiniteSet(DOMAIN fills)

-----------------------------------------------------------------------------
(* What was written.  A number is itself, or a text: groups of digits, a dot   *)
(* or a comma between any two.  The text of a blank, of N/A and of a dash has  *)
(* no group; a currency sign and blanks are stripped.                          *)

AsNumber(n) == [kind |-> "number", n |-> n, groups |-> <<>>, marks |-> <<>>]
AsText(groups, marks) == [kind |-> "text", n |-> 0, groups |-> groups, marks |-> marks]
Group(n, len) == [n |-> n, len |-> len]

Digits(groups) == SumFunction([i \in DOMAIN groups |-> groups[i].len])

\* Digits run together: a group stands for as much as digits follow it.
Joined(groups) ==
    Group(SumFunction([i \in DOMAIN groups |->
                          groups[i].n * 10 ^ Digits(SubSeq(groups, i + 1, Len(groups)))]),
          Digits(groups))

Thousandths(whole, fraction) == whole.n * 1000 + (fraction.n * 1000) \div (10 ^ fraction.len)

Marked(t, mark) == {i \in DOMAIN t.marks : t.marks[i] = mark}

\* Slip: a comma is always taken for a mark of thousands.
PointsNeverComma(t) == Marked(t, ".")

\* A comma is the decimal mark of a text without dots, and is else dropped.
Points(t) == IF Marked(t, ".") = {} THEN Marked(t, ",") ELSE Marked(t, ".")

\* coerce_diesel_number: what cannot be read is nothing.
CoercedNumber(t) ==
    CASE t.kind = "number" -> t.n
      [] t.kind = "text" /\ t.groups # <<>> /\ Cardinality(Points(t)) <= 1 ->
            LET point == IF Points(t) = {} THEN Len(t.groups) ELSE CHOOSE i \in Points(t) : TRUE
            IN  Thousandths(Joined(SubSeq(t.groups, 1, point)),
                            Joined(SubSeq(t.groups, point + 1, Len(t.groups))))
      [] OTHER -> 0

\* coerce_diesel_gen_no: the second generator, or the first for want of a number.
CoercedGenNo(written) == IF written = 2 THEN 2 ELSE 1

\* parse_diesel_runtime_minutes, of hours as a number or a text of hours and minutes.
RuntimeMinutes(t) ==
    CASE t.kind = "hours" /\ t.h * 60 + t.m > 0            -> t.h * 60 + t.m
      [] t.kind = "hm" /\ t.m < 60 /\ t.h * 60 + t.m > 0   -> t.h * 60 + t.m
      [] OTHER -> NoTime
-----------------------------------------------------------------------------
(* The reports.                                                            *)

\* `fills' is the list in the data of the report: of an entry, what was written and,
\* for the properties, what was meant.
VisitRow == [life : Life, place : Places, at : 0 .. MaxDay, done : BOOLEAN, fills : Fillups]

VARIABLES
    visit,  \* the diesel reports, each of the site of its task
    day     \* the clock
dieselVars == <<visit, day>>

DieselTypeOK == visit \in [Visits -> VisitRow] /\ day \in 0 .. MaxDay

NoVisit == [life |-> "unused", place |-> CHOOSE p \in Places : TRUE, at |-> 0, done |-> FALSE, fills |-> <<>>]

DieselInit == visit = [v \in Visits |-> NoVisit] /\ day = 0

\* create_report.
FileVisit(v) ==
    /\ visit[v].life = "unused"
    /\ \E p \in Places, fills \in Fillups :
          visit' = [visit EXCEPT ![v] = [life |-> "live", place |-> p, at |-> day,
                                         done |-> FALSE, fills |-> fills]]
    /\ UNCHANGED day

\* update_report: the data is replaced, of a completed report too, and so is the status.
EditVisit(v) ==
    /\ visit[v].life = "live"
    /\ \E fills \in Fillups, done \in BOOLEAN :
          visit' = [visit EXCEPT ![v].fills = fills, ![v].done = done]
    /\ UNCHANGED day

\* update_task: the visit turns out to be of another site.
MoveVisit(v) ==
    /\ visit[v].life # "unused"
    /\ \E p \in Places : visit' = [visit EXCEPT ![v].place = p]
    /\ UNCHANGED day

\* delete_report.
DeleteVisit(v) ==
    /\ visit[v].life = "live"
    /\ visit' = [visit EXCEPT ![v] = SoftDeleted(@)]
    /\ UNCHANGED day

NextDay == day < MaxDay /\ day' = day + 1 /\ UNCHANGED visit

DieselNext == \/ \E v \in Visits : FileVisit(v) \/ EditVisit(v) \/ MoveVisit(v) \/ DeleteVisit(v)
              \/ NextDay

DieselSpec == DieselInit /\ [][DieselNext]_dieselVars
-----------------------------------------------------------------------------
(* read_diesel_site_history, from the first day to the last.               *)

\* Slip: a report is read before it is completed.
ReadUnfinished(place, from, to) ==
    {v \in Visits : visit[v].life = "live" /\ visit[v].place = place /\ visit[v].at \in from .. to}

ReadVisits(place, from, to) ==
    {v \in Visits : /\ visit[v].life = "live" /\ visit[v].done
                    /\ visit[v].place = place /\ visit[v].at \in from .. to}

EntriesOf(vs) == UNION {{<<v, i>> : i \in DOMAIN visit[v].fills} : v \in vs}

Entry(e) == visit[e[1]].fills[e[2]]

\* The entries of a generator; an entry that is no record is passed over.
Bucket(vs, gen) == {e \in EntriesOf(vs) : Entry(e).record /\ CoercedGenNo(Entry(e).gen) = gen}

Litres(es)   == SumFunction([e \in es |-> CoercedNumber(Entry(e).litres)])
AmountOf(es) == SumFunction([e \in es |-> CoercedNumber(Entry(e).amount)])
Runtimes(es) == {RuntimeMinutes(Entry(e).runtime) : e \in es} \ {NoTime}

\* A generator without entries is left out.
Generators(vs) == {gen \in {1, 2} : Bucket(vs, gen) # {}}

Generator(vs, gen) ==
    LET es == Bucket(vs, gen) IN
    [count |-> Cardinality(es), litres |-> Litres(es), amount |-> AmountOf(es),
     highest |-> IF Runtimes(es) = {} THEN NoTime ELSE Max(Runtimes(es))]

History(place, from, to) ==
    LET vs  == ReadVisits(place, from, to)
        all == UNION {Bucket(vs, gen) : gen \in Generators(vs)}
        at  == {visit[e[1]].at : e \in all} IN
    [gens |-> [gen \in Generators(vs) |-> Generator(vs, gen)],
     count |-> Cardinality(all), litres |-> Litres(all), amount |-> AmountOf(all),
     first |-> IF at = {} THEN NoTime ELSE Min(at), last |-> IF at = {} THEN NoTime ELSE Max(at)]
-----------------------------------------------------------------------------
(* Properties.                                                             *)

\* What was meant by the entries of a report, and by those of a site's reports that stand.
MeantOf(v) == SumFunction([e \in {x \in EntriesOf({v}) : Entry(x).record} |-> Entry(e).meant])

Meant(place, from, to) ==
    SumFunction([v \in {w \in Visits : /\ visit[w].life = "live" /\ visit[w].done /\ visit[w].place = place
                                       /\ from <= visit[w].at /\ visit[w].at <= to} |-> MeantOf(v)])

\* The history of a site counts every fill-up once, as it was meant in whatever notation
\* the field uses, whichever reports were filed, edited, completed and deleted before; its
\* generators add up to it, and so do those of any two periods that make up its own.
HistoryAddsUp ==
    \A place \in {visit[v].place : v \in {w \in Visits : visit[w].life # "unused"}} :
    \A from, to \in 0 .. MaxDay : from <= to =>
       LET h == History(place, from, to) IN
       /\ h.amount = Meant(place, from, to)
       /\ h.litres = SumFunction([gen \in DOMAIN h.gens |-> h.gens[gen].litres])
       /\ h.count  = SumFunction([gen \in DOMAIN h.gens |-> h.gens[gen].count])
       /\ \A cut \in from .. to - 1 :
             LET before == History(place, from, cut)
                 after  == History(place, cut + 1, to) IN
             /\ h.amount = before.amount + after.amount
             /\ h.count = before.count + after.count
             /\ DOMAIN h.gens = DOMAIN before.gens \cup DOMAIN after.gens
             /\ h.first = IF before.count > 0 THEN before.first ELSE after.first
=============================================================================
