------------------------------- MODULE HostedSite ------------------------------
(***************************************************************************)
(* The routine sheet of a hosted site: the schema of models/report_data.py *)
(* and the progress and gaps of services/report_support.py, which clients  *)
(* show while a technician fills the sheet in.                             *)
(*                                                                         *)
(* A client saves the whole sheet after each section.  A text is TRUE when *)
(* something other than blanks is in it, a photograph when it is there.    *)
(* Left out: the answers of a cabinet that no rule reads, the labels and   *)
(* hints, and the remarks.                                                 *)
(***************************************************************************)
EXTENDS Naturals, Sequences, FiniteSets

CONSTANTS HeaderFields,  \* the texts of the header that are required
          CheckKeys,     \* the questions of the site checklist
          Blocks,        \* the power blocks that have readings
          MaxCabinets, MaxExtras   \* bounds on the two lists

ASSUME HostedSiteAssumption == MaxCabinets \in Nat /\ MaxExtras \in Nat

Answers3 == {"yes", "no", "n/a"}

\* SITE_CHECK_LABELS: `yes' is good but of combustible material.
BadWhen(key) == IF key = "combustibles" THEN "yes" ELSE "no"

\* HOSTED_SITE_SECTIONS.
RequiredSections == {"details", "site_checks", "power_readings", "cabinets"}
Sections == RequiredSections \cup {"extra_sections", "other_issues"}

SiteCheckItem == [status : Answers3, issue : BOOLEAN]
PowerBlock == [status : Answers3, filled : BOOLEAN]
ExtraSection == [label : BOOLEAN, photos : BOOLEAN]

\* The order of a cabinet is its place in the list: the schema has them numbered from 1.
CabinetInspection ==
    [location : BOOLEAN, alarms : {"yes", "no"}, note : BOOLEAN, pdu : BOOLEAN, front : BOOLEAN]

\* _alarm_note_required_when_visual_alarms_yes.
ValidCabinet(c) == c.alarms = "yes" => c.note

ListsUpTo(S, n) == UNION {[1 .. k -> S] : k \in 0 .. n}

VARIABLE sheet   \* the data of the report: HostedSiteRoutineData
hostedVars == <<sheet>>

HostedTypeOK ==
    /\ sheet.header \subseteq HeaderFields
    /\ DOMAIN sheet.checks \subseteq CheckKeys
    /\ \A key \in DOMAIN sheet.checks : sheet.checks[key] \in SiteCheckItem
    /\ sheet.power \in [Blocks -> PowerBlock]
    /\ \A i \in DOMAIN sheet.cabinets : sheet.cabinets[i] \in {c \in CabinetInspection : ValidCabinet(c)}
    /\ \A i \in DOMAIN sheet.extras : sheet.extras[i] \in ExtraSection

BlankSheet ==
    [header |-> {}, checks |-> [key \in {} |-> 0],
     power |-> [b \in Blocks |-> [status |-> "no", filled |-> FALSE]],
     cabinets |-> <<>>, extras |-> <<>>]

HostedInit == sheet = BlankSheet
-----------------------------------------------------------------------------
(* Saving a section.                                                       *)

SaveDetails == \E fields \in SUBSET HeaderFields : sheet' = [sheet EXCEPT !.header = fields]

SaveCheck(key) ==
    \E item \in SiteCheckItem :
       sheet' = [sheet EXCEPT !.checks = [k \in DOMAIN @ \cup {key} |-> IF k = key THEN item ELSE @[k]]]

SavePower(b) == \E block \in PowerBlock : sheet' = [sheet EXCEPT !.power[b] = block]

\* A cabinet is added at the end, changed, or the last one removed.
SaveCabinets ==
    LET n == Len(sheet.cabinets) IN
    \/ \E c \in CabinetInspection, i \in 1 .. n + 1 :
          /\ ValidCabinet(c) /\ i <= MaxCabinets
          /\ sheet' = [sheet EXCEPT !.cabinets = [j \in 1 .. (IF i > n THEN i ELSE n) |-> IF j = i THEN c ELSE @[j]]]
    \/ n > 0 /\ sheet' = [sheet EXCEPT !.cabinets = SubSeq(@, 1, n - 1)]

SaveExtras == \E extras \in ListsUpTo(ExtraSection, MaxExtras) : sheet' = [sheet EXCEPT !.extras = extras]

HostedNext == \/ SaveDetails
              \/ \E key \in CheckKeys : SaveCheck(key)
              \/ \E b \in Blocks : SavePower(b)
              \/ SaveCabinets
              \/ SaveExtras

HostedSpec == HostedInit /\ [][HostedNext]_hostedVars
-----------------------------------------------------------------------------
(* Progress: is_hosted_site_section_complete.                              *)

CheckDone(key) ==
    key \in DOMAIN sheet.checks /\ (sheet.checks[key].status = BadWhen(key) => sheet.checks[key].issue)

PowerBlockDone(block) == block.status = "yes" => block.filled

\* is_cabinet_complete.
CabinetDone(c) == c.location /\ (c.alarms = "yes" => c.note) /\ c.pdu /\ c.front

Complete(section) ==
    CASE section = "details"        -> sheet.header = HeaderFields
      [] section = "site_checks"    -> \A key \in CheckKeys : CheckDone(key)
      [] section = "power_readings" -> \A b \in Blocks : PowerBlockDone(sheet.power[b])
      [] section = "cabinets"       -> /\ Len(sheet.cabinets) > 0
                                       /\ \A i \in DOMAIN sheet.cabinets : CabinetDone(sheet.cabinets[i])
      [] section = "extra_sections" -> \A i \in DOMAIN sheet.extras :
                                          sheet.extras[i].label /\ sheet.extras[i].photos
      [] section = "other_issues"   -> TRUE

\* completed_hosted_site_section_count.
CompletedCount == Cardinality({s \in RequiredSections : Complete(s)})
-----------------------------------------------------------------------------
(* Gaps: hosted_site_missing_fields, the fields it lists of a section.     *)

MissingChecks ==
    {<<key, "status">> : key \in CheckKeys \ DOMAIN sheet.checks}
      \cup {<<key, "issue">> : key \in {k \in DOMAIN sheet.checks :
                                          sheet.checks[k].status = BadWhen(k) /\ ~ sheet.checks[k].issue}}

\* Slip: the front of a cabinet is not asked for.
LacksBarFront(c) ==
    {f \in {"location", "alarm_note", "pdu_photo"} :
        CASE f = "location" -> ~ c.location
          [] f = "alarm_note" -> c.alarms = "yes" /\ ~ c.note
          [] f = "pdu_photo" -> ~ c.pdu}

Lacks(c) ==
    {f \in {"location", "alarm_note", "pdu_photo", "cabinet_photo"} :
        CASE f = "location"      -> ~ c.location
          [] f = "alarm_note"    -> c.alarms = "yes" /\ ~ c.note
          [] f = "pdu_photo"     -> ~ c.pdu
          [] f = "cabinet_photo" -> ~ c.front}

MissingInCabinets ==
    IF sheet.cabinets = <<>> THEN {<<0, "empty">>}
    ELSE UNION {{<<i, f>> : f \in Lacks(sheet.cabinets[i])} : i \in DOMAIN sheet.cabinets}

Missing(section) ==
    CASE section = "details"        -> HeaderFields \ sheet.header
      [] section = "site_checks"    -> MissingChecks
      [] section = "power_readings" -> {b \in Blocks : sheet.power[b].status = "yes" /\ ~ sheet.power[b].filled}
      [] section = "cabinets"       -> MissingInCabinets
      [] section = "extra_sections" -> {i \in DOMAIN sheet.extras : ~ (sheet.extras[i].label /\ sheet.extras[i].photos)}
      [] section = "other_issues"   -> {}
-----------------------------------------------------------------------------
(* Properties.                                                             *)

\* The progress of a sheet and the list of what it lacks, computed apart and twice more
\* by the clients, agree on every section and on how many are done: a divergence "means
\* the three clients disagree on progress for the same report".
ProgressMatchesGaps ==
    /\ \A s \in Sections : Complete(s) <=> Missing(s) = {}
    /\ CompletedCount = Cardinality({s \in RequiredSections : Missing(s) = {}})
=============================================================================
