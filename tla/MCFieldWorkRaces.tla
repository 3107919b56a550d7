---------------------------- MODULE MCFieldWorkRaces ---------------------------
(* FieldWork for TLC: two requests race on one task. *)
EXTENDS MCFieldWork

VARIABLE part   \* what a behaviour looks at: automatic reports, or the work on one report

\* A bound: requests that want a report of a task are served where two reports may be
\* filed, all of one type, and those that hold the task or complete a report where one
\* is.
OfPart ==
    LET ops == {req[r].op : r \in Requests} \ {Null}
        filed == {p \in Reports : report[p].life # "unused"} IN
    /\ part = "auto" => ops \subseteq AutoReportOps /\ \A p \in filed : report[p].type \in OneType
    /\ part = "work" => ops \subseteq MixedOps /\ \A p, q \in filed : p = q

MCInit == Init /\ part \in {"auto", "work"}
MCNext == Next /\ UNCHANGED part /\ OfPart'
MCSpec == MCInit /\ [][MCNext]_<<vars, part>>
==============================================================================
