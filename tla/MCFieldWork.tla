------------------------------ MODULE MCFieldWork ------------------------------
(* FieldWork for TLC. *)
EXTENDS FieldWork, TLC

\* A type of FIELD_REPORT_SCHEDULE_TYPES, and with it one that is not there.
OneType   == {"diesel"}
BothTypes == {"diesel", "pop"}

\* What the requests of a run call.
AutoReportOps == {"start_task", "complete_task", "delete_report"}
ReportWorkOps == ReportOps
MixedOps == {"complete_report", "delete_report", "start_task", "hold_task", "resume_task"}
AllOps == TaskOps \cup ReportOps

Symmetry == Permutations(Reports) \cup Permutations(Requests) \cup Permutations(Technicians)
=============================================================================
