------------------------------ MODULE MCSchedules ------------------------------
(* Schedules for TLC: a site, its technicians, and instances that share a job. *)
EXTENDS Schedules, TLC

\* What the requests of a run call.
CoverageOps == {"list", "create_schedule", "delete_schedule", "update_site",
                "create_coverage", "cancel_coverage", "field_work", "patrol"}
CheckOps    == {"set_sites", "check_weekly", "update_schedule", "mark_done"}
TickOps     == {"create_schedule"}

Symmetry == Permutations(Technicians) \cup Permutations(CoverageIds) \cup Permutations(Requests)
=============================================================================
