------------------------------ MODULE MCIncidents ------------------------------
(* The instance of Incidents that TLC checks. *)
EXTENDS Incidents, TLC

VARIABLE part   \* what a behaviour looks at: an incident with its notices, or its reports

\* A bound: milestones are stamped, and notices delivered or lost, where nobody files
\* a report; in the other behaviours a notice is queued at once and stays there.
OfPart ==
    /\ part = "notices" => \A r \in Requests : work'[r].pc # "reporting"
    /\ part = "reports" => /\ \A r \in Requests : work'[r].op \notin Milestones
                           /\ \A r \in Requests : work[r].pc = "notify" => work'[r].pc = "idle"
                           /\ \A n \in Notice : told'[n] # "lost"
                           /\ UNCHANGED busy

MCInit == Init /\ part \in {"notices", "reports"}
MCNext == Next /\ UNCHANGED part /\ OfPart
MCSpec == MCInit /\ [][MCNext]_<<vars, part>>

\* Requests, reports and photographs are interchangeable.
Symmetry == Permutations(Requests) \cup Permutations(Reports) \cup Permutations(Photos)
=============================================================================
