--------------------------------- MODULE MCSla ---------------------------------
(* The instance of Sla that TLC checks, and the calendar for raise times of a *)
(* fortnight.                                                                 *)
EXTENDS Sla

VARIABLE raised   \* the time whose deadlines are computed, or None in a run of Sla

\* Minutes from Monday 10:00: a critical fault raised then is to be reached on site by
\* 12:00 and restored by 14:00, a minor one by Tuesday 08:00 and by Wednesday 16:30.  At
\* 12:00 the first deadline is there, on Wednesday 16:10 three are past and the last near.
Clock == {600, 720, 3850}

\* The half hours of a fortnight, which hold the limits of the business hours, and the
\* minutes before them.
Fortnight == {30 * k : k \in 0 .. 14 * 48} \cup {30 * k - 1 : k \in 1 .. 14 * 48}

\* A bound: at 12:00 an incident may be stamped, and is neither concluded nor reclassified.
InBetween ==
    clock = 720 => \A i \in Incidents : [incident'[i] EXCEPT !.stamps = incident[i].stamps] = incident[i]

MCInit == Init /\ raised \in Fortnight \cup {None}
MCNext == raised = None /\ Next /\ UNCHANGED raised /\ InBetween

MCSpec == MCInit /\ [][MCNext]_<<vars, raised>> /\ Fairness

\* What the agreement says of a fault is what the code makes of it: its deadline, and a
\* penalty only for what is shown as breached.
AgreementKept == (raised # None => DeadlineByCalendar(raised)) /\ PenaltyMeansBreached
=============================================================================
