--------------------------------- MODULE Roster ---------------------------------
(***************************************************************************)
(* What the presence service promises of the operators who are online,     *)
(* whatever it keeps them in: an operator is listed from a heartbeat until *)
(* he leaves or has been silent for longer than the window.                *)
(***************************************************************************)
EXTENDS Naturals

CONSTANTS Operators, Window, Never

VARIABLES
    now,      \* the time
    beat,     \* of an operator, the time of his last heartbeat, or Never
    doubted,  \* the operators nothing is promised about
    online    \* the operators who are listed
rosterVars == <<now, beat, doubted, online>>

Recent(t) == t # Never /\ now <= t + Window

Promised == {o \in Operators \ doubted : Recent(beat[o])}

RosterInit ==
    /\ now = 0 /\ beat = [o \in Operators |-> Never]
    /\ doubted = {} /\ online = {}

\* A heartbeat counts from the moment it arrived, which is now or a while ago.
Beat(o) == (\E t \in 0 .. now : beat' = [beat EXCEPT ![o] = t]) /\ UNCHANGED <<now, doubted>>

Leave(o) == beat' = [beat EXCEPT ![o] = Never] /\ UNCHANGED <<now, doubted>>

Pass == now' = now + 1 /\ UNCHANGED <<beat, doubted>>

Doubt(o) == doubted' = doubted \cup {o} /\ UNCHANGED <<now, beat>>

\* Nothing is left of what was in doubt.
Settle(o) == doubted' = doubted \ {o} /\ beat' = [beat EXCEPT ![o] = Never] /\ UNCHANGED now

RosterNext ==
    /\ \/ \E o \in Operators : Beat(o) \/ Leave(o) \/ Doubt(o) \/ Settle(o)
       \/ Pass
    /\ online' = Promised'

RosterSpec == RosterInit /\ [][RosterNext]_rosterVars
=============================================================================
