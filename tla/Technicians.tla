------------------------------ MODULE Technicians ------------------------------
(***************************************************************************)
(* Users with the role of a technician and their profiles:                 *)
(* services/user.py, services/technician.py, models/user.py,               *)
(* models/technician.py and the indexes database/database.py creates.      *)
(*                                                                         *)
(* A user and his profile are soft-deleted; a profile is restored for a    *)
(* user who is registered again.  An identity stands for the phone and the *)
(* identity number, each unique among live profiles.  Left out: names,     *)
(* positions, homes and availability, which no rule reads, and the sites   *)
(* assigned to a technician.                                               *)
(***************************************************************************)
EXTENDS Naturals, UnitOfWork

CONSTANTS Users, Profiles, Identities,
          Clerks,   \* the requests
          Nobody

ASSUME TechniciansAssumption == Nobody \notin Users \cup Profiles \cup Identities

\* `technician' is the role: it is that of a technician or another.
UserRow == [life : Life, technician : BOOLEAN, active : BOOLEAN]

ProfileRow == [life : Life, user : Users \cup {Nobody}, identity : Identities \cup {Nobody}]

NoUser    == [life |-> "unused", technician |-> FALSE, active |-> FALSE]
NoProfile == [life |-> "unused", user |-> Nobody, identity |-> Nobody]

\* A request on a user, a profile or both: what it read of each and what it assigned.
\* A new profile has no row yet.
Clerk == [op : {"idle", "user", "profile", "both", "insert"},
          user : Users \cup {Nobody}, userSeen : UserRow, userNext : UserRow,
          profile : Profiles \cup {Nobody}, profileSeen : ProfileRow, profileNext : ProfileRow]

Idle == [op |-> "idle", user |-> Nobody, userSeen |-> NoUser, userNext |-> NoUser,
         profile |-> Nobody, profileSeen |-> NoProfile, profileNext |-> NoProfile]

VARIABLES
    user,      \* the table users
    profile,   \* the table technicians
    clerk,     \* the requests being served
    unset,     \* the users whose status is the one create_user gave them
    contested  \* the users and profiles two requests have held at the same time
technicianVars == <<user, profile, clerk, unset, contested>>

TechniciansTypeOK ==
    /\ user \in [Users -> UserRow] /\ profile \in [Profiles -> ProfileRow]
    /\ clerk \in [Clerks -> Clerk]
    /\ unset \subseteq Users /\ contested \subseteq Users \cup Profiles

TechniciansInit ==
    /\ user = [u \in Users |-> NoUser] /\ profile = [p \in Profiles |-> NoProfile]
    /\ clerk = [c \in Clerks |-> Idle]
    /\ unset = {} /\ contested = {}

Held(w) == {w.user, w.profile} \ {Nobody}

ProfilesOf(u) == {p \in Profiles : profile[p].life = "live" /\ profile[p].user = u}

\* Two live profiles of one identity are refused by uq_active_technicians_*.
Clashes(p, row) ==
    \E q \in Profiles \ {p} : profile[q].life = "live" /\ profile[q].identity = row.identity
-----------------------------------------------------------------------------
(* Loading.                                                                *)

\* create_user, which asks for no profile.
CreateUser(u) ==
    /\ user[u].life = "unused"
    /\ \E technician \in BOOLEAN :
          user' = [user EXCEPT ![u] = [life |-> "live", technician |-> technician, active |-> TRUE]]
    /\ unset' = unset \cup {u}
    /\ UNCHANGED <<profile, clerk, contested>>

Begin(c, w) ==
    /\ clerk[c] = Idle
    /\ clerk' = [clerk EXCEPT ![c] = w]
    /\ contested' = contested \cup
                    UNION {Held(w) \cup Held(clerk[d]) : d \in {d \in Clerks : Held(w) \cap Held(clerk[d]) # {}}}
    /\ UNCHANGED <<user, profile, unset>>

OnUser(u, next) == [Idle EXCEPT !.op = "user", !.user = u, !.userSeen = user[u], !.userNext = next]

OnBoth(u, unext, p, pnext) ==
    [Idle EXCEPT !.op = "both", !.user = u, !.userSeen = user[u], !.userNext = unext,
                 !.profile = p, !.profileSeen = profile[p], !.profileNext = pnext]

\* Slip: a profile that was never deleted is restored too.
RestorableLiveToo(u, identity) ==
    LET own == {p \in Profiles : profile[p].life # "unused" /\ profile[p].user = u} IN
    IF own # {} THEN own
    ELSE {p \in Profiles : /\ profile[p].life # "unused" /\ profile[p].identity = identity
                           /\ user[profile[p].user].life = "deleted"}

\* The deleted profiles a creation may restore, the best scores: those of the user,
\* and else those of deleted users with the same identity.
Restorable(u, identity) ==
    LET own == {p \in Profiles : profile[p].life = "deleted" /\ profile[p].user = u} IN
    IF own # {} THEN own
    ELSE {p \in Profiles : /\ profile[p].life = "deleted" /\ profile[p].identity = identity
                           /\ user[profile[p].user].life = "deleted"}

Activated(row) == [row EXCEPT !.active = TRUE]

\* create_technician, of a user of any role.
LoadCreate(c, u) ==
    /\ user[u].life = "live"
    /\ \E identity \in Identities :
          LET row == [life |-> "live", user |-> u, identity |-> identity] IN
          \/ \E p \in Restorable(u, identity) : Begin(c, OnBoth(u, Activated(user[u]), p, row))
          \/ /\ Restorable(u, identity) = {}
             /\ Begin(c, [OnUser(u, Activated(user[u])) EXCEPT !.op = "insert", !.profileNext = row])

\* delete_technician disables the profile's user, deleted or not.
LoadDeleteTechnician(c, p) ==
    /\ profile[p].life = "live"
    /\ LET u == profile[p].user IN
       Begin(c, OnBoth(u, [user[u] EXCEPT !.active = FALSE], p, SoftDeleted(profile[p])))

\* update_technician.
LoadUpdateTechnician(c, p) ==
    /\ profile[p].life = "live"
    /\ \E identity \in Identities :
          Begin(c, [Idle EXCEPT !.op = "profile", !.profile = p, !.profileSeen = profile[p],
                                !.profileNext = [profile[p] EXCEPT !.identity = identity]])

\* delete_user takes one profile of a technician with it.
LoadDeleteUser(c, u) ==
    /\ user[u].life = "live"
    /\ \/ \E p \in ProfilesOf(u) :
             user[u].technician /\ Begin(c, OnBoth(u, SoftDeleted(user[u]), p, SoftDeleted(profile[p])))
       \/ /\ user[u].technician => ProfilesOf(u) = {}
          /\ Begin(c, OnUser(u, SoftDeleted(user[u])))

\* Slip: the profile is not asked for.
ActivableAnyway(u) == user[u].life = "live"

\* activate_user: a technician needs a live profile.
Activable(u) == user[u].life = "live" /\ (user[u].technician => ProfilesOf(u) # {})

LoadActivate(c, u) == Activable(u) /\ Begin(c, OnUser(u, Activated(user[u])))

LoadDeactivate(c, u) ==
    user[u].life = "live" /\ Begin(c, OnUser(u, [user[u] EXCEPT !.active = FALSE]))

\* set_user_role: who becomes a technician without a profile is disabled.
LoadSetRole(c, u) ==
    /\ user[u].life = "live"
    /\ \E technician \in BOOLEAN :
          Begin(c, OnUser(u, [user[u] EXCEPT
             !.technician = technician,
             !.active = @ /\ ~ (technician /\ ~ user[u].technician /\ ProfilesOf(u) = {})]))
-----------------------------------------------------------------------------
(* Committing: the columns that were assigned another value than was read. *)

UserFlushed(now, seen, next) ==
    [life       |-> Written(now.life, seen.life, next.life),
     technician |-> Written(now.technician, seen.technician, next.technician),
     active     |-> Written(now.active, seen.active, next.active)]

ProfileFlushed(now, seen, next) ==
    [life     |-> Written(now.life, seen.life, next.life),
     user     |-> Written(now.user, seen.user, next.user),
     identity |-> Written(now.identity, seen.identity, next.identity)]

FlushUser(w) ==
    user' = IF w.user = Nobody THEN user
            ELSE [user EXCEPT ![w.user] = UserFlushed(@, w.userSeen, w.userNext)]

\* Of a refused commit nothing is kept, the user's status included.
CommitClerk(c) ==
    /\ clerk[c].op \in {"user", "profile", "both"}
    /\ LET w    == clerk[c]
           next == ProfileFlushed(profile[w.profile], w.profileSeen, w.profileNext) IN
       IF w.op # "user" /\ next.life = "live" /\ Clashes(w.profile, next)
       THEN UNCHANGED <<user, profile, unset>>
       ELSE /\ FlushUser(w)
            /\ profile' = IF w.op # "user" THEN [profile EXCEPT ![w.profile] = next] ELSE profile
            /\ unset' = unset \ {u \in Users : user'[u] # user[u]}
    /\ clerk' = [clerk EXCEPT ![c] = Idle]
    /\ UNCHANGED contested

InsertProfile(c, p) ==
    /\ clerk[c].op = "insert" /\ profile[p].life = "unused"
    /\ LET w == clerk[c] IN
       IF Clashes(p, w.profileNext)
       THEN UNCHANGED <<user, profile>>
       ELSE FlushUser(w) /\ profile' = [profile EXCEPT ![p] = w.profileNext]
    /\ clerk' = [clerk EXCEPT ![c] = Idle]
    /\ UNCHANGED <<unset, contested>>

FailClerk(c) ==
    /\ clerk[c] # Idle
    /\ clerk' = [clerk EXCEPT ![c] = Idle]
    /\ UNCHANGED <<user, profile, unset, contested>>

TechniciansNext ==
    \/ \E u \in Users : CreateUser(u)
    \/ \E c \in Clerks :
          \/ \E u \in Users : \/ LoadCreate(c, u)
                              \/ LoadDeleteUser(c, u)
                              \/ LoadActivate(c, u)
                              \/ LoadDeactivate(c, u)
                              \/ LoadSetRole(c, u)
          \/ \E p \in Profiles : \/ LoadDeleteTechnician(c, p)
                                 \/ LoadUpdateTechnician(c, p)
                                 \/ InsertProfile(c, p)
          \/ CommitClerk(c)
          \/ FailClerk(c)

TechniciansSpec == TechniciansInit /\ [][TechniciansNext]_technicianVars
-----------------------------------------------------------------------------
(* Properties.                                                             *)

\* An active technician has a profile to work under, or is as create_user left him,
\* through all restorations, deletions, role changes and activations ("Cannot activate
\* a technician user without an active technician profile"), unless two requests have
\* held him, or a profile together with him, at the same time.
TechnicianProfiled ==
    \A u \in Users \ (contested \cup unset) :
       user[u].life = "live" /\ user[u].technician /\ user[u].active => ProfilesOf(u) # {}

\* A live profile, and the work it is credited with, is never taken from its user and
\* given to another, unless two requests have held it at the same time.
ProfileKept ==
    [][\A p \in Profiles \ contested :
          profile[p].life = "live" /\ profile'[p].life = "live"
             => profile'[p].user = profile[p].user]_technicianVars
=============================================================================
