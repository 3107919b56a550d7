-------------------------------- MODULE Settings --------------------------------
(***************************************************************************)
(* The settings an administrator changes and the copy of them the debug    *)
(* middleware serves requests from: services/system_settings.py,           *)
(* api/v1/system_settings.py and core/debug_middleware.py.                 *)
(*                                                                         *)
(* The middleware looks the settings up in a thread pool.  It keeps its    *)
(* copy in two attributes, each of the class until the instance has one of *)
(* its own.  The four debug settings are one here, with the number of its  *)
(* changes as its value.  Left out: the cache of the service, which nobody *)
(* ever declares loaded, the level of the log, and a lookup that finds no  *)
(* engine: main.py connects before the first request is served, or does    *)
(* not start, and disconnects after the last.                              *)
(***************************************************************************)
EXTENDS Naturals

CONSTANTS Lookups,      \* the threads that look settings up
          Admins,       \* the requests that change them
          Ttl,          \* _cache_ttl
          MaxNow,       \* a bound on the time
          MaxChanges,   \* a bound on the changes
          Default,      \* the values of the environment
          Unset         \* no value

ASSUME SettingsAssumption ==
    /\ Ttl \in Nat \ {0} /\ MaxNow \in Nat \ {0} /\ MaxChanges \in Nat
    /\ Default \notin Nat /\ Unset \notin Nat /\ Default # Unset

Value == 0 .. MaxChanges \cup {Default}

\* `made' is whether the instance has the attribute.
CopiedValue == [made : BOOLEAN, value : Value \cup {Unset}]
CopiedTime  == [made : BOOLEAN, at : 0 .. MaxNow]

\* `alone' is whether no other lookup was under way since it began.
Lookup == [pc : {"idle", "reading", "store", "stamp", "late", "default"},
           at : 0 .. MaxNow, value : Value, alone : BOOLEAN]

NoLookup == [pc |-> "idle", at |-> 0, value |-> Default, alone |-> FALSE]

VARIABLES
    clock,       \* the time
    setting,     \* the row of the table system_settings
    replaced,    \* when a value of it was replaced by the next
    copied,      \* _settings_cache
    copiedAt,    \* _last_cache_update
    available,   \* _db_available
    lookup,      \* the lookups under way
    admin,       \* what the requests that change the setting do next
    announced,   \* the last value whose change was committed and then announced
    mixed        \* whether lookups that overlapped have made the copy
settingsVars == <<clock, setting, replaced, copied, copiedAt, available, lookup, admin, announced, mixed>>

SettingsTypeOK ==
    /\ clock \in 1 .. MaxNow
    /\ setting \in 0 .. MaxChanges /\ replaced \in [0 .. MaxChanges -> 0 .. MaxNow]
    /\ copied \in CopiedValue /\ copiedAt \in CopiedTime /\ available \in BOOLEAN
    /\ lookup \in [Lookups -> Lookup]
    /\ admin \in [Admins -> {"idle", "update", "announce", "bulk", "commit"}]
    /\ announced \in 0 .. MaxChanges /\ mixed \in BOOLEAN

SettingsInit ==
    /\ clock = 1 /\ setting = 0 /\ replaced = [v \in 0 .. MaxChanges |-> 0]
    /\ copied = [made |-> FALSE, value |-> Unset] /\ copiedAt = [made |-> FALSE, at |-> 0]
    /\ available = FALSE /\ mixed = FALSE /\ announced = 0
    /\ lookup = [l \in Lookups |-> NoLookup] /\ admin = [a \in Admins |-> "idle"]

\* A copy that is served without a lookup.
Served == copied.value # Unset /\ clock < copiedAt.at + Ttl
-----------------------------------------------------------------------------
(* _get_debug_settings, where it does not serve the copy or the defaults.  *)

Busy == {l \in Lookups : lookup[l].pc # "idle"}

\* The time is taken first.
StartLookup(l) ==
    /\ lookup[l].pc = "idle" /\ ~ Served
    /\ available \/ copiedAt.at = 0
    /\ lookup' = [k \in Lookups |->
                     IF k = l THEN [NoLookup EXCEPT !.pc = "reading", !.at = clock, !.alone = (Busy = {})]
                     ELSE [lookup[k] EXCEPT !.alone = FALSE]]
    /\ UNCHANGED <<clock, setting, replaced, copied, copiedAt, available, admin, announced, mixed>>

ReadSetting(l) ==
    /\ lookup[l].pc = "reading"
    /\ lookup' = [lookup EXCEPT ![l].pc = "store", ![l].value = setting]
    /\ UNCHANGED <<clock, setting, replaced, copied, copiedAt, available, admin, announced, mixed>>

StoreValue(l) ==
    /\ lookup[l].pc = "store"
    /\ copied' = [made |-> TRUE, value |-> lookup[l].value]
    /\ lookup' = [lookup EXCEPT ![l].pc = "stamp"]
    /\ mixed' = (mixed \/ ~ lookup[l].alone)
    /\ UNCHANGED <<clock, setting, replaced, copiedAt, available, admin, announced>>

\* Slip: the copy is as old as its storing.
StoredAt(l) == clock

\* The copy is as old as the lookup.
LookedUpAt(l) == lookup[l].at

StampCopy(l) ==
    /\ lookup[l].pc = "stamp"
    /\ copiedAt' = [made |-> TRUE, at |-> LookedUpAt(l)] /\ available' = TRUE
    /\ mixed' = ~ lookup[l].alone
    /\ lookup' = [lookup EXCEPT ![l] = NoLookup]
    /\ UNCHANGED <<clock, setting, replaced, copied, admin, announced>>

\* The database fails: from now on the defaults are served, and no lookup is begun.
FailLookup(l) ==
    /\ lookup[l].pc = "reading"
    /\ available' = FALSE
    /\ lookup' = [lookup EXCEPT ![l].pc = "late"]
    /\ UNCHANGED <<clock, setting, replaced, copied, copiedAt, admin, announced, mixed>>

StampDefaults(l) ==
    /\ lookup[l].pc = "late"
    /\ copiedAt' = [made |-> TRUE, at |-> lookup[l].at]
    /\ lookup' = [lookup EXCEPT ![l].pc = "default"]
    /\ UNCHANGED <<clock, setting, replaced, copied, available, admin, announced, mixed>>

StoreDefaults(l) ==
    /\ lookup[l].pc = "default"
    /\ copied' = [made |-> TRUE, value |-> Default]
    /\ lookup' = [lookup EXCEPT ![l] = NoLookup]
    /\ UNCHANGED <<clock, setting, replaced, copiedAt, available, admin, announced, mixed>>
-----------------------------------------------------------------------------
(* Changing the setting.                                                   *)

StartChange(a) ==
    /\ admin[a] = "idle"
    /\ admin' \in {[admin EXCEPT ![a] = "update"], [admin EXCEPT ![a] = "bulk"]}
    /\ UNCHANGED <<clock, setting, replaced, copied, copiedAt, available, lookup, announced, mixed>>

\* invalidate_debug_cache assigns to the attributes of the class, which an instance
\* that has its own does not read.
Invalidated(copy, empty) == IF copy.made THEN copy ELSE empty

AnnounceChange ==
    /\ copied' = Invalidated(copied, [made |-> FALSE, value |-> Unset])
    /\ copiedAt' = Invalidated(copiedAt, [made |-> FALSE, at |-> 0])

\* update_setting, of one setting or of each that a switch of the debug mode sets, and
\* bulk_update_settings, which announces before it commits.
CommitSetting(a) ==
    /\ admin[a] \in {"update", "commit"} /\ setting < MaxChanges
    /\ setting' = setting + 1 /\ replaced' = [replaced EXCEPT ![setting] = clock]
    /\ admin' = [admin EXCEPT ![a] = IF @ = "update" THEN "announce" ELSE "idle"]
    /\ UNCHANGED <<clock, copied, copiedAt, available, lookup, announced, mixed>>

AnnounceSetting(a) ==
    /\ admin[a] \in {"announce", "bulk"}
    /\ AnnounceChange
    /\ admin' = [admin EXCEPT ![a] = IF @ = "bulk" THEN "commit" ELSE "idle"]
    /\ announced' = IF admin[a] = "announce" THEN setting ELSE announced
    /\ UNCHANGED <<clock, setting, replaced, available, lookup, mixed>>

FailChange(a) ==
    /\ admin[a] \in {"update", "bulk", "commit"}
    /\ admin' = [admin EXCEPT ![a] = "idle"]
    /\ UNCHANGED <<clock, setting, replaced, copied, copiedAt, available, lookup, announced, mixed>>

PassSeconds ==
    /\ clock < MaxNow /\ clock' = clock + 1
    /\ UNCHANGED <<setting, replaced, copied, copiedAt, available, lookup, admin, announced, mixed>>

SettingsNext ==
    \/ \E l \in Lookups : \/ StartLookup(l)
                          \/ ReadSetting(l)
                          \/ StoreValue(l)
                          \/ StampCopy(l)
                          \/ FailLookup(l)
                          \/ StampDefaults(l)
                          \/ StoreDefaults(l)
    \/ \E a \in Admins : \/ StartChange(a)
                         \/ CommitSetting(a)
                         \/ AnnounceSetting(a)
                         \/ FailChange(a)
    \/ PassSeconds

SettingsSpec == SettingsInit /\ [][SettingsNext]_settingsVars
-----------------------------------------------------------------------------
(* Properties.                                                             *)

\* What a request is served from the copy was the setting at some time within the last
\* Ttl, however long the lookup took and whatever was committed meanwhile; but for a
\* copy that overlapping lookups have made, and one that a failed lookup has stamped.
ServedFresh ==
    Served /\ available /\ ~ mixed /\ copied.value # setting
        => clock < replaced[copied.value] + Ttl

\* Once a change is committed and announced, the copy is not served with an older value
\* ("Invalidate the debug settings cache (call when settings change)").
AnnouncedIsServed ==
    Served /\ available /\ ~ mixed /\ Busy = {} => copied.value >= announced
=============================================================================
