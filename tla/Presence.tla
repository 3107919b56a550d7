-------------------------------- MODULE Presence --------------------------------
(***************************************************************************)
(* Who is online: services/presence.py, api/v1/presence.py and             *)
(* models/user_session.py.  A call is served by Redis, a command at a      *)
(* time, or by the table user_sessions: because Redis is not configured or *)
(* out of reach, or since a command of this very call has failed.          *)
(*                                                                         *)
(* The operators have the one role that is listed.  Left out: what a       *)
(* caller may say of a session's id and expiry, which no endpoint does,    *)
(* and the events published for nobody.                                    *)
(***************************************************************************)
EXTENDS Naturals, FiniteSets

CONSTANTS Operators, Callers,
          Tabs,      \* the session ids
          Window,    \* how long an operator is listed after a heartbeat
          MaxTime,   \* a bound on the time
          Never

ASSUME PresenceAssumption ==
    /\ Window \in Nat /\ MaxTime \in Nat /\ IsFiniteSet(Callers)
    /\ Never \notin Nat \cup Operators \cup Tabs

Time == 0 .. MaxTime

\* The sorted set keeps an id with the time of its heartbeat for ever, and the hash
\* beside it the operator, until that expires if `expires' says that it does.
RedisEntry == [score : Time \cup {Never}, hash : Operators \cup {Never}, expires : BOOLEAN]

NoEntry == [score |-> Never, hash |-> Never, expires |-> FALSE]

SessionRow == [operator : Operators \cup {Never}, active : BOOLEAN, seen : Time]

\* A call of an operator, made `at' a time: the id it is at, those it has yet to deal
\* with and the scores it read of them, and whether the row it read was active.
Call == [pc : {"idle", "redis", "hset", "zadd", "expire", "zrem", "del", "db", "commit"},
         op : {"beat", "leave"}, operator : Operators \cup {Never}, at : Time,
         tab : Tabs \cup {Never}, tabs : SUBSET Tabs, scores : [Tabs -> Time \cup {Never}],
         active : BOOLEAN]

NoCall == [pc |-> "idle", op |-> "beat", operator |-> Never, at |-> 0,
           tab |-> Never, tabs |-> {}, scores |-> [t \in Tabs |-> Never], active |-> FALSE]

VARIABLES
    time,     \* the time
    redis,    \* the keys presence:role:noc and presence:session:*
    rows,     \* the table user_sessions
    call,     \* the calls being served
    beaten,   \* the time of an operator's last heartbeat that counts, or Never
    via,      \* the stores an operator's calls have used since he was last quiet
    doubt     \* the operators whose calls have overlapped or used both stores
presenceVars == <<time, redis, rows, call, beaten, via, doubt>>

PresenceTypeOK ==
    /\ time \in Time
    /\ redis \in [Tabs -> RedisEntry] /\ rows \in [Tabs -> SessionRow]
    /\ call \in [Callers -> Call]
    /\ beaten \in [Operators -> Time \cup {Never}]
    /\ via \in [Operators -> SUBSET {"redis", "db"}] /\ doubt \subseteq Operators

PresenceInit ==
    /\ time = 0
    /\ redis = [t \in Tabs |-> NoEntry]
    /\ rows = [t \in Tabs |-> [operator |-> Never, active |-> FALSE, seen |-> 0]]
    /\ call = [c \in Callers |-> NoCall]
    /\ beaten = [o \in Operators |-> Never]
    /\ via = [o \in Operators |-> {}] /\ doubt = {}
-----------------------------------------------------------------------------
(* Listing, which changes nothing.                                         *)

RedisTabs(o) == {t \in Tabs : redis[t].score # Never /\ redis[t].hash = o}

RowsOf(o) == {t \in Tabs : rows[t].operator = o}

Scored(t) == redis[t].score # Never /\ time <= redis[t].score + Window

\* _redis_list_active_noc.
ListedByRedis(o) == \E t \in RedisTabs(o) : Scored(t)

\* Slip: is_active is not asked for.
ListedLately(o) == \E t \in RowsOf(o) : time <= rows[t].seen + Window

\* _db_list_active_noc_operators.
ListedByDb(o) == \E t \in RowsOf(o) : rows[t].active /\ time <= rows[t].seen + Window

Listed(o) == ListedByRedis(o) \/ ListedByDb(o)
-----------------------------------------------------------------------------
(* heartbeat and deactivate_session.                                       *)

CallsOf(o) == {c \in Callers : call[c].operator = o}

\* A call goes to a store, its first or the one it falls back to.
Uses(o, store) ==
    /\ via' = [via EXCEPT ![o] = @ \cup {store}]
    /\ doubt' = IF Cardinality(CallsOf(o)') > 1 \/ Cardinality(via[o] \cup {store}) > 1
                THEN doubt \cup {o} ELSE doubt

Start(c, o) ==
    /\ call[c].pc = "idle"
    /\ \E op \in {"beat", "leave"}, store \in {"redis", "db"} :
          /\ call' = [call EXCEPT ![c] = [NoCall EXCEPT !.pc = store, !.op = op, !.operator = o, !.at = time]]
          /\ Uses(o, store)
    /\ UNCHANGED <<time, redis, rows, beaten>>

Goto(c, pc, tab, tabs) == call' = [call EXCEPT ![c].pc = pc, ![c].tab = tab, ![c].tabs = tabs]

Done(c) == call' = [call EXCEPT ![c] = NoCall]

Counts(c, t) == beaten' = [beaten EXCEPT ![call[c].operator] = t]

\* _redis_heartbeat: the first id that is the operator's, which is the one that has been
\* silent for longest, or a new one, which no call has had in hand.
ScanForBeat(c) ==
    /\ call[c].pc = "redis" /\ call[c].op = "beat"
    /\ LET mine == RedisTabs(call[c].operator) IN
       \E t \in Tabs :
          /\ IF mine # {} THEN t \in mine /\ \A s \in mine : redis[t].score <= redis[s].score
             ELSE redis[t] = NoEntry /\ \A d \in Callers : t \notin call[d].tabs \cup {call[d].tab}
          /\ Goto(c, "hset", t, {})
    /\ UNCHANGED <<time, redis, rows, beaten, via, doubt>>

Hset(c) ==
    /\ call[c].pc = "hset"
    /\ redis' = [redis EXCEPT ![call[c].tab].hash = call[c].operator]
    /\ Goto(c, "zadd", call[c].tab, {})
    /\ UNCHANGED <<time, rows, beaten, via, doubt>>

Zadd(c) ==
    /\ call[c].pc = "zadd"
    /\ redis' = [redis EXCEPT ![call[c].tab].score = call[c].at]
    /\ Counts(c, call[c].at) /\ Goto(c, "expire", call[c].tab, {})
    /\ UNCHANGED <<time, rows, via, doubt>>

\* The hash, if it is still there, is to expire in another while.
Renew(c) ==
    /\ call[c].pc = "expire"
    /\ redis' = [redis EXCEPT ![call[c].tab].expires = (redis[call[c].tab].hash # Never)]
    /\ Done(c)
    /\ UNCHANGED <<time, rows, beaten, via, doubt>>

\* _redis_deactivate: the ids of the operator by their scores, each taken out of the set
\* first.
ScanForLeave(c) ==
    /\ call[c].pc = "redis" /\ call[c].op = "leave"
    /\ LET mine == RedisTabs(call[c].operator) IN
       IF mine = {} THEN Done(c) /\ Counts(c, Never)
       ELSE /\ call' = [call EXCEPT ![c].pc = "zrem", ![c].tabs = mine,
                                    ![c].scores = [t \in Tabs |-> IF t \in mine THEN redis[t].score ELSE Never]]
            /\ UNCHANGED beaten
    /\ UNCHANGED <<time, redis, rows, via, doubt>>

Zrem(c) ==
    /\ call[c].pc = "zrem"
    /\ \E t \in call[c].tabs :
          /\ \A s \in call[c].tabs : call[c].scores[t] <= call[c].scores[s]
          /\ redis' = [redis EXCEPT ![t].score = Never]
          /\ Goto(c, "del", t, call[c].tabs \ {t})
          /\ IF \E s \in call[c].tabs \ {t} : Scored(s) THEN UNCHANGED beaten ELSE Counts(c, Never)
    /\ UNCHANGED <<time, rows, via, doubt>>

Del(c) ==
    /\ call[c].pc = "del"
    /\ redis' = [redis EXCEPT ![call[c].tab].hash = Never, ![call[c].tab].expires = FALSE]
    /\ IF call[c].tabs = {} THEN Done(c) ELSE Goto(c, "zrem", Never, call[c].tabs)
    /\ UNCHANGED <<time, rows, beaten, via, doubt>>

\* A command fails: what the others did stays, and the call goes to the table, by the
\* time it is then.
FallBack(c) ==
    /\ call[c].pc \in {"redis", "hset", "zadd", "expire", "zrem", "del"}
    /\ call' = [call EXCEPT ![c] = [NoCall EXCEPT !.pc = "db", !.op = call[c].op,
                                                  !.operator = call[c].operator, !.at = time]]
    /\ Uses(call[c].operator, "db")
    /\ UNCHANGED <<time, redis, rows, beaten>>

\* The latest row of the operator, active or not, or none.
LoadRow(c) ==
    /\ call[c].pc = "db" /\ call[c].op = "beat"
    /\ LET mine == RowsOf(call[c].operator) IN
       \/ \E t \in mine : /\ \A s \in mine : rows[s].seen <= rows[t].seen
                          /\ call' = [call EXCEPT ![c].pc = "commit", ![c].tab = t,
                                                  ![c].active = rows[t].active]
       \/ mine = {} /\ Goto(c, "commit", Never, {})
    /\ UNCHANGED <<time, redis, rows, beaten, via, doubt>>

LoadRows(c) ==
    /\ call[c].pc = "db" /\ call[c].op = "leave"
    /\ Goto(c, "commit", Never, {t \in RowsOf(call[c].operator) : rows[t].active})
    /\ UNCHANGED <<time, redis, rows, beaten, via, doubt>>

\* is_active is written only if the row was read as inactive.
CommitBeat(c) ==
    /\ call[c].pc = "commit" /\ call[c].op = "beat"
    /\ LET w == call[c] IN
       \/ /\ w.tab # Never
          /\ rows' = [rows EXCEPT ![w.tab].seen = w.at, ![w.tab].active = @ \/ ~ w.active]
       \/ /\ w.tab = Never
          /\ \E t \in Tabs : /\ rows[t].operator = Never
                             /\ rows' = [rows EXCEPT ![t] = [operator |-> w.operator, active |-> TRUE,
                                                             seen |-> w.at]]
    /\ Counts(c, call[c].at) /\ Done(c)
    /\ UNCHANGED <<time, redis, via, doubt>>

CommitLeave(c) ==
    /\ call[c].pc = "commit" /\ call[c].op = "leave"
    /\ rows' = [t \in Tabs |-> IF t \in call[c].tabs THEN [rows[t] EXCEPT !.active = FALSE] ELSE rows[t]]
    /\ Counts(c, Never) /\ Done(c)
    /\ UNCHANGED <<time, redis, via, doubt>>

\* The table fails too, and the call is answered with an error.
FailCall(c) ==
    /\ call[c].pc \in {"db", "commit"}
    /\ Done(c)
    /\ UNCHANGED <<time, redis, rows, beaten, via, doubt>>

PassTime == time < MaxTime /\ time' = time + 1 /\ UNCHANGED <<redis, rows, call, beaten, via, doubt>>

\* A hash expires some time after its id has fallen silent; under a heartbeat that
\* has yet to renew it the operator is then missing until the next one.
ExpireHash(t) ==
    LET under == {c \in Callers : call[c].pc \in {"hset", "zadd", "expire", "del"} /\ call[c].tab = t} IN
    /\ redis[t].expires
    /\ ~ Scored(t) \/ \E c \in under : call[c].pc = "expire"
    /\ redis' = [redis EXCEPT ![t].hash = Never, ![t].expires = FALSE]
    /\ doubt' = doubt \cup {call[c].operator : c \in under}
    /\ UNCHANGED <<time, rows, call, beaten, via>>

\* No call of the operator is left and no store lists him.
Quiet(o) ==
    /\ CallsOf(o) = {} /\ ~ ListedByRedis(o) /\ ~ ListedByDb(o)
    /\ via' = [via EXCEPT ![o] = {}] /\ doubt' = doubt \ {o}
    /\ beaten' = [beaten EXCEPT ![o] = Never]
    /\ UNCHANGED <<time, redis, rows, call>>

PresenceNext ==
    \/ \E c \in Callers : \/ \E o \in Operators : Start(c, o)
                          \/ ScanForBeat(c)
                          \/ Hset(c)
                          \/ Zadd(c)
                          \/ Renew(c)
                          \/ ScanForLeave(c)
                          \/ Zrem(c)
                          \/ Del(c)
                          \/ FallBack(c)
                          \/ LoadRow(c)
                          \/ LoadRows(c)
                          \/ CommitBeat(c)
                          \/ CommitLeave(c)
                          \/ FailCall(c)
    \/ PassTime
    \/ \E t \in Tabs : ExpireHash(t)
    \/ \E o \in Operators : Quiet(o)

PresenceSpec == PresenceInit /\ [][PresenceNext]_presenceVars
-----------------------------------------------------------------------------
(* Properties.                                                             *)

\* Whichever store serves an operator, its list of active operators is that of the
\* abstract roster: he is listed from a heartbeat until he leaves or falls silent,
\* although Redis is written command by command and its set and hashes part ways.
\* Nothing is promised from when two calls of his overlap, his calls change the store or
\* a hash expires under one, until nothing of it is left.
TheRoster ==
    INSTANCE Roster WITH now <- time, beat <- beaten, doubted <- doubt,
                         online <- {o \in Operators \ doubt : Listed(o)}

IsRoster == TheRoster!RosterSpec
=============================================================================
