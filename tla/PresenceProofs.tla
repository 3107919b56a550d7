----------------------------- MODULE PresenceProofs ----------------------------
(***************************************************************************)
(* Presence implements Roster, for any number of operators, calls and      *)
(* session ids and any window.                                             *)
(***************************************************************************)
EXTENDS Presence, FiniteSetTheorems, TLAPS

-----------------------------------------------------------------------------
(* Presence.                                                               *)

\* The ids of Redis a call works on.
Claims(c) ==
    IF call[c].pc \in {"hset", "zadd", "expire", "zrem", "del"}
    THEN call[c].tabs \cup ({call[c].tab} \ {Never}) ELSE {}

\* What a call has at each of its commands.
CallOK(c) ==
    /\ call[c].pc = "idle" => call[c] = NoCall
    /\ call[c].pc # "idle" => call[c].operator \in Operators
    /\ call[c].at <= time
    /\ call[c].pc \in {"hset", "zadd", "expire", "del"} => call[c].tab \in Tabs
    /\ call[c].pc \in {"redis", "zrem", "db"} => call[c].tab = Never
    /\ call[c].pc = "db" => call[c].tabs = {}
    /\ call[c].pc = "del" => call[c].tab \notin call[c].tabs

\* The ids and rows a call works on are its operator's, or ids that have lost their hash;
\* two calls on one id are of one operator.
ClaimsKept ==
    /\ \A c \in Callers : \A t \in Claims(c) : redis[t].hash \in {Never, call[c].operator}
    /\ \A c, d \in Callers : Claims(c) \cap Claims(d) # {} => call[c].operator = call[d].operator

RowsKept ==
    \A c \in Callers : call[c].pc = "commit" =>
       \A t \in Tabs : t = call[c].tab \/ t \in call[c].tabs => rows[t].operator = call[c].operator

\* The store of a call has been noted.
ViaKept ==
    \A c \in Callers :
       /\ call[c].pc \in {"redis", "hset", "zadd", "expire", "zrem", "del"} => "redis" \in via[call[c].operator]
       /\ call[c].pc \in {"db", "commit"} => "db" \in via[call[c].operator]

\* An operator nobody doubts has one call and one store, and his last heartbeat is no later
\* than the call.
AloneKept ==
    \A o \in Operators \ doubt :
       /\ \A c, d \in CallsOf(o) : c = d
       /\ ~ ({"redis", "db"} \subseteq via[o])
       /\ \A c \in CallsOf(o) : beaten[o] # Never => beaten[o] <= call[c].at

BeatenKept ==
    \A o \in Operators : /\ beaten[o] # Never => beaten[o] <= time
                         /\ via[o] = {} => beaten[o] = Never

CallsKept ==
    /\ PresenceTypeOK /\ \A c \in Callers : CallOK(c)
    /\ ClaimsKept /\ RowsKept /\ ViaKept /\ AloneKept /\ BeatenKept

LEMMA TimeRange ==
    /\ Time \subseteq Nat /\ 0 \in Time /\ Never \notin Time /\ Never \notin Operators /\ Never \notin Tabs
    /\ Window \in Nat /\ MaxTime \in Nat
  BY PresenceAssumption DEF PresenceAssumption, Time

LEMMA NoCallType ==
    /\ NoCall \in Call /\ NoCall.pc = "idle" /\ NoCall.operator = Never /\ NoCall.tab = Never
    /\ NoCall.tabs = {} /\ NoCall.at = 0
  BY TimeRange DEF NoCall, Call

LEMMA AtMostOne ==
    ASSUME NEW S, IsFiniteSet(S), ~ (Cardinality(S) > 1), NEW x \in S, NEW y \in S
    PROVE  x = y
<1> SUFFICES ASSUME x # y PROVE FALSE
  OBVIOUS
<1>1. IsFiniteSet({x}) /\ Cardinality({x}) = 1
  BY FS_Singleton
<1>2. IsFiniteSet({x} \cup {y}) /\ Cardinality({x} \cup {y}) = 2
  <2>1. /\ IsFiniteSet({x} \cup {y})
        /\ Cardinality({x} \cup {y}) = IF y \in {x} THEN Cardinality({x}) ELSE Cardinality({x}) + 1
    BY <1>1, FS_AddElement
  <2>2. y \notin {x}
    OBVIOUS
  <2> QED
    BY <1>1, <2>1, <2>2
<1>3. {x} \cup {y} \in SUBSET S
  OBVIOUS
<1>4. Cardinality({x} \cup {y}) <= Cardinality(S)
  BY <1>3, FS_Subset
<1>5. Cardinality(S) \in Nat
  BY FS_CardinalityType
<1> QED
  BY <1>2, <1>4, <1>5

\* A call going to a store is in doubt unless it is the only one and this the only store.
LEMMA UsesFacts ==
    ASSUME PresenceTypeOK, NEW o \in Operators, NEW store \in {"redis", "db"}, Uses(o, store)
    PROVE  /\ via' \in [Operators -> SUBSET {"redis", "db"}] /\ via'[o] = via[o] \cup {store}
           /\ \A x \in Operators : x # o => via'[x] = via[x]
           /\ doubt' \in {doubt, doubt \cup {o}}
           /\ o \notin doubt' => /\ \A c, d \in CallsOf(o)' : c = d
                                 /\ ~ ({"redis", "db"} \subseteq via'[o])
<1>1. /\ via' \in [Operators -> SUBSET {"redis", "db"}] /\ via'[o] = via[o] \cup {store}
      /\ \A x \in Operators : x # o => via'[x] = via[x]
      /\ doubt' \in {doubt, doubt \cup {o}}
  BY DEF PresenceTypeOK, Uses
<1>2. ASSUME o \notin doubt'
      PROVE  /\ \A c, d \in CallsOf(o)' : c = d
             /\ ~ ({"redis", "db"} \subseteq via'[o])
  <2>1. ~ (Cardinality(CallsOf(o)') > 1) /\ ~ (Cardinality(via[o] \cup {store}) > 1)
    BY <1>2 DEF Uses
  <2>2. IsFiniteSet(CallsOf(o)')
    <3>1. CallsOf(o)' \in SUBSET Callers
      BY DEF CallsOf
    <3> QED
      BY <3>1, PresenceAssumption, FS_Subset DEF PresenceAssumption
  <2>3. IsFiniteSet(via[o] \cup {store})
    <3>1. IsFiniteSet({"redis"} \cup {"db"})
      BY FS_Singleton, FS_AddElement
    <3>2. via[o] \cup {store} \in SUBSET ({"redis"} \cup {"db"})
      BY DEF PresenceTypeOK
    <3> QED
      BY <3>1, <3>2, FS_Subset
  <2>4. \A c, d \in CallsOf(o)' : c = d
    BY <2>1, <2>2, AtMostOne
  <2>5. "redis" \in via[o] \cup {store} /\ "db" \in via[o] \cup {store} => "redis" = "db"
    BY <2>1, <2>3, AtMostOne
  <2> QED
    BY <1>1, <2>4, <2>5
<1> QED
  BY <1>1, <1>2

LEMMA GotoFacts ==
    ASSUME PresenceTypeOK, NEW c \in Callers,
           NEW pc \in {"idle", "redis", "hset", "zadd", "expire", "zrem", "del", "db", "commit"},
           NEW tab \in Tabs \cup {Never}, NEW tabs \in SUBSET Tabs, Goto(c, pc, tab, tabs)
    PROVE  /\ call' \in [Callers -> Call] /\ \A d \in Callers : d # c => call'[d] = call[d]
           /\ call'[c].pc = pc /\ call'[c].tab = tab /\ call'[c].tabs = tabs
           /\ call'[c].operator = call[c].operator /\ call'[c].at = call[c].at
           /\ call'[c].op = call[c].op /\ call'[c].scores = call[c].scores
           /\ call'[c].active = call[c].active
<1>1. call \in [Callers -> Call] /\ call[c] \in Call
  BY DEF PresenceTypeOK
<1>2. call' = [call EXCEPT ![c] = [call[c] EXCEPT !.pc = pc, !.tab = tab, !.tabs = tabs]]
  BY DEF Goto
<1>3. [call[c] EXCEPT !.pc = pc, !.tab = tab, !.tabs = tabs] \in Call
  BY <1>1 DEF Call
<1>4. call'[c] = [call[c] EXCEPT !.pc = pc, !.tab = tab, !.tabs = tabs]
  BY <1>1, <1>2
<1> QED
  BY <1>1, <1>2, <1>3, <1>4 DEF Call

\* A step of a call that works on what it had in hand, or takes in hand what is its
\* operator's or nobody's.
LEMMA CallMoves ==
    ASSUME CallsKept, PresenceTypeOK', NEW c \in Callers, call[c].pc # "idle",
           \A d \in Callers : d # c => call'[d] = call[d],
           UNCHANGED <<time, via, doubt>>,
           CallOK(c)',
           call'[c].pc # "idle" =>
              call'[c].operator = call[c].operator /\ call'[c].at = call[c].at,
           call'[c].pc \in {"hset", "zadd", "expire", "zrem", "del"} =>
              call[c].pc \in {"redis", "hset", "zadd", "expire", "zrem", "del"},
           call'[c].pc \in {"db", "commit"} => call[c].pc \in {"db", "commit"},
           call'[c].pc # "redis",
           \A t \in Claims(c)' : \/ t \in Claims(c)
                                 \/ t \in Tabs /\ redis[t].hash = call[c].operator
                                 \/ /\ t \in Tabs /\ redis[t].hash = Never
                                    /\ \A d \in Callers : t \notin Claims(d),
           \A t \in Tabs : \/ redis'[t].hash \in {redis[t].hash, Never}
                           \/ t \in Claims(c) /\ redis'[t].hash = call[c].operator,
           \A t \in Tabs : rows[t].operator # Never => rows'[t].operator = rows[t].operator,
           call'[c].pc = "commit" =>
              \A t \in Tabs : t = call'[c].tab \/ t \in call'[c].tabs => rows[t].operator = call[c].operator,
           \A o \in Operators : \/ beaten'[o] = beaten[o]
                                \/ o = call[c].operator /\ beaten'[o] \in {Never, call[c].at}
    PROVE  CallsKept'
<1> DEFINE o == call[c].operator
<1>0. /\ PresenceTypeOK /\ (\A d \in Callers : CallOK(d)) /\ ClaimsKept /\ RowsKept /\ ViaKept
      /\ AloneKept /\ BeatenKept
  BY DEF CallsKept
<1>1. o \in Operators /\ o # Never /\ call[c].at \in Nat /\ call[c].at <= time /\ time \in Nat
  <2>1. CallOK(c) /\ call[c] \in Call /\ time \in Time
    BY <1>0 DEF PresenceTypeOK
  <2>2. o \in Operators /\ call[c].at <= time
    BY <2>1 DEF CallOK
  <2>3. call[c].at \in Time
    BY <2>1 DEF Call
  <2> QED
    BY <2>1, <2>2, <2>3, TimeRange
<1>2. call'[c].pc = "idle" => call'[c] = NoCall /\ call'[c].operator = Never
  BY NoCallType DEF CallOK
<1>3. \A d \in Callers : d # c =>
         /\ Claims(d)' = Claims(d) /\ call'[d] = call[d] /\ (CallOK(d) => CallOK(d)')
  BY DEF Claims, CallOK
<1>4. \A d \in Callers : CallOK(d)'
  BY <1>0, <1>3
<1>5. \A d \in Callers : Claims(d) \subseteq Tabs /\ Claims(d)' \subseteq Tabs
  <2>1. \A d \in Callers : call[d] \in Call /\ call'[d] \in Call
    BY <1>0 DEF PresenceTypeOK
  <2> QED
    BY <2>1 DEF Claims, Call
<1>6. /\ \A t \in Claims(c)' : redis[t].hash \in {Never, o}
      /\ \A t \in Claims(c)', d \in Callers : t \in Claims(d) => call[d].operator = o
  <2> SUFFICES ASSUME NEW t \in Claims(c)'
               PROVE  /\ redis[t].hash \in {Never, o}
                      /\ \A d \in Callers : t \in Claims(d) => call[d].operator = o
    OBVIOUS
  <2>1. CASE t \in Claims(c)
    BY <1>0, <2>1 DEF ClaimsKept
  <2>2. CASE t \in Tabs /\ redis[t].hash = o
    BY <1>0, <1>1, <2>2 DEF ClaimsKept
  <2>3. CASE t \in Tabs /\ redis[t].hash = Never /\ \A d \in Callers : t \notin Claims(d)
    BY <2>3
  <2> QED
    BY <2>1, <2>2, <2>3
<1>7. \A t \in Claims(c)' : call'[c].operator = o
  <2>1. Claims(c)' # {} => call'[c].pc # "idle"
    BY DEF Claims
  <2> QED
    BY <2>1
<1>8. ASSUME NEW d \in Callers, NEW t \in Claims(d)'
      PROVE  redis'[t].hash \in {Never, call'[d].operator}
  <2>1. CASE d = c
    BY <1>5, <1>6, <1>7, <2>1
  <2>2. CASE d # c
    <3>1. t \in Claims(d) /\ redis[t].hash \in {Never, call[d].operator} /\ call'[d] = call[d] /\ t \in Tabs
      BY <1>0, <1>3, <1>5, <1>8, <2>2 DEF ClaimsKept
    <3>2. t \in Claims(c) => call[d].operator = o
      BY <1>0, <3>1 DEF ClaimsKept
    <3> QED
      BY <3>1, <3>2
  <2> QED
    BY <2>1, <2>2
<1>9. ASSUME NEW d \in Callers, NEW e \in Callers, NEW t, t \in Claims(d)', t \in Claims(e)'
      PROVE  call'[d].operator = call'[e].operator
  <2>1. CASE d # c /\ e # c
    BY <1>0, <1>3, <1>9, <2>1 DEF ClaimsKept
  <2>2. CASE d = c /\ e # c
    BY <1>3, <1>6, <1>7, <1>9, <2>2
  <2>3. CASE d # c /\ e = c
    BY <1>3, <1>6, <1>7, <1>9, <2>3
  <2> QED
    BY <2>1, <2>2, <2>3
<1>10. ClaimsKept'
  <2>1. \A d, e \in Callers : (Claims(d) \cap Claims(e) # {})' => call'[d].operator = call'[e].operator
    BY <1>9
  <2> QED
    BY <1>8, <2>1 DEF ClaimsKept
<1>11. RowsKept'
  <2> SUFFICES ASSUME NEW d \in Callers, call'[d].pc = "commit",
                      NEW t \in Tabs, t = call'[d].tab \/ t \in call'[d].tabs
               PROVE  rows'[t].operator = call'[d].operator
    BY DEF RowsKept
  <2>1. rows[t].operator = call'[d].operator
    BY <1>0, <1>3 DEF RowsKept
  <2>2. call'[d].operator \in Operators
    BY <1>4 DEF CallOK
  <2> QED
    BY <2>1, <2>2, TimeRange
<1>12. ViaKept'
  <2>1. call'[c].pc # "idle" => call'[c].operator = o
    OBVIOUS
  <2> QED
    BY <1>0, <1>3, <2>1 DEF ViaKept
<1>13. \A x \in Operators : CallsOf(x)' \subseteq CallsOf(x)
  BY <1>2, TimeRange DEF CallsOf
<1>14. AloneKept'
  <2> SUFFICES ASSUME NEW x \in Operators \ doubt
               PROVE  /\ \A d, e \in CallsOf(x)' : d = e
                      /\ ~ ({"redis", "db"} \subseteq via[x])
                      /\ \A d \in CallsOf(x)' : beaten'[x] # Never => beaten'[x] <= call'[d].at
    BY DEF AloneKept
  <2>1. /\ \A d, e \in CallsOf(x) : d = e
        /\ ~ ({"redis", "db"} \subseteq via[x])
        /\ \A d \in CallsOf(x) : beaten[x] # Never => beaten[x] <= call[d].at
    BY <1>0 DEF AloneKept
  <2>2. ASSUME NEW d \in CallsOf(x)', beaten'[x] # Never
        PROVE  beaten'[x] <= call'[d].at
    <3>1. d \in Callers /\ d \in CallsOf(x) /\ call'[d].operator = x
      BY <1>13 DEF CallsOf
    <3>2. call'[d].pc # "idle"
      BY <1>4, <3>1, NoCallType, TimeRange DEF CallOK
    <3>3. call'[d].at = call[d].at
      BY <1>3, <3>2, <3>1
    <3>4. CASE beaten'[x] = beaten[x]
      BY <2>1, <2>2, <3>1, <3>3, <3>4
    <3>5. CASE x = o /\ beaten'[x] \in {Never, call[c].at}
      <4>1. c \in CallsOf(x)
        BY <3>5 DEF CallsOf
      <4>2. d = c
        BY <2>1, <3>1, <4>1
      <4> QED
        BY <1>1, <2>2, <3>3, <3>5, <4>2
    <3> QED
      BY <3>4, <3>5
  <2> QED
    BY <1>13, <2>1, <2>2
<1>15. BeatenKept'
  <2>1. via[o] # {}
    BY <1>0, <1>1 DEF ViaKept, PresenceTypeOK, Call
  <2> QED
    BY <1>0, <1>1, <2>1 DEF BeatenKept
<1> QED
  BY <1>4, <1>10, <1>11, <1>12, <1>14, <1>15 DEF CallsKept

\* A call that goes to a store, at the time it is.
LEMMA CallEnters ==
    ASSUME CallsKept, NEW c \in Callers, NEW o \in Operators, NEW store \in {"redis", "db"},
           NEW op \in {"beat", "leave"}, call[c].pc = "idle" \/ call[c].operator = o,
           call' = [call EXCEPT ![c] = [NoCall EXCEPT !.pc = store, !.op = op, !.operator = o, !.at = time]],
           Uses(o, store), UNCHANGED <<time, redis, rows, beaten>>
    PROVE  CallsKept'
<1> DEFINE w == [NoCall EXCEPT !.pc = store, !.op = op, !.operator = o, !.at = time]
<1>0. /\ PresenceTypeOK /\ (\A d \in Callers : CallOK(d)) /\ ClaimsKept /\ RowsKept /\ ViaKept
      /\ AloneKept /\ BeatenKept
  BY DEF CallsKept
<1>1. time \in Time /\ call \in [Callers -> Call] /\ doubt \subseteq Operators
  BY <1>0 DEF PresenceTypeOK
<1>2. /\ w \in Call /\ w.pc = store /\ w.operator = o /\ w.at = time /\ w.tab = Never /\ w.tabs = {}
  BY <1>1, NoCallType DEF Call
<1> HIDE DEF w
<1>3. /\ call' \in [Callers -> Call] /\ call'[c] = w
      /\ \A d \in Callers : d # c => call'[d] = call[d]
  BY <1>1, <1>2 DEF w
<1>4. /\ via' \in [Operators -> SUBSET {"redis", "db"}] /\ via'[o] = via[o] \cup {store}
      /\ \A x \in Operators : x # o => via'[x] = via[x]
      /\ doubt' \in {doubt, doubt \cup {o}}
      /\ o \notin doubt' => /\ \A d, e \in CallsOf(o)' : d = e
                            /\ ~ ({"redis", "db"} \subseteq via'[o])
  BY <1>0, UsesFacts
<1>5. PresenceTypeOK'
  BY <1>0, <1>1, <1>3, <1>4 DEF PresenceTypeOK
<1>6. \A d \in Callers : CallOK(d)'
  <2>1. CallOK(c)'
    <3>1. time <= time /\ time' = time
      BY <1>1, TimeRange
    <3>2. /\ call'[c].pc \in {"redis", "db"} /\ call'[c].operator = o /\ call'[c].at = time
          /\ call'[c].tab = Never /\ call'[c].tabs = {}
      BY <1>2, <1>3
    <3> QED
      BY <3>1, <3>2 DEF CallOK
  <2>2. \A d \in Callers : d # c => CallOK(d)'
    BY <1>0, <1>3 DEF CallOK
  <2> QED
    BY <2>1, <2>2
<1>7. Claims(c)' = {} /\ \A d \in Callers : d # c => Claims(d)' = Claims(d)
  BY <1>2, <1>3 DEF Claims
<1>8. ClaimsKept'
  BY <1>0, <1>3, <1>7 DEF ClaimsKept
<1>9. RowsKept'
  BY <1>0, <1>2, <1>3 DEF RowsKept
<1>10. ViaKept'
  <2> SUFFICES ASSUME NEW d \in Callers
               PROVE  /\ call'[d].pc \in {"redis", "hset", "zadd", "expire", "zrem", "del"}
                           => "redis" \in via'[call'[d].operator]
                      /\ call'[d].pc \in {"db", "commit"} => "db" \in via'[call'[d].operator]
    BY DEF ViaKept
  <2>1. CASE d = c
    BY <1>2, <1>3, <1>4, <2>1
  <2>2. CASE d # c
    <3>1. call'[d] = call[d] /\ (call[d].pc # "idle" => call[d].operator \in Operators)
      BY <1>0, <1>3, <2>2 DEF CallOK
    <3>2. call[d].pc # "idle" => via[call[d].operator] \subseteq via'[call[d].operator]
      BY <1>4, <3>1
    <3> QED
      BY <1>0, <3>1, <3>2 DEF ViaKept
  <2> QED
    BY <2>1, <2>2
<1>11. AloneKept'
  <2> SUFFICES ASSUME NEW x \in Operators \ doubt'
               PROVE  /\ \A d, e \in CallsOf(x)' : d = e
                      /\ ~ ({"redis", "db"} \subseteq via'[x])
                      /\ \A d \in CallsOf(x)' : beaten[x] # Never => beaten[x] <= call'[d].at
    BY DEF AloneKept
  <2>1. CASE x = o
    <3>1. \A d \in CallsOf(o)' : d = c
      BY <1>2, <1>3, <1>4, <2>1 DEF CallsOf
    <3> QED
      BY <1>0, <1>2, <1>3, <1>4, <2>1, <3>1 DEF BeatenKept
  <2>2. CASE x # o
    <3>1. x \notin doubt /\ CallsOf(x)' \subseteq CallsOf(x) /\ c \notin CallsOf(x)'
      BY <1>2, <1>3, <1>4, <2>2 DEF CallsOf
    <3>2. \A d \in CallsOf(x)' : call'[d] = call[d]
      BY <1>3, <3>1 DEF CallsOf
    <3> QED
      BY <1>0, <1>4, <2>2, <3>1, <3>2 DEF AloneKept
  <2> QED
    BY <2>1, <2>2
<1>12. BeatenKept'
  BY <1>0, <1>4 DEF BeatenKept
<1> QED
  BY <1>5, <1>6, <1>8, <1>9, <1>10, <1>11, <1>12 DEF CallsKept

LEMMA CallsKeptInit == PresenceInit => CallsKept
<1> SUFFICES ASSUME PresenceInit PROVE CallsKept
  OBVIOUS
<1>1. \A c \in Callers : call[c] = NoCall
  BY DEF PresenceInit
<1>2. PresenceTypeOK
  BY <1>1, NoCallType, TimeRange DEF PresenceInit, PresenceTypeOK, NoEntry, RedisEntry, SessionRow
<1>3. \A c \in Callers : CallOK(c)
  BY <1>1, NoCallType, TimeRange DEF PresenceInit, CallOK
<1>4. \A c \in Callers : Claims(c) = {}
  BY <1>1, NoCallType DEF Claims
<1>5. \A o \in Operators : CallsOf(o) = {} /\ via[o] = {} /\ beaten[o] = Never
  BY <1>1, NoCallType, TimeRange DEF PresenceInit, CallsOf
<1> QED
  BY <1>1, <1>2, <1>3, <1>4, <1>5, NoCallType
  DEF CallsKept, ClaimsKept, RowsKept, ViaKept, AloneKept, BeatenKept

\* The steps of a call that has an id of Redis in hand, or looks for one.
LEMMA RedisMoves ==
    ASSUME CallsKept, NEW c \in Callers,
           \/ ScanForBeat(c) \/ Hset(c) \/ Zadd(c) \/ Renew(c)
           \/ ScanForLeave(c) \/ Zrem(c) \/ Del(c)
    PROVE  CallsKept'
<1> DEFINE w == call[c]
           o == call[c].operator
<1>0. PresenceTypeOK /\ CallOK(c) /\ ClaimsKept
  BY DEF CallsKept
<1>1. /\ call \in [Callers -> Call] /\ w \in Call /\ redis \in [Tabs -> RedisEntry]
      /\ beaten \in [Operators -> Time \cup {Never}] /\ w.tab \in Tabs \cup {Never}
      /\ w.tabs \in SUBSET Tabs /\ w.at \in Time /\ w.operator \in Operators \cup {Never}
  BY <1>0 DEF PresenceTypeOK, Call
<1>2. w.pc # "idle" => o \in Operators
  BY <1>0 DEF CallOK
<1>3. ASSUME ScanForBeat(c)
      PROVE  CallsKept'
  <2>1. PICK t \in Tabs :
           /\ \/ redis[t].hash = o
              \/ redis[t].hash = Never /\ \A d \in Callers : t \notin call[d].tabs \cup {call[d].tab}
           /\ Goto(c, "hset", t, {})
    BY <1>3 DEF ScanForBeat, RedisTabs, NoEntry
  <2>2. /\ call' \in [Callers -> Call] /\ (\A d \in Callers : d # c => call'[d] = call[d])
        /\ call'[c].pc = "hset" /\ call'[c].tab = t /\ call'[c].tabs = {}
        /\ call'[c].operator = o /\ call'[c].at = w.at
    BY <1>0, <2>1, GotoFacts
  <2>3. w.pc = "redis" /\ UNCHANGED <<time, redis, rows, beaten, via, doubt>>
    BY <1>3 DEF ScanForBeat
  <2>4. PresenceTypeOK'
    BY <1>0, <2>2, <2>3 DEF PresenceTypeOK
  <2>5. CallOK(c)'
    BY <1>0, <1>2, <2>2, <2>3 DEF CallOK
  <2>6. Claims(c)' = {t}
    BY <2>2, TimeRange DEF Claims
  <2>7. redis[t].hash = o \/ (redis[t].hash = Never /\ \A d \in Callers : t \notin Claims(d))
    BY <2>1 DEF Claims
  <2> QED
    BY <2>2, <2>3, <2>4, <2>5, <2>6, <2>7, CallMoves
<1>4. ASSUME Hset(c)
      PROVE  CallsKept'
  <2>1. /\ w.pc = "hset" /\ Goto(c, "zadd", w.tab, {}) /\ UNCHANGED <<time, rows, beaten, via, doubt>>
        /\ redis' = [redis EXCEPT ![w.tab].hash = o]
    BY <1>4 DEF Hset
  <2>2. /\ call' \in [Callers -> Call] /\ (\A d \in Callers : d # c => call'[d] = call[d])
        /\ call'[c].pc = "zadd" /\ call'[c].tab = w.tab /\ call'[c].tabs = {}
        /\ call'[c].operator = o /\ call'[c].at = w.at
    BY <1>0, <1>1, <2>1, GotoFacts
  <2>3. w.tab \in Tabs /\ w.tab \in Claims(c) /\ Claims(c)' \subseteq Claims(c)
    BY <1>0, <2>1, <2>2, TimeRange DEF CallOK, Claims
  <2>4. /\ redis' \in [Tabs -> RedisEntry] /\ redis'[w.tab].hash = o
        /\ \A t \in Tabs : t # w.tab => redis'[t] = redis[t]
    BY <1>1, <1>2, <2>1, <2>3 DEF RedisEntry
  <2>5. PresenceTypeOK'
    BY <1>0, <2>1, <2>2, <2>4 DEF PresenceTypeOK
  <2>6. CallOK(c)'
    BY <1>0, <1>2, <2>1, <2>2, <2>3 DEF CallOK
  <2> QED
    BY <2>1, <2>2, <2>3, <2>4, <2>5, <2>6, CallMoves
<1>5. ASSUME Zadd(c)
      PROVE  CallsKept'
  <2>1. /\ w.pc = "zadd" /\ Goto(c, "expire", w.tab, {}) /\ UNCHANGED <<time, rows, via, doubt>>
        /\ redis' = [redis EXCEPT ![w.tab].score = w.at] /\ beaten' = [beaten EXCEPT ![o] = w.at]
    BY <1>5 DEF Zadd, Counts
  <2>2. /\ call' \in [Callers -> Call] /\ (\A d \in Callers : d # c => call'[d] = call[d])
        /\ call'[c].pc = "expire" /\ call'[c].tab = w.tab /\ call'[c].tabs = {}
        /\ call'[c].operator = o /\ call'[c].at = w.at
    BY <1>0, <1>1, <2>1, GotoFacts
  <2>3. w.tab \in Tabs /\ Claims(c)' \subseteq Claims(c)
    BY <1>0, <2>1, <2>2, TimeRange DEF CallOK, Claims
  <2>4. /\ redis' \in [Tabs -> RedisEntry] /\ \A t \in Tabs : redis'[t].hash = redis[t].hash
    BY <1>1, <2>1, <2>3 DEF RedisEntry
  <2>5. PresenceTypeOK' /\ \A x \in Operators : beaten'[x] = IF x = o THEN w.at ELSE beaten[x]
    BY <1>0, <1>1, <1>2, <2>1, <2>2, <2>4 DEF PresenceTypeOK
  <2>6. CallOK(c)'
    BY <1>0, <1>2, <2>1, <2>2, <2>3 DEF CallOK
  <2> QED
    BY <2>1, <2>2, <2>3, <2>4, <2>5, <2>6, CallMoves
<1>6. ASSUME Renew(c)
      PROVE  CallsKept'
  <2>1. /\ w.pc = "expire" /\ call' = [call EXCEPT ![c] = NoCall]
        /\ UNCHANGED <<time, rows, beaten, via, doubt>>
        /\ redis' = [redis EXCEPT ![w.tab].expires = (redis[w.tab].hash # Never)]
    BY <1>6 DEF Renew, Done
  <2>2. /\ call' \in [Callers -> Call] /\ (\A d \in Callers : d # c => call'[d] = call[d])
        /\ call'[c] = NoCall
    BY <1>1, <2>1, NoCallType
  <2>3. w.tab \in Tabs /\ Claims(c)' = {} /\ CallOK(c)'
    BY <1>0, <1>1, <2>1, <2>2, NoCallType, TimeRange DEF CallOK, Claims, PresenceTypeOK
  <2>4. /\ redis' \in [Tabs -> RedisEntry] /\ \A t \in Tabs : redis'[t].hash = redis[t].hash
    <3>1. PICK b \in BOOLEAN : b = (redis[w.tab].hash # Never)
      OBVIOUS
    <3>2. redis' = [redis EXCEPT ![w.tab] = [redis[w.tab] EXCEPT !.expires = b]]
      BY <2>1, <3>1
    <3>3. /\ [redis[w.tab] EXCEPT !.expires = b] \in RedisEntry
          /\ [redis[w.tab] EXCEPT !.expires = b].hash = redis[w.tab].hash
      BY <1>1, <2>3 DEF RedisEntry
    <3> QED
      BY <1>1, <2>3, <3>2, <3>3
  <2>5. PresenceTypeOK'
    BY <1>0, <2>1, <2>2, <2>4 DEF PresenceTypeOK
  <2> QED
    BY <2>1, <2>2, <2>3, <2>4, <2>5, NoCallType, CallMoves
<1>7. ASSUME ScanForLeave(c)
      PROVE  CallsKept'
  <2> DEFINE mine == RedisTabs(o)
             scores == [t \in Tabs |-> IF t \in mine THEN redis[t].score ELSE Never]
  <2>0. mine \in SUBSET Tabs /\ \A t \in mine : redis[t].hash = o
    BY DEF RedisTabs
  <2>1. w.pc = "redis" /\ UNCHANGED <<time, redis, rows, via, doubt>>
    BY <1>7 DEF ScanForLeave
  <2>2. CASE call' = [call EXCEPT ![c] = NoCall] /\ beaten' = [beaten EXCEPT ![o] = Never]
    <3>1. /\ call' \in [Callers -> Call] /\ (\A d \in Callers : d # c => call'[d] = call[d])
          /\ call'[c] = NoCall
      BY <1>1, <2>2, NoCallType
    <3>2. Claims(c)' = {} /\ CallOK(c)'
      BY <1>1, <2>1, <3>1, NoCallType, TimeRange, <1>0 DEF CallOK, Claims, PresenceTypeOK
    <3>3. PresenceTypeOK' /\ \A x \in Operators : beaten'[x] = IF x = o THEN Never ELSE beaten[x]
      BY <1>0, <1>1, <2>1, <2>2, <3>1 DEF PresenceTypeOK
    <3> QED
      BY <2>1, <3>1, <3>2, <3>3, NoCallType, CallMoves
  <2>3. CASE /\ call' = [call EXCEPT ![c].pc = "zrem", ![c].tabs = mine, ![c].scores = scores]
             /\ UNCHANGED beaten
    <3>1. scores \in [Tabs -> Time \cup {Never}]
      BY <1>1 DEF RedisEntry
    <3> DEFINE new == [w EXCEPT !.pc = "zrem", !.tabs = mine, !.scores = scores]
    <3> HIDE DEF mine, scores
    <3>2. new \in Call /\ new.pc = "zrem" /\ new.tabs = mine /\ new.tab = w.tab /\ new.operator = o /\ new.at = w.at
      BY <1>1, <2>0, <3>1 DEF Call
    <3>3. call' = [call EXCEPT ![c] = new]
      BY <1>1, <2>3
    <3> HIDE DEF new
    <3>4. /\ call' \in [Callers -> Call] /\ (\A d \in Callers : d # c => call'[d] = call[d])
          /\ call'[c] = new
      BY <1>1, <3>2, <3>3
    <3>5. PresenceTypeOK'
      BY <1>0, <2>1, <2>3, <3>4 DEF PresenceTypeOK
    <3>6. w.tab = Never
      BY <1>0, <2>1 DEF CallOK
    <3>7. CallOK(c)'
      BY <1>0, <1>2, <2>1, <3>2, <3>4, <3>6 DEF CallOK
    <3>8. Claims(c)' = mine
      BY <3>2, <3>4, <3>6 DEF Claims
    <3> QED
      BY <2>0, <2>1, <2>3, <3>2, <3>4, <3>5, <3>7, <3>8, CallMoves
  <2> QED
    BY <1>7, <2>2, <2>3 DEF ScanForLeave, Done, Counts
<1>8. ASSUME Zrem(c)
      PROVE  CallsKept'
  <2>1. PICK t \in w.tabs :
           /\ redis' = [redis EXCEPT ![t].score = Never]
           /\ Goto(c, "del", t, w.tabs \ {t})
           /\ beaten' = beaten \/ beaten' = [beaten EXCEPT ![o] = Never]
    BY <1>8 DEF Zrem, Counts
  <2>2. w.pc = "zrem" /\ t \in Tabs /\ UNCHANGED <<time, rows, via, doubt>>
    BY <1>1, <1>8 DEF Zrem
  <2>3. /\ call' \in [Callers -> Call] /\ (\A d \in Callers : d # c => call'[d] = call[d])
        /\ call'[c].pc = "del" /\ call'[c].tab = t /\ call'[c].tabs = w.tabs \ {t}
        /\ call'[c].operator = o /\ call'[c].at = w.at
    BY <1>0, <1>1, <2>1, <2>2, GotoFacts
  <2>4. Claims(c)' \subseteq Claims(c)
    BY <2>2, <2>3 DEF Claims
  <2>5. redis' \in [Tabs -> RedisEntry] /\ \A s \in Tabs : redis'[s].hash = redis[s].hash
    BY <1>1, <2>1, <2>2 DEF RedisEntry
  <2>6. PresenceTypeOK' /\ \A x \in Operators : beaten'[x] \in {beaten[x]} \cup (IF x = o THEN {Never} ELSE {})
    BY <1>0, <1>1, <2>1, <2>2, <2>3, <2>5 DEF PresenceTypeOK
  <2>7. CallOK(c)'
    BY <1>0, <1>2, <2>2, <2>3 DEF CallOK
  <2> QED
    BY <2>2, <2>3, <2>4, <2>5, <2>6, <2>7, CallMoves
<1>9. ASSUME Del(c)
      PROVE  CallsKept'
  <2>1. /\ w.pc = "del" /\ UNCHANGED <<time, rows, beaten, via, doubt>>
        /\ redis' = [redis EXCEPT ![w.tab].hash = Never, ![w.tab].expires = FALSE]
    BY <1>9 DEF Del
  <2>2. w.tab \in Tabs
    BY <1>0, <2>1 DEF CallOK
  <2>3. redis' \in [Tabs -> RedisEntry] /\ \A s \in Tabs : redis'[s].hash \in {Never, redis[s].hash}
    BY <1>1, <2>1, <2>2 DEF RedisEntry
  <2>4. CASE w.tabs = {}
    <3>1. /\ call' \in [Callers -> Call] /\ (\A d \in Callers : d # c => call'[d] = call[d])
          /\ call'[c] = NoCall
      BY <1>1, <1>9, <2>4, NoCallType DEF Del, Done
    <3>2. Claims(c)' = {} /\ CallOK(c)'
      BY <1>0, <1>1, <2>1, <3>1, NoCallType, TimeRange DEF CallOK, Claims, PresenceTypeOK
    <3>3. PresenceTypeOK'
      BY <1>0, <2>1, <2>3, <3>1 DEF PresenceTypeOK
    <3> QED
      BY <2>1, <2>3, <3>1, <3>2, <3>3, NoCallType, CallMoves
  <2>5. CASE w.tabs # {}
    <3>1. Goto(c, "zrem", Never, w.tabs)
      BY <1>9, <2>5 DEF Del
    <3>2. /\ call' \in [Callers -> Call] /\ (\A d \in Callers : d # c => call'[d] = call[d])
          /\ call'[c].pc = "zrem" /\ call'[c].tab = Never /\ call'[c].tabs = w.tabs
          /\ call'[c].operator = o /\ call'[c].at = w.at
      BY <1>0, <1>1, <3>1, GotoFacts
    <3>3. Claims(c)' \subseteq Claims(c)
      BY <2>1, <3>2 DEF Claims
    <3>4. PresenceTypeOK'
      BY <1>0, <2>1, <2>3, <3>2 DEF PresenceTypeOK
    <3>5. CallOK(c)'
      BY <1>0, <1>2, <2>1, <3>2 DEF CallOK
    <3> QED
      BY <2>1, <2>3, <3>2, <3>3, <3>4, <3>5, CallMoves
  <2> QED
    BY <2>4, <2>5
<1> QED
  BY <1>3, <1>4, <1>5, <1>6, <1>7, <1>8, <1>9

\* The steps of a call at the table.
LEMMA TableMoves ==
    ASSUME CallsKept, NEW c \in Callers,
           LoadRow(c) \/ LoadRows(c) \/ CommitBeat(c) \/ CommitLeave(c) \/ FailCall(c)
    PROVE  CallsKept'
<1> DEFINE w == call[c]
           o == call[c].operator
<1>0. PresenceTypeOK /\ CallOK(c) /\ RowsKept
  BY DEF CallsKept
<1>1. /\ call \in [Callers -> Call] /\ w \in Call /\ rows \in [Tabs -> SessionRow]
      /\ beaten \in [Operators -> Time \cup {Never}] /\ w.tab \in Tabs \cup {Never}
      /\ w.tabs \in SUBSET Tabs /\ w.at \in Time
  BY <1>0 DEF PresenceTypeOK, Call
<1>2. /\ w.pc \in {"db", "commit"} /\ o \in Operators /\ UNCHANGED <<time, redis, via, doubt>>
  <2>1. w.pc \in {"db", "commit"} /\ UNCHANGED <<time, redis, via, doubt>>
    BY DEF LoadRow, LoadRows, CommitBeat, CommitLeave, FailCall
  <2> QED
    BY <1>0, <2>1 DEF CallOK
<1>3. ASSUME NEW tab \in Tabs \cup {Never}, NEW tabs \in SUBSET Tabs, NEW active \in BOOLEAN,
             call' = [call EXCEPT ![c] = [w EXCEPT !.pc = "commit", !.tab = tab, !.tabs = tabs, !.active = active]],
             UNCHANGED <<rows, beaten>>,
             \A t \in Tabs : t = tab \/ t \in tabs => rows[t].operator = o
      PROVE  CallsKept'
  <2> DEFINE new == [w EXCEPT !.pc = "commit", !.tab = tab, !.tabs = tabs, !.active = active]
  <2>1. new \in Call /\ new.pc = "commit" /\ new.tab = tab /\ new.tabs = tabs /\ new.operator = o /\ new.at = w.at
    BY <1>1 DEF Call
  <2>2. call' = [call EXCEPT ![c] = new]
    BY <1>3
  <2> HIDE DEF new
  <2>3. /\ call' \in [Callers -> Call] /\ (\A d \in Callers : d # c => call'[d] = call[d])
        /\ call'[c] = new
    BY <1>1, <2>1, <2>2
  <2>4. PresenceTypeOK'
    BY <1>0, <1>2, <1>3, <2>3 DEF PresenceTypeOK
  <2>5. CallOK(c)' /\ Claims(c)' = {}
    BY <1>0, <1>2, <2>1, <2>3 DEF CallOK, Claims
  <2> QED
    BY <1>2, <1>3, <2>1, <2>3, <2>4, <2>5, CallMoves
<1>4. ASSUME call' = [call EXCEPT ![c] = NoCall], rows' \in [Tabs -> SessionRow],
             \A t \in Tabs : rows[t].operator # Never => rows'[t].operator = rows[t].operator,
             \/ beaten' = beaten
             \/ beaten' = [beaten EXCEPT ![o] = w.at]
             \/ beaten' = [beaten EXCEPT ![o] = Never]
      PROVE  CallsKept'
  <2>1. /\ call' \in [Callers -> Call] /\ (\A d \in Callers : d # c => call'[d] = call[d])
        /\ call'[c] = NoCall
    BY <1>1, <1>4, NoCallType
  <2>2. Claims(c)' = {} /\ CallOK(c)'
    BY <1>0, <1>2, <2>1, NoCallType, TimeRange DEF CallOK, Claims, PresenceTypeOK
  <2>3. /\ beaten' \in [Operators -> Time \cup {Never}]
        /\ \A x \in Operators : beaten'[x] = beaten[x] \/ (x = o /\ beaten'[x] \in {Never, w.at})
    BY <1>1, <1>2, <1>4
  <2>4. PresenceTypeOK'
    BY <1>0, <1>2, <1>4, <2>1, <2>3 DEF PresenceTypeOK
  <2> QED
    BY <1>2, <1>4, <2>1, <2>2, <2>3, <2>4, NoCallType, CallMoves
<1>5. ASSUME LoadRow(c)
      PROVE  CallsKept'
  <2>1. UNCHANGED <<rows, beaten>>
    BY <1>5 DEF LoadRow
  <2>2. ASSUME NEW t \in RowsOf(o),
               call' = [call EXCEPT ![c].pc = "commit", ![c].tab = t, ![c].active = rows[t].active],
               w.tabs = {}
        PROVE  CallsKept'
    <3>1. t \in Tabs /\ rows[t].operator = o /\ rows[t].active \in BOOLEAN
      BY <1>1 DEF RowsOf, SessionRow
    <3> DEFINE none == {}
               active == rows[t].active
    <3>2. call' = [call EXCEPT ![c] = [w EXCEPT !.pc = "commit", !.tab = t, !.tabs = none, !.active = active]]
      BY <1>1, <2>2 DEF Call
    <3>3. none \in SUBSET Tabs /\ t \in Tabs \cup {Never} /\ active \in BOOLEAN
      BY <3>1
    <3>4. \A s \in Tabs : s = t \/ s \in none => rows[s].operator = o
      BY <3>1
    <3> HIDE DEF none, active
    <3> QED
      BY <1>3, <2>1, <3>2, <3>3, <3>4
  <2>3. ASSUME Goto(c, "commit", Never, {})
        PROVE  CallsKept'
    <3> DEFINE none == {}
               active == w.active
    <3>1. call' = [call EXCEPT ![c] = [w EXCEPT !.pc = "commit", !.tab = Never, !.tabs = none, !.active = active]]
      BY <1>1, <2>3 DEF Goto, Call
    <3>2. none \in SUBSET Tabs /\ Never \in Tabs \cup {Never} /\ active \in BOOLEAN
      BY <1>1 DEF Call
    <3>3. \A s \in Tabs : s = Never \/ s \in none => rows[s].operator = o
      BY TimeRange
    <3> HIDE DEF none, active
    <3> QED
      BY <1>3, <2>1, <3>1, <3>2, <3>3
  <2>4. w.tabs = {}
    BY <1>0, <1>5 DEF LoadRow, CallOK
  <2> QED
    BY <1>5, <2>2, <2>3, <2>4 DEF LoadRow
<1>6. ASSUME LoadRows(c)
      PROVE  CallsKept'
  <2> DEFINE tabs == {t \in RowsOf(o) : rows[t].active}
  <2>1. UNCHANGED <<rows, beaten>> /\ Goto(c, "commit", Never, tabs)
    BY <1>6 DEF LoadRows
  <2>2. tabs \in SUBSET Tabs /\ (\A t \in tabs : rows[t].operator = o) /\ w.active \in BOOLEAN
    BY <1>1 DEF RowsOf, Call
  <2> HIDE DEF tabs
  <2>3. call' = [call EXCEPT ![c] = [w EXCEPT !.pc = "commit", !.tab = Never, !.tabs = tabs, !.active = w.active]]
    BY <1>1, <2>1 DEF Goto, Call
  <2> QED
    BY <1>3, <2>1, <2>2, <2>3, TimeRange
<1>7. ASSUME CommitBeat(c)
      PROVE  CallsKept'
  <2>1. call' = [call EXCEPT ![c] = NoCall] /\ beaten' = [beaten EXCEPT ![o] = w.at]
    BY <1>7 DEF CommitBeat, Counts, Done
  <2>2. CASE /\ w.tab # Never
             /\ rows' = [rows EXCEPT ![w.tab].seen = w.at, ![w.tab].active = @ \/ ~ w.active]
    <3>1. PICK b \in BOOLEAN : b = (rows[w.tab].active \/ ~ w.active)
      OBVIOUS
    <3>2. w.tab \in Tabs /\ rows[w.tab] \in SessionRow
      BY <1>1, <2>2
    <3>3. rows' = [rows EXCEPT ![w.tab] = [rows[w.tab] EXCEPT !.seen = w.at, !.active = b]]
      BY <1>1, <2>2, <3>1, <3>2
    <3>4. /\ [rows[w.tab] EXCEPT !.seen = w.at, !.active = b] \in SessionRow
          /\ [rows[w.tab] EXCEPT !.seen = w.at, !.active = b].operator = rows[w.tab].operator
      BY <1>1, <3>2 DEF SessionRow
    <3>5. rows' \in [Tabs -> SessionRow] /\ \A t \in Tabs : rows'[t].operator = rows[t].operator
      BY <1>1, <3>2, <3>3, <3>4
    <3> QED
      BY <1>4, <2>1, <3>5
  <2>3. ASSUME NEW t \in Tabs, rows[t].operator = Never,
               rows' = [rows EXCEPT ![t] = [operator |-> o, active |-> TRUE, seen |-> w.at]]
        PROVE  CallsKept'
    <3>1. rows' \in [Tabs -> SessionRow] /\ \A s \in Tabs : s # t => rows'[s] = rows[s]
      BY <1>1, <1>2, <2>3 DEF SessionRow
    <3> QED
      BY <1>4, <2>1, <2>3, <3>1
  <2> QED
    BY <1>7, <2>2, <2>3 DEF CommitBeat
<1>8. ASSUME CommitLeave(c)
      PROVE  CallsKept'
  <2>1. /\ call' = [call EXCEPT ![c] = NoCall] /\ beaten' = [beaten EXCEPT ![o] = Never]
        /\ rows' = [t \in Tabs |-> IF t \in w.tabs THEN [rows[t] EXCEPT !.active = FALSE] ELSE rows[t]]
    BY <1>8 DEF CommitLeave, Counts, Done
  <2>2. \A t \in Tabs : /\ [rows[t] EXCEPT !.active = FALSE] \in SessionRow
                        /\ [rows[t] EXCEPT !.active = FALSE].operator = rows[t].operator
    BY <1>1 DEF SessionRow
  <2>3. rows' \in [Tabs -> SessionRow] /\ \A t \in Tabs : rows'[t].operator = rows[t].operator
    BY <1>1, <2>1, <2>2
  <2> QED
    BY <1>4, <2>1, <2>3
<1>9. ASSUME FailCall(c)
      PROVE  CallsKept'
  BY <1>1, <1>4, <1>9 DEF FailCall, Done
<1> QED
  BY <1>5, <1>6, <1>7, <1>8, <1>9

\* A hash that expires under a call is its operator's.
LEMMA ExpireFacts ==
    ASSUME CallsKept, NEW t \in Tabs, ExpireHash(t)
    PROVE  /\ redis' \in [Tabs -> RedisEntry] /\ redis'[t].hash = Never /\ redis'[t].score = redis[t].score
           /\ \A s \in Tabs : s # t => redis'[s] = redis[s]
           /\ \A c \in Callers : /\ call[c].pc \in {"hset", "zadd", "expire", "del"} /\ call[c].tab = t
                                 => call[c].operator \in doubt'
           /\ Scored(t) => /\ redis[t].hash \in doubt' \cup {Never}
                           /\ \A c \in Callers : t \in Claims(c) => call[c].operator \in doubt'
           /\ doubt' = doubt \/ \E o \in Operators : doubt' = doubt \cup {o}
           /\ doubt \subseteq doubt'
<1> DEFINE under == {c \in Callers : call[c].pc \in {"hset", "zadd", "expire", "del"} /\ call[c].tab = t}
<1>0. PresenceTypeOK /\ (\A c \in Callers : CallOK(c)) /\ ClaimsKept
  BY DEF CallsKept
<1>1. /\ redis \in [Tabs -> RedisEntry]
      /\ redis' = [redis EXCEPT ![t] = [redis[t] EXCEPT !.hash = Never, !.expires = FALSE]]
      /\ doubt' = doubt \cup {call[c].operator : c \in under}
      /\ Scored(t) => \E c \in under : call[c].pc = "expire"
  BY <1>0 DEF ExpireHash, PresenceTypeOK
<1>2. /\ [redis[t] EXCEPT !.hash = Never, !.expires = FALSE] \in RedisEntry
      /\ [redis[t] EXCEPT !.hash = Never, !.expires = FALSE].hash = Never
      /\ [redis[t] EXCEPT !.hash = Never, !.expires = FALSE].score = redis[t].score
  BY <1>1 DEF RedisEntry
<1>3. \A c \in under : t \in Claims(c) /\ call[c].operator \in Operators
  BY <1>0, TimeRange DEF Claims, CallOK
<1>4. \A c, d \in Callers : t \in Claims(c) /\ t \in Claims(d) => call[c].operator = call[d].operator
  BY <1>0 DEF ClaimsKept
<1>5. /\ \A c \in under : call[c].operator \in doubt'
      /\ doubt \subseteq doubt'
  BY <1>1
<1>6. Scored(t) => /\ redis[t].hash \in doubt' \cup {Never}
                   /\ \A c \in Callers : t \in Claims(c) => call[c].operator \in doubt'
  <2> SUFFICES ASSUME NEW d \in under, Scored(t)
               PROVE  /\ redis[t].hash \in doubt' \cup {Never}
                      /\ \A c \in Callers : t \in Claims(c) => call[c].operator \in doubt'
    BY <1>1
  <2>1. redis[t].hash \in {Never, call[d].operator}
    BY <1>0, <1>3 DEF ClaimsKept
  <2> QED
    BY <1>3, <1>4, <1>5, <2>1
<1>7. doubt' = doubt \/ \E o \in Operators : doubt' = doubt \cup {o}
  <2>1. CASE under = {}
    <3>1. {call[c].operator : c \in under} = {}
      BY <2>1
    <3> HIDE DEF under
    <3> QED
      BY <1>1, <3>1
  <2>2. ASSUME NEW d \in under
        PROVE  \E o \in Operators : doubt' = doubt \cup {o}
    <3>1. \A c \in under : call[c].operator = call[d].operator
      BY <1>3, <1>4
    <3>2. {call[c].operator : c \in under} = {call[d].operator}
      BY <3>1
    <3>3. call[d].operator \in Operators
      BY <1>3
    <3> HIDE DEF under
    <3> QED
      BY <1>1, <3>2, <3>3
  <2> QED
    BY <2>1, <2>2
<1> QED
  BY <1>1, <1>2, <1>5, <1>6, <1>7

\* The steps that are no call's.
LEMMA OtherMoves ==
    ASSUME CallsKept, PassTime \/ (\E t \in Tabs : ExpireHash(t)) \/ \E o \in Operators : Quiet(o)
    PROVE  CallsKept'
<1>0. /\ PresenceTypeOK /\ (\A d \in Callers : CallOK(d)) /\ ClaimsKept /\ RowsKept /\ ViaKept
      /\ AloneKept /\ BeatenKept
  BY DEF CallsKept
<1>1. CASE PassTime
  <2>1. UNCHANGED <<redis, rows, call, beaten, via, doubt>> /\ time' \in Time /\ time < time' /\ time \in Nat
    BY <1>0, <1>1, TimeRange DEF PassTime, Time, PresenceTypeOK
  <2>2. PresenceTypeOK'
    BY <1>0, <2>1 DEF PresenceTypeOK
  <2>3. \A d \in Callers : CallOK(d)' /\ Claims(d)' = Claims(d)
    <3>1. \A d \in Callers : call[d].at \in Nat
      BY <1>0, TimeRange DEF PresenceTypeOK, Call
    <3> QED
      BY <1>0, <2>1, <3>1, TimeRange DEF CallOK, Claims, Time
  <2>4. ClaimsKept' /\ RowsKept' /\ ViaKept'
    BY <1>0, <2>1, <2>3 DEF ClaimsKept, RowsKept, ViaKept
  <2>5. AloneKept'
    BY <1>0, <2>1 DEF AloneKept, CallsOf
  <2>6. BeatenKept'
    <3>1. \A o \in Operators : beaten[o] # Never => beaten[o] \in Nat
      BY <1>0, TimeRange DEF PresenceTypeOK
    <3> QED
      BY <1>0, <2>1, <3>1, TimeRange DEF BeatenKept, Time
  <2> QED
    BY <2>2, <2>3, <2>4, <2>5, <2>6 DEF CallsKept
<1>2. ASSUME NEW t \in Tabs, ExpireHash(t)
      PROVE  CallsKept'
  <2>1. /\ UNCHANGED <<time, rows, call, beaten, via>>
        /\ redis' \in [Tabs -> RedisEntry] /\ redis'[t].hash = Never
        /\ \A s \in Tabs : s # t => redis'[s] = redis[s]
        /\ doubt \subseteq doubt' /\ doubt' \subseteq Operators
    <3>1. UNCHANGED <<time, rows, call, beaten, via>>
      BY <1>2 DEF ExpireHash
    <3>2. doubt' \subseteq Operators
      BY <1>0, <1>2, ExpireFacts DEF PresenceTypeOK
    <3> QED
      BY <1>2, <3>1, <3>2, ExpireFacts
  <2>2. PresenceTypeOK'
    BY <1>0, <2>1 DEF PresenceTypeOK
  <2>3. \A d \in Callers : CallOK(d)' /\ Claims(d)' = Claims(d) /\ Claims(d) \subseteq Tabs
    BY <1>0, <2>1 DEF CallOK, Claims, PresenceTypeOK, Call
  <2>4. ClaimsKept'
    BY <1>0, <2>1, <2>3 DEF ClaimsKept
  <2>5. RowsKept' /\ ViaKept' /\ BeatenKept'
    BY <1>0, <2>1 DEF RowsKept, ViaKept, BeatenKept
  <2>6. AloneKept'
    BY <1>0, <2>1 DEF AloneKept, CallsOf
  <2> QED
    BY <2>2, <2>3, <2>4, <2>5, <2>6 DEF CallsKept
<1>3. ASSUME NEW o \in Operators, Quiet(o)
      PROVE  CallsKept'
  <2>1. /\ CallsOf(o) = {} /\ via' = [via EXCEPT ![o] = {}] /\ doubt' = doubt \ {o}
        /\ beaten' = [beaten EXCEPT ![o] = Never] /\ UNCHANGED <<time, redis, rows, call>>
    BY <1>3 DEF Quiet
  <2>2. /\ via' \in [Operators -> SUBSET {"redis", "db"}] /\ via'[o] = {}
        /\ beaten' \in [Operators -> Time \cup {Never}] /\ beaten'[o] = Never
        /\ \A x \in Operators : x # o => via'[x] = via[x] /\ beaten'[x] = beaten[x]
    BY <1>0, <2>1 DEF PresenceTypeOK
  <2>3. PresenceTypeOK'
    BY <1>0, <2>1, <2>2 DEF PresenceTypeOK
  <2>4. \A d \in Callers : CallOK(d)' /\ Claims(d)' = Claims(d)
    BY <1>0, <2>1 DEF CallOK, Claims
  <2>5. ClaimsKept' /\ RowsKept'
    BY <1>0, <2>1, <2>4 DEF ClaimsKept, RowsKept
  <2>6. \A d \in Callers : call[d].operator # o /\ (call[d].pc # "idle" => call[d].operator \in Operators)
    BY <1>0, <2>1 DEF CallsOf, CallOK
  <2>7. ViaKept'
    BY <1>0, <2>1, <2>2, <2>6 DEF ViaKept
  <2>8. AloneKept'
    BY <1>0, <2>1, <2>2 DEF AloneKept, CallsOf
  <2>9. BeatenKept'
    BY <1>0, <2>1, <2>2 DEF BeatenKept
  <2> QED
    BY <2>3, <2>4, <2>5, <2>7, <2>8, <2>9 DEF CallsKept
<1> QED
  BY <1>1, <1>2, <1>3

\* The calls of an operator keep to his ids, his rows and their store: every step of the
\* service preserves it.
LEMMA CallsKeptStep == CallsKept /\ [PresenceNext]_presenceVars => CallsKept'
<1> SUFFICES ASSUME CallsKept, [PresenceNext]_presenceVars PROVE CallsKept'
  OBVIOUS
<1>1. ASSUME NEW c \in Callers, NEW o \in Operators, Start(c, o)
      PROVE  CallsKept'
  <2>1. PICK op \in {"beat", "leave"}, store \in {"redis", "db"} :
           /\ call' = [call EXCEPT ![c] = [NoCall EXCEPT !.pc = store, !.op = op, !.operator = o, !.at = time]]
           /\ Uses(o, store)
    BY <1>1 DEF Start
  <2>2. call[c].pc = "idle" /\ UNCHANGED <<time, redis, rows, beaten>>
    BY <1>1 DEF Start
  <2> QED
    BY <2>1, <2>2, CallEnters
<1>2. ASSUME NEW c \in Callers, FallBack(c)
      PROVE  CallsKept'
  <2> DEFINE o == call[c].operator
             op == call[c].op
  <2>1. o \in Operators /\ op \in {"beat", "leave"}
    BY <1>2 DEF CallsKept, CallOK, FallBack, PresenceTypeOK, Call
  <2>2. /\ call[c].operator = o
        /\ call' = [call EXCEPT ![c] = [NoCall EXCEPT !.pc = "db", !.op = op, !.operator = o, !.at = time]]
        /\ Uses(o, "db") /\ UNCHANGED <<time, redis, rows, beaten>>
    BY <1>2 DEF FallBack
  <2> HIDE DEF o, op
  <2> QED
    BY <2>1, <2>2, CallEnters
<1>3. CASE UNCHANGED presenceVars
  BY <1>3 DEF presenceVars, CallsKept, PresenceTypeOK, CallOK, ClaimsKept, Claims, RowsKept, ViaKept,
              AloneKept, CallsOf, BeatenKept
<1> QED
  BY <1>1, <1>2, <1>3, RedisMoves, TableMoves, OtherMoves DEF PresenceNext
-----------------------------------------------------------------------------
(* What a store lists.                                                     *)

\* A call of Redis: the id it beats at is its operator's, or not in the set; the ids it
\* leaves by are all he has there, as it read them.
RedisCallOK(c) ==
    LET o == call[c].operator IN
    /\ call[c].pc = "hset" => redis[call[c].tab].hash = o \/ redis[call[c].tab].score = Never
    /\ call[c].pc = "zadd" => redis[call[c].tab].hash = o
    /\ call[c].pc \in {"zrem", "del"} =>
          /\ RedisTabs(o) \subseteq call[c].tabs
          /\ \A t \in call[c].tabs : /\ redis[t].score = call[c].scores[t] /\ redis[t].score # Never
                                     /\ Scored(t) => redis[t].hash = o

\* Redis lists an operator it serves by his last heartbeat, and nobody else.
RedisKept(o) ==
    /\ "redis" \in via[o] =>
          /\ \A t \in RedisTabs(o) : Scored(t) => beaten[o] # Never /\ redis[t].score <= beaten[o]
          /\ beaten[o] # Never /\ time <= beaten[o] + Window => \E t \in RedisTabs(o) : redis[t].score = beaten[o]
          /\ \A c \in CallsOf(o) : RedisCallOK(c)
    /\ "redis" \notin via[o] => ~ ListedByRedis(o)

\* A call of the table: the row it beats at is as it read it, the rows it leaves by are all
\* that are active.
TableCallOK(c) ==
    call[c].pc = "commit" =>
       IF call[c].op = "beat"
       THEN call[c].tab # Never => call[c].active = rows[call[c].tab].active
       ELSE \A t \in RowsOf(call[c].operator) : rows[t].active => t \in call[c].tabs

TableKept(o) ==
    /\ "db" \in via[o] =>
          /\ \A t \in RowsOf(o) : rows[t].active /\ time <= rows[t].seen + Window
                                  => beaten[o] # Never /\ rows[t].seen <= beaten[o]
          /\ beaten[o] # Never /\ time <= beaten[o] + Window
                => \E t \in RowsOf(o) : rows[t].active /\ rows[t].seen = beaten[o]
          /\ \A c \in CallsOf(o) : TableCallOK(c)
    /\ "db" \notin via[o] => ~ ListedByDb(o)

ListingKept == CallsKept /\ \A o \in Operators \ doubt : RedisKept(o) /\ TableKept(o)

LEMMA ClaimsInTabs == CallsKept => \A d \in Callers : Claims(d) \subseteq Tabs
  BY DEF CallsKept, PresenceTypeOK, Claims, Call

\* A step that leaves what an operator has in Redis alone.
LEMMA RedisFrame ==
    ASSUME CallsKept, NEW x \in Operators, RedisKept(x), UNCHANGED time,
           \A d \in CallsOf(x)' : \/ d \in CallsOf(x) /\ call'[d] = call[d]
                                  \/ call'[d].pc \notin {"hset", "zadd", "zrem", "del"},
           "redis" \in via'[x] => beaten'[x] = beaten[x] /\ ("redis" \in via[x] \/ beaten[x] = Never),
           "redis" \notin via'[x] => "redis" \notin via[x],
           \A t \in Tabs : \/ redis'[t] = redis[t]
                           \/ /\ redis[t].hash # x /\ redis'[t].hash # x
                              /\ \A d \in CallsOf(x) : t \notin Claims(d)
    PROVE  RedisKept(x)'
<1>1. /\ RedisTabs(x)' = RedisTabs(x)
      /\ \A t \in RedisTabs(x) : redis'[t] = redis[t] /\ (Scored(t)' <=> Scored(t))
  BY DEF RedisTabs, Scored
<1>2. ListedByRedis(x)' <=> ListedByRedis(x)
  BY <1>1 DEF ListedByRedis
<1>3. CASE "redis" \notin via'[x]
  BY <1>2, <1>3 DEF RedisKept
<1>4. ASSUME "redis" \in via'[x]
      PROVE  /\ \A t \in RedisTabs(x)' : Scored(t)' => beaten'[x] # Never /\ redis'[t].score <= beaten'[x]
             /\ beaten'[x] # Never /\ time' <= beaten'[x] + Window
                   => \E t \in RedisTabs(x)' : redis'[t].score = beaten'[x]
  BY <1>1, <1>4 DEF RedisKept, ListedByRedis
<1>5. ASSUME "redis" \in via'[x], NEW d \in CallsOf(x)'
      PROVE  RedisCallOK(d)'
  <2>1. CASE call'[d].pc \notin {"hset", "zadd", "zrem", "del"}
    BY <2>1 DEF RedisCallOK
  <2>2. CASE d \in CallsOf(x) /\ call'[d] = call[d] /\ call[d].pc \in {"hset", "zadd", "zrem", "del"}
    <3>1. d \in Callers /\ call[d].operator = x /\ call'[d].operator = x
      BY <2>2 DEF CallsOf
    <3>2. RedisCallOK(d)
      BY <2>2, <3>1 DEF RedisKept, CallsKept, ViaKept
    <3>3. Claims(d) \subseteq Tabs
      BY <3>1, ClaimsInTabs
    <3>4. \A t \in Claims(d) : redis'[t] = redis[t] /\ (Scored(t)' <=> Scored(t))
      BY <2>2, <3>3 DEF Scored
    <3>5. /\ call[d].pc \in {"hset", "zadd"} => call[d].tab \in Claims(d)
          /\ call[d].pc \in {"zrem", "del"} => call[d].tabs \subseteq Claims(d)
      BY <3>1, TimeRange DEF CallsKept, CallOK, Claims
    <3> QED
      BY <1>1, <2>2, <3>1, <3>2, <3>4, <3>5 DEF RedisCallOK
  <2> QED
    BY <1>5, <2>1, <2>2
<1> QED
  BY <1>3, <1>4, <1>5 DEF RedisKept

\* A step that leaves an operator's rows alone.
LEMMA TableFrame ==
    ASSUME CallsKept, NEW x \in Operators, TableKept(x), UNCHANGED time,
           \A d \in CallsOf(x)' : (d \in CallsOf(x) /\ call'[d] = call[d]) \/ call'[d].pc # "commit",
           "db" \in via'[x] => beaten'[x] = beaten[x] /\ ("db" \in via[x] \/ beaten[x] = Never),
           "db" \notin via'[x] => "db" \notin via[x],
           \A t \in Tabs : rows'[t] = rows[t] \/ (rows[t].operator # x /\ rows'[t].operator # x)
    PROVE  TableKept(x)'
<1>1. /\ RowsOf(x)' = RowsOf(x)
      /\ \A t \in RowsOf(x) : rows'[t] = rows[t]
  BY DEF RowsOf
<1>2. ListedByDb(x)' <=> ListedByDb(x)
  BY <1>1 DEF ListedByDb
<1>3. CASE "db" \notin via'[x]
  BY <1>2, <1>3 DEF TableKept
<1>4. ASSUME "db" \in via'[x]
      PROVE  /\ \A t \in RowsOf(x)' : rows'[t].active /\ time' <= rows'[t].seen + Window
                                      => beaten'[x] # Never /\ rows'[t].seen <= beaten'[x]
             /\ beaten'[x] # Never /\ time' <= beaten'[x] + Window
                   => \E t \in RowsOf(x)' : rows'[t].active /\ rows'[t].seen = beaten'[x]
  BY <1>1, <1>4 DEF TableKept, ListedByDb
<1>5. ASSUME "db" \in via'[x], NEW d \in CallsOf(x)'
      PROVE  TableCallOK(d)'
  <2>1. CASE call'[d].pc # "commit"
    BY <2>1 DEF TableCallOK
  <2>2. CASE d \in CallsOf(x) /\ call'[d] = call[d] /\ call[d].pc = "commit"
    <3>1. d \in Callers /\ call[d].operator = x /\ call'[d].operator = x
      BY <2>2 DEF CallsOf
    <3>2. TableCallOK(d)
      BY <2>2, <3>1 DEF TableKept, CallsKept, ViaKept
    <3>3. call[d].tab # Never => call[d].tab \in RowsOf(x)
      BY <2>2, <3>1 DEF CallsKept, RowsKept, RowsOf, PresenceTypeOK, Call
    <3> QED
      BY <1>1, <2>2, <3>1, <3>2, <3>3 DEF TableCallOK
  <2> QED
    BY <1>5, <2>1, <2>2
<1> QED
  BY <1>3, <1>4, <1>5 DEF TableKept

\* What a step of a call at Redis changes.
LEMMA RedisEffect ==
    ASSUME CallsKept, NEW c \in Callers,
           \/ ScanForBeat(c) \/ Hset(c) \/ Zadd(c) \/ Renew(c)
           \/ ScanForLeave(c) \/ Zrem(c) \/ Del(c)
    PROVE  /\ UNCHANGED <<time, rows, via, doubt>>
           /\ call[c].pc \in {"redis", "hset", "zadd", "expire", "zrem", "del"}
           /\ call[c].operator \in Operators
           /\ \A d \in Callers : d # c => call'[d] = call[d]
           /\ call'[c].operator \in {call[c].operator, Never}
           /\ call'[c].pc # "commit"
           /\ \A x \in Operators : x # call[c].operator => beaten'[x] = beaten[x]
           /\ \A t \in Tabs : \/ redis'[t] = redis[t]
                              \/ t \in Claims(c) /\ redis'[t].hash \in {redis[t].hash, Never, call[c].operator}
<1> DEFINE w == call[c]
           o == call[c].operator
<1>0. PresenceTypeOK /\ CallOK(c)
  BY DEF CallsKept
<1>1. /\ call \in [Callers -> Call] /\ w \in Call /\ redis \in [Tabs -> RedisEntry]
      /\ beaten \in [Operators -> Time \cup {Never}]
  BY <1>0 DEF PresenceTypeOK
<1>2. /\ w.pc \in {"redis", "hset", "zadd", "expire", "zrem", "del"}
      /\ UNCHANGED <<time, rows, via, doubt>>
  BY DEF ScanForBeat, Hset, Zadd, Renew, ScanForLeave, Zrem, Del
<1>3. o \in Operators
  BY <1>0, <1>2 DEF CallOK
<1>4. /\ \A d \in Callers : d # c => call'[d] = call[d]
      /\ call'[c].operator \in {o, Never} /\ call'[c].pc # "commit"
  <2>1. ASSUME NEW pc \in {"idle", "hset", "zadd", "expire", "zrem", "del"}, NEW tab, NEW tabs, Goto(c, pc, tab, tabs)
        PROVE  /\ \A d \in Callers : d # c => call'[d] = call[d]
               /\ call'[c].operator \in {o, Never} /\ call'[c].pc # "commit"
    <3> DEFINE new == [w EXCEPT !.pc = pc, !.tab = tab, !.tabs = tabs]
    <3>1. call' = [call EXCEPT ![c] = new]
      BY <2>1 DEF Goto
    <3>2. new.operator = o /\ new.pc = pc
      BY <1>1 DEF Call
    <3> HIDE DEF new
    <3> QED
      BY <1>1, <3>1, <3>2
  <2>2. ASSUME Done(c)
        PROVE  /\ \A d \in Callers : d # c => call'[d] = call[d]
               /\ call'[c].operator \in {o, Never} /\ call'[c].pc # "commit"
    BY <1>1, <2>2, NoCallType DEF Done
  <2>3. ASSUME NEW tabs, NEW scores,
               call' = [call EXCEPT ![c].pc = "zrem", ![c].tabs = tabs, ![c].scores = scores]
        PROVE  /\ \A d \in Callers : d # c => call'[d] = call[d]
               /\ call'[c].operator \in {o, Never} /\ call'[c].pc # "commit"
    <3> DEFINE new == [w EXCEPT !.pc = "zrem", !.tabs = tabs, !.scores = scores]
    <3>1. call' = [call EXCEPT ![c] = new]
      BY <2>3
    <3>2. new.operator = o /\ new.pc = "zrem"
      BY <1>1 DEF Call
    <3> HIDE DEF new
    <3> QED
      BY <1>1, <3>1, <3>2
  <2>4. CASE ScanForBeat(c)
    <3> DEFINE none == {}
    <3>1. PICK t \in Tabs : Goto(c, "hset", t, none)
      BY <2>4 DEF ScanForBeat
    <3> HIDE DEF none
    <3> QED
      BY <2>1, <3>1
  <2>5. CASE ScanForLeave(c)
    <3> DEFINE mine == RedisTabs(o)
               scores == [t \in Tabs |-> IF t \in mine THEN redis[t].score ELSE Never]
    <3>1. Done(c) \/ call' = [call EXCEPT ![c].pc = "zrem", ![c].tabs = mine, ![c].scores = scores]
      BY <2>5 DEF ScanForLeave
    <3> HIDE DEF mine, scores
    <3> QED
      BY <2>2, <2>3, <3>1
  <2>6. CASE Hset(c) \/ Zadd(c) \/ Renew(c)
    BY <2>1, <2>2, <2>6 DEF Hset, Zadd, Renew
  <2>7. CASE Zrem(c) \/ Del(c)
    BY <2>1, <2>2, <2>7 DEF Zrem, Del
  <2> QED
    BY <2>4, <2>5, <2>6, <2>7
<1>5. \A x \in Operators : x # o => beaten'[x] = beaten[x]
  BY <1>1 DEF ScanForBeat, Hset, Zadd, Renew, ScanForLeave, Zrem, Del, Counts
<1>6. \A t \in Tabs : \/ redis'[t] = redis[t]
                      \/ t \in Claims(c) /\ redis'[t].hash \in {redis[t].hash, Never, o}
  <2>1. CASE ScanForBeat(c) \/ ScanForLeave(c)
    BY <2>1 DEF ScanForBeat, ScanForLeave
  <2>2. CASE Hset(c) \/ Zadd(c) \/ Renew(c) \/ Del(c)
    <3>1. w.tab \in Claims(c)
      BY <1>0, <2>2, TimeRange DEF Hset, Zadd, Renew, Del, CallOK, Claims
    <3>2. \A t \in Tabs : t # w.tab => redis'[t] = redis[t]
      BY <1>1, <2>2 DEF Hset, Zadd, Renew, Del
    <3>3. w.tab \in Tabs => redis'[w.tab].hash \in {redis[w.tab].hash, Never, o}
      BY <1>1, <2>2 DEF Hset, Zadd, Renew, Del, RedisEntry
    <3> QED
      BY <3>1, <3>2, <3>3
  <2>3. CASE Zrem(c)
    <3>1. PICK t \in w.tabs : redis' = [redis EXCEPT ![t].score = Never]
      BY <2>3 DEF Zrem
    <3>2. t \in Claims(c)
      BY <2>3 DEF Zrem, Claims
    <3>3. \A s \in Tabs : s # t => redis'[s] = redis[s]
      BY <1>1, <3>1
    <3>4. t \in Tabs => redis'[t].hash = redis[t].hash
      BY <1>1, <3>1 DEF RedisEntry
    <3> QED
      BY <3>2, <3>3, <3>4
  <2> QED
    BY <2>1, <2>2, <2>3
<1> QED
  BY <1>2, <1>3, <1>4, <1>5, <1>6

\* A call of an operator nobody doubts keeps his ids in step with his last heartbeat.
LEMMA RedisOwn ==
    ASSUME CallsKept, NEW c \in Callers, RedisKept(call[c].operator), call[c].operator \notin doubt,
           \/ ScanForBeat(c) \/ Hset(c) \/ Zadd(c) \/ Renew(c)
           \/ ScanForLeave(c) \/ Zrem(c) \/ Del(c),
           NEW o \in Operators, o = call[c].operator
    PROVE  RedisKept(o)'
<1> DEFINE w == call[c]
<1>0. PresenceTypeOK /\ CallOK(c) /\ ClaimsKept
  BY DEF CallsKept
<1>1. /\ UNCHANGED <<time, rows, via, doubt>>
      /\ \A d \in Callers : d # c => call'[d] = call[d]
      /\ "redis" \in via[o]
  BY RedisEffect DEF CallsKept, ViaKept
<1>2. c \in CallsOf(o) /\ CallsOf(o)' \subseteq {c}
  <2>1. c \in CallsOf(o) /\ \A d \in CallsOf(o) : d = c
    BY DEF CallsOf, CallsKept, AloneKept
  <2>2. \A d \in CallsOf(o)' : d # c => d \in CallsOf(o)
    BY <1>1 DEF CallsOf
  <2> QED
    BY <2>1, <2>2
<1>3. /\ \A t \in RedisTabs(o) : Scored(t) => beaten[o] # Never /\ redis[t].score <= beaten[o]
      /\ beaten[o] # Never /\ time <= beaten[o] + Window => \E t \in RedisTabs(o) : redis[t].score = beaten[o]
      /\ RedisCallOK(c)
      /\ beaten[o] # Never => beaten[o] <= w.at
  BY <1>1, <1>2 DEF RedisKept, CallsKept, AloneKept
<1>4. /\ call \in [Callers -> Call] /\ w \in Call /\ redis \in [Tabs -> RedisEntry]
      /\ beaten \in [Operators -> Time \cup {Never}] /\ w.at \in Nat /\ time \in Nat /\ w.at <= time
      /\ w.at # Never /\ \A t \in Tabs : redis[t].score # Never => redis[t].score \in Nat
      /\ beaten[o] # Never => beaten[o] \in Nat
  <2>1. /\ call \in [Callers -> Call] /\ redis \in [Tabs -> RedisEntry] /\ time \in Time
        /\ beaten \in [Operators -> Time \cup {Never}] /\ w.at <= time
    BY <1>0 DEF PresenceTypeOK, CallOK
  <2>2. w \in Call /\ w.at \in Time /\ \A t \in Tabs : redis[t].score \in Time \cup {Never}
    BY <2>1 DEF Call, RedisEntry
  <2>3. beaten[o] \in Time \cup {Never}
    BY <2>1
  <2> QED
    BY <2>1, <2>2, <2>3, TimeRange
<1> DEFINE Goal ==
               /\ \A t \in RedisTabs(o)' : Scored(t)' => beaten'[o] # Never /\ redis'[t].score <= beaten'[o]
               /\ beaten'[o] # Never /\ time <= beaten'[o] + Window
                     => \E t \in RedisTabs(o)' : redis'[t].score = beaten'[o]
               /\ call'[c].operator = o => RedisCallOK(c)'
<1>5. SUFFICES Goal
  <2>1. \A d \in CallsOf(o)' : d = c /\ call'[c].operator = o
    BY <1>2 DEF CallsOf
  <2> QED
    BY <1>1, <2>1 DEF RedisKept
\* A step that leaves the ids and the last heartbeat has only the call to answer for.
<1>6. ASSUME RedisTabs(o)' = RedisTabs(o), \A t \in RedisTabs(o) : redis'[t].score = redis[t].score,
             beaten' = beaten, call'[c].operator = o => RedisCallOK(c)'
      PROVE  Goal
  BY <1>1, <1>3, <1>6 DEF Scored
<1>7. CASE ScanForBeat(c)
  <2> DEFINE none == {}
  <2>1. PICK t \in Tabs : /\ t \in RedisTabs(o) \/ redis[t] = NoEntry
                          /\ Goto(c, "hset", t, none)
    BY <1>7 DEF ScanForBeat
  <2>2. UNCHANGED <<redis, beaten>> /\ none \in SUBSET Tabs
    BY <1>7 DEF ScanForBeat
  <2> HIDE DEF none
  <2>3. call'[c].pc = "hset" /\ call'[c].tab = t /\ call'[c].operator = o
    BY <1>0, <2>1, <2>2, GotoFacts
  <2>4. redis[t].hash = o \/ redis[t].score = Never
    BY <2>1 DEF RedisTabs, NoEntry
  <2>5. RedisCallOK(c)'
    BY <2>2, <2>3, <2>4 DEF RedisCallOK
  <2>6. RedisTabs(o)' = RedisTabs(o) /\ \A s \in RedisTabs(o) : redis'[s].score = redis[s].score
    BY <2>2 DEF RedisTabs
  <2> QED
    BY <1>6, <2>2, <2>5, <2>6
<1>8. CASE Hset(c)
  <2> DEFINE none == {}
             t == w.tab
  <2>1. /\ w.pc = "hset" /\ redis' = [redis EXCEPT ![t] = [redis[t] EXCEPT !.hash = o]]
        /\ Goto(c, "zadd", t, none) /\ UNCHANGED beaten /\ none \in SUBSET Tabs
    BY <1>8 DEF Hset
  <2>2. t \in Tabs /\ (redis[t].hash = o \/ redis[t].score = Never)
    BY <1>0, <1>3, <2>1 DEF CallOK, RedisCallOK
  <2> HIDE DEF none, t
  <2>3. call'[c].pc = "zadd" /\ call'[c].tab = t /\ call'[c].operator = o
    BY <1>0, <2>1, <2>2, GotoFacts
  <2>4. /\ redis'[t].hash = o /\ redis'[t].score = redis[t].score
        /\ \A s \in Tabs : s # t => redis'[s] = redis[s]
    BY <1>4, <2>1, <2>2 DEF RedisEntry
  <2>5. RedisTabs(o)' = RedisTabs(o) /\ \A s \in RedisTabs(o) : redis'[s].score = redis[s].score
    BY <2>2, <2>4 DEF RedisTabs
  <2>6. RedisCallOK(c)'
    BY <2>3, <2>4 DEF RedisCallOK
  <2> QED
    BY <1>6, <2>1, <2>5, <2>6
<1>9. CASE Zadd(c)
  <2> DEFINE none == {}
             t == w.tab
  <2>1. /\ w.pc = "zadd" /\ redis' = [redis EXCEPT ![t] = [redis[t] EXCEPT !.score = w.at]]
        /\ Goto(c, "expire", t, none) /\ beaten' = [beaten EXCEPT ![o] = w.at] /\ none \in SUBSET Tabs
    BY <1>9 DEF Zadd, Counts
  <2>2. t \in Tabs /\ redis[t].hash = o
    BY <1>0, <1>3, <2>1 DEF CallOK, RedisCallOK
  <2> HIDE DEF none, t
  <2>3. call'[c].pc = "expire"
    BY <1>0, <2>1, <2>2, GotoFacts
  <2>4. /\ redis'[t].hash = o /\ redis'[t].score = w.at /\ beaten'[o] = w.at
        /\ \A s \in Tabs : s # t => redis'[s] = redis[s]
    BY <1>4, <2>1, <2>2 DEF RedisEntry
  <2>5. RedisTabs(o)' = RedisTabs(o) \cup {t}
    BY <1>4, <2>2, <2>4 DEF RedisTabs
  <2>6. ASSUME NEW s \in RedisTabs(o)', Scored(s)'
        PROVE  redis'[s].score <= w.at
    <3>1. CASE s = t
      BY <1>4, <2>4, <3>1
    <3>2. CASE s # t
      <4>1. s \in RedisTabs(o) /\ s \in Tabs /\ redis'[s] = redis[s]
        BY <2>4, <2>5, <3>2 DEF RedisTabs
      <4>2. Scored(s)
        BY <1>1, <2>6, <4>1 DEF Scored
      <4>3. redis[s].score \in Nat
        BY <1>4, <4>1 DEF RedisTabs
      <4> QED
        BY <1>3, <1>4, <4>1, <4>2, <4>3
    <3> QED
      BY <3>1, <3>2
  <2>7. RedisCallOK(c)'
    BY <2>3 DEF RedisCallOK
  <2> QED
    BY <1>4, <2>4, <2>5, <2>6, <2>7
<1>10. CASE Renew(c)
  <2>1. call'[c].operator = Never
    BY <1>4, <1>10, NoCallType DEF Renew, Done
  <2>2. \A s \in Tabs : redis'[s].hash = redis[s].hash /\ redis'[s].score = redis[s].score
    BY <1>4, <1>10 DEF Renew, RedisEntry
  <2>3. RedisTabs(o)' = RedisTabs(o) /\ \A s \in RedisTabs(o) : redis'[s].score = redis[s].score
    BY <2>2 DEF RedisTabs
  <2> QED
    BY <1>6, <1>10, <2>1, <2>3, TimeRange DEF Renew
<1>11. CASE ScanForLeave(c)
  <2> DEFINE mine == RedisTabs(o)
             scores == [t \in Tabs |-> IF t \in mine THEN redis[t].score ELSE Never]
  <2>1. UNCHANGED redis
    BY <1>11 DEF ScanForLeave
  <2>2. RedisTabs(o)' = RedisTabs(o) /\ \A s \in RedisTabs(o) : redis'[s].score = redis[s].score
    BY <2>1 DEF RedisTabs
  <2>3. CASE mine = {} /\ Done(c) /\ Counts(c, Never)
    <3>1. call'[c].operator = Never /\ beaten'[o] = Never
      BY <1>4, <2>3, NoCallType DEF Done, Counts
    <3> QED
      BY <2>2, <2>3, <3>1, TimeRange
  <2>4. CASE /\ call' = [call EXCEPT ![c].pc = "zrem", ![c].tabs = mine, ![c].scores = scores]
             /\ UNCHANGED beaten
    <3>1. /\ \A t \in mine : t \in Tabs /\ scores[t] = redis[t].score /\ redis[t].score # Never /\ redis[t].hash = o
          /\ RedisTabs(o) \subseteq mine
      BY DEF RedisTabs
    <3> HIDE DEF mine, scores
    <3> DEFINE new == [w EXCEPT !.pc = "zrem", !.tabs = mine, !.scores = scores]
    <3>2. call' = [call EXCEPT ![c] = new]
      BY <2>4
    <3>3. new.pc = "zrem" /\ new.tabs = mine /\ new.scores = scores /\ new.operator = o
      BY <1>4 DEF Call
    <3> HIDE DEF new
    <3>4. call'[c].pc = "zrem" /\ call'[c].tabs = mine /\ call'[c].scores = scores /\ call'[c].operator = o
      BY <1>4, <3>2, <3>3
    <3>5. RedisCallOK(c)'
      BY <2>1, <2>2, <3>1, <3>4 DEF RedisCallOK
    <3> QED
      BY <1>6, <2>2, <2>4, <3>5
  <2> QED
    BY <1>11, <2>3, <2>4 DEF ScanForLeave
<1>12. CASE Zrem(c)
  <2>1. PICK t \in w.tabs :
           /\ \A s \in w.tabs : w.scores[t] <= w.scores[s]
           /\ redis' = [redis EXCEPT ![t].score = Never]
           /\ Goto(c, "del", t, w.tabs \ {t})
           /\ IF \E s \in w.tabs \ {t} : Scored(s) THEN UNCHANGED beaten ELSE Counts(c, Never)
    BY <1>12 DEF Zrem
  <2>2. w.pc = "zrem" /\ w.tabs \in SUBSET Tabs /\ t \in Tabs
    BY <1>4, <1>12, <2>1 DEF Zrem, Call
  <2>3. /\ RedisTabs(o) \subseteq w.tabs
        /\ \A s \in w.tabs : /\ redis[s].score = w.scores[s] /\ redis[s].score # Never
                             /\ Scored(s) => redis[s].hash = o
    BY <1>3, <2>2 DEF RedisCallOK
  <2> DEFINE rest == w.tabs \ {t}
  <2>4. rest \in SUBSET Tabs /\ \A s \in rest : s \in w.tabs /\ s # t /\ s \in Tabs
    BY <2>2
  <2>5. /\ call'[c].pc = "del" /\ call'[c].tabs = rest
        /\ call'[c].operator = o /\ call'[c].scores = w.scores
    BY <1>0, <2>1, <2>2, <2>4, GotoFacts
  <2>6. /\ redis'[t].score = Never /\ \A s \in Tabs : s # t => redis'[s] = redis[s]
    BY <1>4, <2>1, <2>2 DEF RedisEntry
  <2>7. RedisTabs(o)' = RedisTabs(o) \ {t} /\ RedisTabs(o)' \subseteq rest
    BY <2>3, <2>6 DEF RedisTabs
  <2>8. \A s \in rest : redis'[s] = redis[s] /\ (Scored(s)' <=> Scored(s))
    BY <1>1, <2>4, <2>6 DEF Scored
  <2>9. RedisCallOK(c)'
    BY <2>3, <2>4, <2>5, <2>7, <2>8 DEF RedisCallOK
  <2>10. ASSUME NEW s \in rest, Scored(s), UNCHANGED beaten, beaten[o] # Never, time <= beaten[o] + Window
         PROVE  \E u \in RedisTabs(o)' : redis'[u].score = beaten[o]
    <3>1. PICK u \in RedisTabs(o) : redis[u].score = beaten[o]
      BY <1>3, <2>10
    <3>2. CASE u # t
      BY <2>7, <2>8, <3>1, <3>2
    <3>3. CASE u = t
      <4>1. s \in RedisTabs(o) /\ redis[s].score \in Nat /\ redis[t].score \in Nat
        BY <1>4, <2>2, <2>3, <2>4, <2>10 DEF RedisTabs
      <4>2. redis[t].score <= redis[s].score
        BY <2>1, <2>3, <2>4, <2>10
      <4>3. redis[s].score <= beaten[o]
        BY <1>3, <2>10, <4>1
      <4>4. redis[s].score = beaten[o]
        BY <1>4, <2>10, <3>1, <3>3, <4>1, <4>2, <4>3
      <4> QED
        BY <2>4, <2>7, <2>8, <2>10, <4>1, <4>4
    <3> QED
      BY <3>2, <3>3
  <2>11. CASE \E s \in rest : Scored(s)
    <3>1. UNCHANGED beaten
      BY <2>1, <2>11
    <3> QED
      BY <1>1, <1>3, <2>7, <2>8, <2>9, <2>10, <2>11, <3>1
  <2>12. CASE ~ \E s \in rest : Scored(s)
    <3>1. beaten'[o] = Never
      BY <1>4, <2>1, <2>12 DEF Counts
    <3> QED
      BY <2>7, <2>8, <2>9, <2>12, <3>1
  <2> QED
    BY <2>11, <2>12
<1>13. CASE Del(c)
  <2> DEFINE t == w.tab
  <2>1. /\ w.pc = "del" /\ UNCHANGED beaten
        /\ redis' = [redis EXCEPT ![t] = [redis[t] EXCEPT !.hash = Never, !.expires = FALSE]]
        /\ Done(c) \/ Goto(c, "zrem", Never, w.tabs)
    BY <1>13 DEF Del
  <2>2. t \in Tabs /\ t \notin w.tabs /\ w.tabs \in SUBSET Tabs
    BY <1>0, <1>4, <2>1 DEF CallOK, Call
  <2>3. /\ RedisTabs(o) \subseteq w.tabs
        /\ \A s \in w.tabs : /\ redis[s].score = w.scores[s] /\ redis[s].score # Never
                             /\ Scored(s) => redis[s].hash = o
    BY <1>3, <2>1 DEF RedisCallOK
  <2> HIDE DEF t
  <2>4. redis'[t].hash = Never /\ \A s \in Tabs : s # t => redis'[s] = redis[s]
    BY <1>4, <2>1, <2>2 DEF RedisEntry
  <2>5. \A s \in w.tabs : redis'[s] = redis[s] /\ (Scored(s)' <=> Scored(s))
    BY <1>1, <2>2, <2>4 DEF Scored
  <2>6. RedisTabs(o)' = RedisTabs(o)
    BY <2>2, <2>3, <2>4, TimeRange DEF RedisTabs
  <2>7. call'[c].operator = o => RedisCallOK(c)'
    <3>1. CASE Done(c)
      BY <1>4, <3>1, NoCallType, TimeRange DEF Done
    <3>2. CASE Goto(c, "zrem", Never, w.tabs)
      <4>1. /\ call'[c].pc = "zrem" /\ call'[c].tabs = w.tabs
            /\ call'[c].operator = o /\ call'[c].scores = w.scores
        BY <1>0, <2>2, <3>2, GotoFacts
      <4> QED
        BY <2>3, <2>5, <2>6, <4>1 DEF RedisCallOK
    <3> QED
      BY <2>1, <3>1, <3>2
  <2> QED
    BY <1>6, <2>1, <2>3, <2>5, <2>6, <2>7
<1> QED
  BY <1>7, <1>8, <1>9, <1>10, <1>11, <1>12, <1>13

\* What a step of a call at the table changes.
LEMMA TableEffect ==
    ASSUME CallsKept, NEW c \in Callers,
           LoadRow(c) \/ LoadRows(c) \/ CommitBeat(c) \/ CommitLeave(c) \/ FailCall(c)
    PROVE  /\ UNCHANGED <<time, redis, via, doubt>>
           /\ call[c].pc \in {"db", "commit"}
           /\ call[c].operator \in Operators
           /\ \A d \in Callers : d # c => call'[d] = call[d]
           /\ call'[c].operator \in {call[c].operator, Never}
           /\ call'[c].pc \in {"idle", "commit"}
           /\ \A x \in Operators : x # call[c].operator => beaten'[x] = beaten[x]
           /\ \A x \in Operators : x # call[c].operator =>
                \A t \in Tabs : rows'[t] = rows[t] \/ (rows[t].operator # x /\ rows'[t].operator # x)
<1> DEFINE w == call[c]
           o == call[c].operator
<1>0. PresenceTypeOK /\ CallOK(c) /\ RowsKept
  BY DEF CallsKept
<1>1. /\ call \in [Callers -> Call] /\ w \in Call /\ rows \in [Tabs -> SessionRow]
      /\ beaten \in [Operators -> Time \cup {Never}]
  BY <1>0 DEF PresenceTypeOK
<1>2. w.pc \in {"db", "commit"} /\ UNCHANGED <<time, redis, via, doubt>>
  BY DEF LoadRow, LoadRows, CommitBeat, CommitLeave, FailCall
<1>3. o \in Operators
  BY <1>0, <1>2 DEF CallOK
<1>4. /\ \A d \in Callers : d # c => call'[d] = call[d]
      /\ call'[c].operator \in {o, Never} /\ call'[c].pc \in {"idle", "commit"}
  <2>1. ASSUME NEW tab, NEW tabs, NEW active,
               call' = [call EXCEPT ![c] = [w EXCEPT !.pc = "commit", !.tab = tab, !.tabs = tabs, !.active = active]]
        PROVE  /\ \A d \in Callers : d # c => call'[d] = call[d]
               /\ call'[c].operator \in {o, Never} /\ call'[c].pc \in {"idle", "commit"}
    <3> DEFINE new == [w EXCEPT !.pc = "commit", !.tab = tab, !.tabs = tabs, !.active = active]
    <3>1. new.operator = o /\ new.pc = "commit" /\ call' = [call EXCEPT ![c] = new]
      BY <1>1, <2>1 DEF Call
    <3> HIDE DEF new
    <3> QED
      BY <1>1, <3>1
  <2>2. ASSUME Done(c)
        PROVE  /\ \A d \in Callers : d # c => call'[d] = call[d]
               /\ call'[c].operator \in {o, Never} /\ call'[c].pc \in {"idle", "commit"}
    BY <1>1, <2>2, NoCallType DEF Done
  <2>3. ASSUME NEW tab, NEW tabs, Goto(c, "commit", tab, tabs)
        PROVE  /\ \A d \in Callers : d # c => call'[d] = call[d]
               /\ call'[c].operator \in {o, Never} /\ call'[c].pc \in {"idle", "commit"}
    <3> DEFINE active == w.active
    <3>1. call' = [call EXCEPT ![c] = [w EXCEPT !.pc = "commit", !.tab = tab, !.tabs = tabs, !.active = active]]
      BY <1>1, <2>3 DEF Goto, Call
    <3> HIDE DEF active
    <3> QED
      BY <2>1, <3>1
  <2>4. ASSUME NEW tab, NEW active, call' = [call EXCEPT ![c].pc = "commit", ![c].tab = tab, ![c].active = active]
        PROVE  /\ \A d \in Callers : d # c => call'[d] = call[d]
               /\ call'[c].operator \in {o, Never} /\ call'[c].pc \in {"idle", "commit"}
    <3> DEFINE tabs == w.tabs
    <3>1. call' = [call EXCEPT ![c] = [w EXCEPT !.pc = "commit", !.tab = tab, !.tabs = tabs, !.active = active]]
      BY <1>1, <2>4 DEF Call
    <3> HIDE DEF tabs
    <3> QED
      BY <2>1, <3>1
  <2>5. CASE LoadRow(c)
    <3>1. CASE Goto(c, "commit", Never, {})
      <4> DEFINE none == {}
      <4>1. Goto(c, "commit", Never, none)
        BY <3>1
      <4> HIDE DEF none
      <4> QED
        BY <2>3, <4>1
    <3>2. ASSUME NEW t \in RowsOf(o), call' = [call EXCEPT ![c].pc = "commit", ![c].tab = t, ![c].active = rows[t].active]
          PROVE  /\ \A d \in Callers : d # c => call'[d] = call[d]
                 /\ call'[c].operator \in {o, Never} /\ call'[c].pc \in {"idle", "commit"}
      <4> DEFINE active == rows[t].active
      <4>1. call' = [call EXCEPT ![c].pc = "commit", ![c].tab = t, ![c].active = active]
        BY <3>2
      <4> HIDE DEF active
      <4> QED
        BY <2>4, <4>1
    <3> QED
      BY <2>5, <3>1, <3>2 DEF LoadRow
  <2>6. CASE LoadRows(c)
    <3> DEFINE tabs == {t \in RowsOf(o) : rows[t].active}
    <3>1. Goto(c, "commit", Never, tabs)
      BY <2>6 DEF LoadRows
    <3> HIDE DEF tabs
    <3> QED
      BY <2>3, <3>1
  <2> QED
    BY <2>2, <2>5, <2>6 DEF CommitBeat, CommitLeave, FailCall
<1>5. \A x \in Operators : x # o => beaten'[x] = beaten[x]
  BY <1>1 DEF LoadRow, LoadRows, CommitBeat, CommitLeave, FailCall, Counts
<1>6. ASSUME NEW x \in Operators, x # o, NEW t \in Tabs
      PROVE  rows'[t] = rows[t] \/ (rows[t].operator # x /\ rows'[t].operator # x)
  <2>1. CASE LoadRow(c) \/ LoadRows(c) \/ FailCall(c)
    BY <2>1 DEF LoadRow, LoadRows, FailCall
  <2>2. CASE CommitBeat(c)
    <3>1. CASE /\ w.tab # Never
               /\ rows' = [rows EXCEPT ![w.tab].seen = w.at, ![w.tab].active = @ \/ ~ w.active]
      <4>1. t # w.tab => rows'[t] = rows[t]
        BY <1>1, <3>1
      <4>2. t = w.tab => rows'[t].operator = rows[t].operator
        BY <1>1, <3>1 DEF SessionRow
      <4>3. t = w.tab => rows[t].operator = o
        BY <1>0, <2>2 DEF RowsKept, CommitBeat
      <4> QED
        BY <1>6, <4>1, <4>2, <4>3
    <3>2. ASSUME NEW u \in Tabs, rows[u].operator = Never,
                 rows' = [rows EXCEPT ![u] = [operator |-> o, active |-> TRUE, seen |-> w.at]]
          PROVE  rows'[t] = rows[t] \/ (rows[t].operator # x /\ rows'[t].operator # x)
      BY <1>1, <1>6, <3>2, TimeRange
    <3> QED
      BY <2>2, <3>1, <3>2 DEF CommitBeat
  <2>3. CASE CommitLeave(c)
    <3>1. /\ t \notin w.tabs => rows'[t] = rows[t]
          /\ t \in w.tabs => rows'[t] = [rows[t] EXCEPT !.active = FALSE]
      BY <1>1, <2>3 DEF CommitLeave
    <3>2. [rows[t] EXCEPT !.active = FALSE].operator = rows[t].operator
      BY <1>1 DEF SessionRow
    <3>3. t \in w.tabs => rows[t].operator = o
      BY <1>0, <2>3 DEF RowsKept, CommitLeave
    <3> QED
      BY <1>6, <3>1, <3>2, <3>3
  <2> QED
    BY <2>1, <2>2, <2>3
<1> QED
  BY <1>2, <1>3, <1>4, <1>5, <1>6

\* A call of an operator nobody doubts keeps his rows in step with his last heartbeat.
LEMMA TableOwn ==
    ASSUME CallsKept, NEW c \in Callers, TableKept(call[c].operator), call[c].operator \notin doubt,
           LoadRow(c) \/ LoadRows(c) \/ CommitBeat(c) \/ CommitLeave(c) \/ FailCall(c),
           NEW o \in Operators, o = call[c].operator
    PROVE  TableKept(o)'
<1> DEFINE w == call[c]
<1>0. PresenceTypeOK /\ CallOK(c) /\ RowsKept
  BY DEF CallsKept
<1>1. /\ UNCHANGED <<time, redis, via, doubt>>
      /\ \A d \in Callers : d # c => call'[d] = call[d]
      /\ "db" \in via[o]
  BY TableEffect DEF CallsKept, ViaKept
<1>2. c \in CallsOf(o) /\ CallsOf(o)' \subseteq {c}
  <2>1. c \in CallsOf(o) /\ \A d \in CallsOf(o) : d = c
    BY DEF CallsOf, CallsKept, AloneKept
  <2>2. \A d \in CallsOf(o)' : d # c => d \in CallsOf(o)
    BY <1>1 DEF CallsOf
  <2> QED
    BY <2>1, <2>2
<1>3. /\ \A t \in RowsOf(o) : rows[t].active /\ time <= rows[t].seen + Window
                              => beaten[o] # Never /\ rows[t].seen <= beaten[o]
      /\ beaten[o] # Never /\ time <= beaten[o] + Window
            => \E t \in RowsOf(o) : rows[t].active /\ rows[t].seen = beaten[o]
      /\ TableCallOK(c)
      /\ beaten[o] # Never => beaten[o] <= w.at
  BY <1>1, <1>2 DEF TableKept, CallsKept, AloneKept
<1>4. /\ call \in [Callers -> Call] /\ w \in Call /\ rows \in [Tabs -> SessionRow]
      /\ beaten \in [Operators -> Time \cup {Never}] /\ w.at \in Nat /\ time \in Nat
      /\ w.at # Never /\ \A t \in Tabs : rows[t].seen \in Nat
      /\ beaten[o] # Never => beaten[o] \in Nat
  <2>1. /\ call \in [Callers -> Call] /\ rows \in [Tabs -> SessionRow] /\ time \in Time
        /\ beaten \in [Operators -> Time \cup {Never}]
    BY <1>0 DEF PresenceTypeOK
  <2>2. w \in Call /\ w.at \in Time /\ \A t \in Tabs : rows[t].seen \in Time
    BY <2>1 DEF Call, SessionRow
  <2>3. beaten[o] \in Time \cup {Never}
    BY <2>1
  <2> QED
    BY <2>1, <2>2, <2>3, TimeRange
<1> DEFINE Goal ==
              /\ \A t \in RowsOf(o)' : rows'[t].active /\ time <= rows'[t].seen + Window
                                        => beaten'[o] # Never /\ rows'[t].seen <= beaten'[o]
              /\ beaten'[o] # Never /\ time <= beaten'[o] + Window
                    => \E t \in RowsOf(o)' : rows'[t].active /\ rows'[t].seen = beaten'[o]
              /\ call'[c].operator = o => TableCallOK(c)'
<1>5. SUFFICES Goal
  <2>1. \A d \in CallsOf(o)' : d = c /\ call'[c].operator = o
    BY <1>2 DEF CallsOf
  <2> QED
    BY <1>1, <2>1 DEF TableKept
\* Loading changes no row.
<1>6. ASSUME UNCHANGED <<rows, beaten>>, call'[c].operator = o => TableCallOK(c)'
      PROVE  Goal
  <2>1. RowsOf(o)' = RowsOf(o)
    BY <1>6 DEF RowsOf
  <2> QED
    BY <1>3, <1>6, <2>1
<1>7. CASE LoadRow(c)
  <2>1. UNCHANGED <<rows, beaten>> /\ w.op = "beat"
    BY <1>7 DEF LoadRow
  <2>2. ASSUME NEW t \in RowsOf(o), call' = [call EXCEPT ![c].pc = "commit", ![c].tab = t, ![c].active = rows[t].active]
        PROVE  TableCallOK(c)'
    <3> DEFINE active == rows[t].active
               new == [w EXCEPT !.pc = "commit", !.tab = t, !.active = active]
    <3>1. call' = [call EXCEPT ![c] = new] /\ active = rows[t].active
      BY <2>2
    <3> HIDE DEF active
    <3>2. new.pc = "commit" /\ new.op = "beat" /\ new.tab = t /\ new.active = active
      BY <1>4, <2>1 DEF Call
    <3> HIDE DEF new
    <3> QED
      BY <1>4, <2>1, <3>1, <3>2 DEF TableCallOK
  <2>3. ASSUME Goto(c, "commit", Never, {})
        PROVE  TableCallOK(c)'
    <3> DEFINE none == {}
    <3>1. Goto(c, "commit", Never, none) /\ none \in SUBSET Tabs
      BY <2>3
    <3> HIDE DEF none
    <3>2. call'[c].pc = "commit" /\ call'[c].tab = Never /\ call'[c].op = "beat"
      BY <1>0, <2>1, <3>1, GotoFacts
    <3> QED
      BY <3>2 DEF TableCallOK
  <2>4. TableCallOK(c)'
    BY <1>7, <2>2, <2>3 DEF LoadRow
  <2> QED
    BY <1>6, <2>1, <2>4
<1>8. CASE LoadRows(c)
  <2> DEFINE tabs == {t \in RowsOf(o) : rows[t].active}
  <2>1. UNCHANGED <<rows, beaten>> /\ w.op = "leave" /\ Goto(c, "commit", Never, tabs) /\ tabs \in SUBSET Tabs
    BY <1>8 DEF LoadRows, RowsOf
  <2>2. \A t \in RowsOf(o)' : rows'[t].active => t \in tabs
    BY <2>1 DEF RowsOf
  <2> HIDE DEF tabs
  <2>3. call'[c].pc = "commit" /\ call'[c].tabs = tabs /\ call'[c].op = "leave" /\ call'[c].operator = o
    BY <1>0, <2>1, GotoFacts
  <2>4. TableCallOK(c)'
    BY <2>2, <2>3 DEF TableCallOK
  <2> QED
    BY <1>6, <2>1, <2>4
<1>9. CASE CommitBeat(c)
  <2>1. /\ w.pc = "commit" /\ w.op = "beat" /\ beaten'[o] = w.at /\ call'[c].operator = Never
    BY <1>4, <1>9, NoCallType DEF CommitBeat, Counts, Done
  \* The row it is at becomes the latest of the operator's.
  <2>2. ASSUME NEW u \in Tabs, rows'[u].operator = o, rows'[u].active, rows'[u].seen = w.at,
               \A t \in Tabs : t # u => rows'[t] = rows[t]
        PROVE  Goal
    <3>1. u \in RowsOf(o)' /\ \A t \in RowsOf(o)' : t # u => t \in RowsOf(o) /\ t \in Tabs /\ rows'[t] = rows[t]
      BY <2>2 DEF RowsOf
    <3>2. ASSUME NEW t \in RowsOf(o)', rows'[t].active, time <= rows'[t].seen + Window
          PROVE  rows'[t].seen <= w.at
      <4>1. CASE t = u
        BY <1>4, <2>2, <4>1
      <4>2. CASE t # u
        BY <1>3, <1>4, <3>1, <3>2, <4>2
      <4> QED
        BY <4>1, <4>2
    <3> QED
      BY <1>4, <2>1, <2>2, <3>1, <3>2, TimeRange
  <2>3. CASE /\ w.tab # Never
             /\ rows' = [rows EXCEPT ![w.tab].seen = w.at, ![w.tab].active = @ \/ ~ w.active]
    <3> DEFINE u == w.tab
    <3>1. u \in Tabs /\ rows[u].operator = o /\ rows[u] \in SessionRow /\ w.active = rows[u].active
      BY <1>0, <1>3, <1>4, <2>1, <2>3 DEF RowsKept, TableCallOK, Call
    <3>2. PICK b \in BOOLEAN : b = (rows[u].active \/ ~ w.active)
      OBVIOUS
    <3>3. b
      BY <3>1, <3>2 DEF SessionRow
    <3>4. rows' = [rows EXCEPT ![u] = [rows[u] EXCEPT !.seen = w.at, !.active = b]]
      BY <1>4, <2>3, <3>1, <3>2
    <3>5. /\ [rows[u] EXCEPT !.seen = w.at, !.active = b].operator = o
          /\ [rows[u] EXCEPT !.seen = w.at, !.active = b].active = b
          /\ [rows[u] EXCEPT !.seen = w.at, !.active = b].seen = w.at
      BY <3>1 DEF SessionRow
    <3> HIDE DEF u
    <3>6. rows'[u] = [rows[u] EXCEPT !.seen = w.at, !.active = b] /\ \A t \in Tabs : t # u => rows'[t] = rows[t]
      BY <1>4, <3>1, <3>4
    <3>7. rows'[u].operator = o /\ rows'[u].active /\ rows'[u].seen = w.at
      BY <3>3, <3>5, <3>6
    <3> QED
      BY <2>2, <3>1, <3>6, <3>7
  <2>4. ASSUME NEW t \in Tabs, rows' = [rows EXCEPT ![t] = [operator |-> o, active |-> TRUE, seen |-> w.at]]
        PROVE  Goal
    <3>1. /\ rows'[t].operator = o /\ rows'[t].active /\ rows'[t].seen = w.at
          /\ \A s \in Tabs : s # t => rows'[s] = rows[s]
      BY <1>4, <2>4
    <3> QED
      BY <2>2, <3>1
  <2> QED
    BY <1>9, <2>3, <2>4 DEF CommitBeat
<1>10. CASE CommitLeave(c)
  <2>1. /\ w.pc = "commit" /\ w.op = "leave" /\ beaten'[o] = Never /\ call'[c].operator = Never
        /\ rows' = [t \in Tabs |-> IF t \in w.tabs THEN [rows[t] EXCEPT !.active = FALSE] ELSE rows[t]]
    BY <1>4, <1>10, NoCallType DEF CommitLeave, Counts, Done
  <2>2. \A t \in RowsOf(o) : rows[t].active => t \in w.tabs
    BY <1>3, <2>1 DEF TableCallOK
  <2>3. \A t \in Tabs : /\ [rows[t] EXCEPT !.active = FALSE].active = FALSE
                        /\ [rows[t] EXCEPT !.active = FALSE].operator = rows[t].operator
    BY <1>4 DEF SessionRow
  <2>4. \A t \in RowsOf(o)' : ~ rows'[t].active
    <3> SUFFICES ASSUME NEW t \in Tabs, rows'[t].operator = o
                 PROVE  ~ rows'[t].active
      BY DEF RowsOf
    <3>1. CASE t \in w.tabs
      BY <2>1, <2>3, <3>1
    <3>2. CASE t \notin w.tabs
      BY <2>1, <2>2, <3>2 DEF RowsOf
    <3> QED
      BY <3>1, <3>2
  <2> QED
    BY <2>1, <2>4, TimeRange
<1>11. CASE FailCall(c)
  <2>1. UNCHANGED <<rows, beaten>> /\ call'[c].operator = Never
    BY <1>4, <1>11, NoCallType DEF FailCall, Done
  <2> QED
    BY <1>6, <2>1, TimeRange
<1> QED
  BY <1>7, <1>8, <1>9, <1>10, <1>11

LEMMA ListingOfCalls ==
    ASSUME ListingKept, NEW c \in Callers,
           \/ \/ ScanForBeat(c) \/ Hset(c) \/ Zadd(c) \/ Renew(c)
              \/ ScanForLeave(c) \/ Zrem(c) \/ Del(c)
           \/ LoadRow(c) \/ LoadRows(c) \/ CommitBeat(c) \/ CommitLeave(c) \/ FailCall(c),
           NEW x \in Operators, x \notin doubt'
    PROVE  RedisKept(x)' /\ TableKept(x)'
<1> DEFINE o == call[c].operator
<1>0. CallsKept /\ ClaimsKept /\ ViaKept /\ AloneKept
  BY DEF ListingKept, CallsKept
<1>1. CASE \/ ScanForBeat(c) \/ Hset(c) \/ Zadd(c) \/ Renew(c)
           \/ ScanForLeave(c) \/ Zrem(c) \/ Del(c)
  <2>1. /\ UNCHANGED <<time, rows, via, doubt>>
        /\ o \in Operators /\ "redis" \in via[o]
        /\ \A d \in Callers : d # c => call'[d] = call[d]
        /\ call'[c].operator \in {o, Never} /\ call'[c].pc # "commit"
        /\ x # o => beaten'[x] = beaten[x]
        /\ \A t \in Tabs : \/ redis'[t] = redis[t]
                           \/ t \in Claims(c) /\ redis'[t].hash \in {redis[t].hash, Never, o}
    BY <1>0, <1>1, RedisEffect DEF ViaKept
  <2>2. RedisKept(x) /\ TableKept(x) /\ x \notin doubt
    BY <2>1 DEF ListingKept
  <2>3. \A d \in CallsOf(x)' : /\ d \in Callers /\ call'[d].operator = x
                               /\ d = c => x = o
                               /\ d # c => d \in CallsOf(x) /\ call'[d] = call[d]
    BY <2>1, TimeRange DEF CallsOf
  <2>4. CASE x = o
    <3>1. "db" \notin via'[o]
      BY <1>0, <2>1, <2>2, <2>4 DEF AloneKept
    <3>2. TableKept(x)'
      BY <1>0, <2>1, <2>2, <2>3, <2>4, <3>1, TableFrame
    <3>3. RedisKept(x)'
      BY <1>0, <1>1, <2>1, <2>2, <2>4, RedisOwn
    <3> QED
      BY <3>2, <3>3
  <2>5. CASE x # o
    <3>1. TableKept(x)'
      BY <1>0, <2>1, <2>2, <2>3, <2>5, TableFrame
    <3>2. \A t \in Claims(c) : redis[t].hash \in {Never, o} /\ \A d \in CallsOf(x) : t \notin Claims(d)
      BY <1>0, <2>5 DEF ClaimsKept, CallsOf
    <3>3. \A t \in Tabs : \/ redis'[t] = redis[t]
                         \/ /\ redis[t].hash # x /\ redis'[t].hash # x
                            /\ \A d \in CallsOf(x) : t \notin Claims(d)
      BY <2>1, <2>5, <3>2, TimeRange
    <3>4. RedisKept(x)'
      BY <1>0, <2>1, <2>2, <2>3, <2>5, <3>3, RedisFrame
    <3> QED
      BY <3>1, <3>4
  <2> QED
    BY <2>4, <2>5
<1>2. CASE LoadRow(c) \/ LoadRows(c) \/ CommitBeat(c) \/ CommitLeave(c) \/ FailCall(c)
  <2>1. /\ UNCHANGED <<time, redis, via, doubt>>
        /\ o \in Operators /\ "db" \in via[o]
        /\ \A d \in Callers : d # c => call'[d] = call[d]
        /\ call'[c].operator \in {o, Never} /\ call'[c].pc \in {"idle", "commit"}
        /\ x # o => beaten'[x] = beaten[x]
        /\ x # o => \A t \in Tabs : rows'[t] = rows[t] \/ (rows[t].operator # x /\ rows'[t].operator # x)
    BY <1>0, <1>2, TableEffect DEF ViaKept
  <2>2. RedisKept(x) /\ TableKept(x) /\ x \notin doubt
    BY <2>1 DEF ListingKept
  <2>3. \A d \in CallsOf(x)' : /\ d \in Callers /\ call'[d].operator = x
                               /\ d = c => x = o
                               /\ d # c => d \in CallsOf(x) /\ call'[d] = call[d]
    BY <2>1, TimeRange DEF CallsOf
  <2>4. CASE x = o
    <3>1. "redis" \notin via'[o]
      BY <1>0, <2>1, <2>2, <2>4 DEF AloneKept
    <3>2. RedisKept(x)'
      BY <1>0, <2>1, <2>2, <2>3, <2>4, <3>1, RedisFrame
    <3>3. TableKept(x)'
      BY <1>0, <1>2, <2>1, <2>2, <2>4, TableOwn
    <3> QED
      BY <3>2, <3>3
  <2>5. CASE x # o
    <3>1. RedisKept(x)'
      BY <1>0, <2>1, <2>2, <2>3, <2>5, RedisFrame
    <3>2. TableKept(x)'
      BY <1>0, <2>1, <2>2, <2>3, <2>5, TableFrame
    <3> QED
      BY <3>1, <3>2
  <2> QED
    BY <2>4, <2>5
<1> QED
  BY <1>1, <1>2

\* A call that enters a store finds nothing of its operator in it, or was not the first.
LEMMA ListingOfEntry ==
    ASSUME ListingKept, NEW c \in Callers, NEW o \in Operators, NEW store \in {"redis", "db"},
           NEW op \in {"beat", "leave"}, call[c].pc = "idle" \/ call[c].operator = o,
           call' = [call EXCEPT ![c] = [NoCall EXCEPT !.pc = store, !.op = op, !.operator = o, !.at = time]],
           Uses(o, store), UNCHANGED <<time, redis, rows, beaten>>,
           NEW x \in Operators, x \notin doubt'
    PROVE  RedisKept(x)' /\ TableKept(x)'
<1> DEFINE w == [NoCall EXCEPT !.pc = store, !.op = op, !.operator = o, !.at = time]
<1>0. CallsKept /\ PresenceTypeOK /\ BeatenKept
  BY DEF ListingKept, CallsKept
<1>1. w.pc = store /\ w.operator = o
  BY NoCallType DEF Call
<1> HIDE DEF w
<1>2. call'[c] = w /\ \A d \in Callers : d # c => call'[d] = call[d]
  BY <1>0 DEF PresenceTypeOK, w
<1>3. /\ via'[o] = via[o] \cup {store} /\ via[o] \subseteq {"redis", "db"}
      /\ \A y \in Operators : y # o => via'[y] = via[y]
      /\ doubt \subseteq doubt'
      /\ o \notin doubt' => ~ ({"redis", "db"} \subseteq via'[o])
  BY <1>0, UsesFacts DEF PresenceTypeOK
<1>4. RedisKept(x) /\ TableKept(x)
  BY <1>3 DEF ListingKept
<1>5. \A d \in CallsOf(x)' : \/ d \in CallsOf(x) /\ call'[d] = call[d]
                             \/ call'[d].pc \in {"redis", "db"}
  BY <1>1, <1>2 DEF CallsOf
<1>6. /\ "redis" \in via'[x] => "redis" \in via[x] \/ beaten[x] = Never
      /\ "db" \in via'[x] => "db" \in via[x] \/ beaten[x] = Never
      /\ via[x] \subseteq via'[x]
  <2>1. CASE x # o
    BY <1>3, <2>1
  <2>2. CASE x = o
    <3>1. via[o] = {} => beaten[o] = Never
      BY <1>0 DEF BeatenKept
    <3>2. via[o] = {} \/ "redis" \in via[o] \/ "db" \in via[o]
      BY <1>3
    <3>3. ~ ("redis" \in via'[o] /\ "db" \in via'[o])
      BY <1>3, <2>2
    <3> QED
      BY <1>3, <2>2, <3>1, <3>2, <3>3
  <2> QED
    BY <2>1, <2>2
<1>7. RedisKept(x)'
  BY <1>0, <1>4, <1>5, <1>6, RedisFrame
<1>8. TableKept(x)'
  BY <1>0, <1>4, <1>5, <1>6, TableFrame
<1> QED
  BY <1>7, <1>8

LEMMA ListingOfTime ==
    ASSUME ListingKept, PassTime, NEW x \in Operators, x \notin doubt'
    PROVE  RedisKept(x)' /\ TableKept(x)'
<1>1. PresenceTypeOK /\ UNCHANGED <<redis, rows, call, beaten, via, doubt>> /\ RedisKept(x) /\ TableKept(x)
  BY DEF ListingKept, CallsKept, PassTime
<1>2. time \in Nat /\ time' = time + 1
  BY <1>1, TimeRange DEF PassTime, PresenceTypeOK
<1>3. /\ \A t \in Tabs : redis[t].score # Never => redis[t].score \in Nat
      /\ \A t \in Tabs : rows[t].seen \in Nat
      /\ beaten[x] # Never => beaten[x] \in Nat
  BY <1>1, TimeRange DEF PresenceTypeOK, RedisEntry, SessionRow
<1>4. \A t \in Tabs : Scored(t)' => Scored(t)
  BY <1>1, <1>2, <1>3, TimeRange DEF Scored
<1>5. /\ RedisTabs(x)' = RedisTabs(x) /\ RowsOf(x)' = RowsOf(x) /\ CallsOf(x)' = CallsOf(x)
      /\ RedisTabs(x) \subseteq Tabs /\ RowsOf(x) \subseteq Tabs
  BY <1>1 DEF RedisTabs, RowsOf, CallsOf
<1>6. \A t \in Tabs : time' <= rows[t].seen + Window => time <= rows[t].seen + Window
  BY <1>2, <1>3, TimeRange
<1>7. beaten[x] # Never /\ time' <= beaten[x] + Window => time <= beaten[x] + Window
  BY <1>2, <1>3, TimeRange
<1>8. ASSUME NEW d \in CallsOf(x), RedisCallOK(d)
      PROVE  RedisCallOK(d)'
  <2>1. d \in Callers /\ call[d].operator = x /\ call[d] \in Call
    BY <1>1, <1>8 DEF CallsOf, PresenceTypeOK
  <2>2. call[d].tabs \subseteq Tabs
    BY <2>1 DEF Call
  <2> QED
    BY <1>1, <1>4, <1>5, <1>8, <2>1, <2>2 DEF RedisCallOK
<1>9. ASSUME NEW d \in CallsOf(x), TableCallOK(d)
      PROVE  TableCallOK(d)'
  BY <1>1, <1>9 DEF TableCallOK, RowsOf
<1>10. RedisKept(x)'
  <2>1. ListedByRedis(x)' => ListedByRedis(x)
    BY <1>4, <1>5 DEF ListedByRedis
  <2> QED
    BY <1>1, <1>4, <1>5, <1>7, <1>8, <2>1 DEF RedisKept
<1>11. TableKept(x)'
  <2>1. ListedByDb(x)' => ListedByDb(x)
    BY <1>1, <1>5, <1>6 DEF ListedByDb
  <2> QED
    BY <1>1, <1>5, <1>6, <1>7, <1>9, <2>1 DEF TableKept
<1> QED
  BY <1>10, <1>11

\* A hash expires for an operator who is not listed by it, or who is in doubt from then on.
LEMMA ListingOfExpiry ==
    ASSUME ListingKept, NEW t \in Tabs, ExpireHash(t), NEW x \in Operators, x \notin doubt'
    PROVE  RedisKept(x)' /\ TableKept(x)'
<1>0. CallsKept /\ PresenceTypeOK /\ (\A c \in Callers : CallOK(c)) /\ UNCHANGED <<time, rows, call, beaten, via>>
  BY DEF ListingKept, CallsKept, ExpireHash
<1>1. /\ redis'[t].hash = Never /\ redis'[t].score = redis[t].score
      /\ \A s \in Tabs : s # t => redis'[s] = redis[s]
      /\ \A c \in Callers : /\ call[c].pc \in {"hset", "zadd", "expire", "del"} /\ call[c].tab = t
                            => call[c].operator \in doubt'
      /\ Scored(t) => /\ redis[t].hash \in doubt' \cup {Never}
                      /\ \A c \in Callers : t \in Claims(c) => call[c].operator \in doubt'
      /\ doubt \subseteq doubt'
  BY <1>0, ExpireFacts
<1>2. RedisKept(x) /\ TableKept(x)
  BY <1>1 DEF ListingKept
<1>3. \A d \in CallsOf(x)' : d \in Callers /\ d \in CallsOf(x) /\ call'[d] = call[d] /\ call[d].operator = x
  BY <1>0 DEF CallsOf
<1>4. TableKept(x)'
  <2>1. \A d \in CallsOf(x)' : (d \in CallsOf(x) /\ call'[d] = call[d]) \/ call'[d].pc # "commit"
    BY <1>3
  <2>2. "db" \in via'[x] => beaten'[x] = beaten[x] /\ ("db" \in via[x] \/ beaten[x] = Never)
    BY <1>0
  <2>3. "db" \notin via'[x] => "db" \notin via[x]
    BY <1>0
  <2>4. \A s \in Tabs : rows'[s] = rows[s] \/ (rows[s].operator # x /\ rows'[s].operator # x)
    BY <1>0
  <2> QED
    BY <1>0, <1>2, <2>1, <2>2, <2>3, <2>4, TableFrame
<1>5. /\ RedisTabs(x)' = RedisTabs(x) \ {t}
      /\ RedisTabs(x) \subseteq Tabs
      /\ \A s \in Tabs : redis'[s].score = redis[s].score /\ (Scored(s)' <=> Scored(s))
  BY <1>0, <1>1, TimeRange DEF RedisTabs, Scored
<1>6. t \in RedisTabs(x) => ~ Scored(t)
  BY <1>1, TimeRange DEF RedisTabs
<1>7. beaten[x] # Never /\ time <= beaten[x] + Window =>
         \A s \in RedisTabs(x) : redis[s].score = beaten[x] => Scored(s)
  BY DEF Scored
<1>8. ListedByRedis(x)' => ListedByRedis(x)
  BY <1>5 DEF ListedByRedis
<1>9. ASSUME NEW d \in CallsOf(x)', "redis" \in via[x]
      PROVE  RedisCallOK(d)'
  <2>1. RedisCallOK(d) /\ d \in Callers /\ call'[d] = call[d] /\ call[d].operator = x
    BY <1>2, <1>3, <1>9 DEF RedisKept
  <2>2. call[d].pc \in {"hset", "zadd"} => call[d].tab \in Tabs /\ call[d].tab # t
    BY <1>0, <1>1, <2>1 DEF CallOK
  <2>3. ASSUME call[d].pc \in {"zrem", "del"}, NEW s \in call[d].tabs
        PROVE  /\ redis'[s].score = call[d].scores[s] /\ redis'[s].score # Never
               /\ Scored(s)' => redis'[s].hash = x
    <3>1. s \in Tabs /\ s \in Claims(d)
      BY <1>0, <2>1, <2>3 DEF PresenceTypeOK, Call, Claims
    <3>2. Scored(s) => s # t
      BY <1>1, <2>1, <3>1
    <3> QED
      BY <1>1, <1>5, <2>1, <2>3, <3>1, <3>2 DEF RedisCallOK
  <2> QED
    BY <1>1, <1>5, <2>1, <2>2, <2>3 DEF RedisCallOK
<1>10. RedisKept(x)'
  <2>1. CASE "redis" \notin via[x]
    BY <1>0, <1>2, <1>8, <2>1 DEF RedisKept
  <2>2. CASE "redis" \in via[x]
    <3>1. \A s \in RedisTabs(x)' : Scored(s)' => beaten'[x] # Never /\ redis'[s].score <= beaten'[x]
      BY <1>0, <1>2, <1>5, <2>2 DEF RedisKept
    <3>2. beaten[x] # Never /\ time <= beaten[x] + Window => \E s \in RedisTabs(x) : redis[s].score = beaten[x]
      BY <1>2, <2>2 DEF RedisKept
    <3>3. beaten'[x] # Never /\ time' <= beaten'[x] + Window => \E s \in RedisTabs(x)' : redis'[s].score = beaten'[x]
      BY <1>0, <1>5, <1>6, <1>7, <3>2
    <3> QED
      BY <1>0, <1>9, <2>2, <3>1, <3>3 DEF RedisKept
  <2> QED
    BY <2>1, <2>2
<1> QED
  BY <1>4, <1>10

\* An operator who is quiet is listed by neither store.
LEMMA ListingOfQuiet ==
    ASSUME ListingKept, NEW o \in Operators, Quiet(o), NEW x \in Operators, x \notin doubt'
    PROVE  RedisKept(x)' /\ TableKept(x)'
<1>1. /\ CallsOf(o) = {} /\ ~ ListedByRedis(o) /\ ~ ListedByDb(o)
      /\ via' = [via EXCEPT ![o] = {}] /\ doubt' = doubt \ {o}
      /\ beaten' = [beaten EXCEPT ![o] = Never] /\ UNCHANGED <<time, redis, rows, call>>
  BY DEF Quiet
<1>2. CallsKept /\ via'[o] = {} /\ \A y \in Operators : y # o => via'[y] = via[y] /\ beaten'[y] = beaten[y]
  BY <1>1 DEF ListingKept, CallsKept, PresenceTypeOK
<1>3. CASE x = o
  <2>1. ~ ListedByRedis(o)' /\ ~ ListedByDb(o)'
    BY <1>1 DEF ListedByRedis, RedisTabs, Scored, ListedByDb, RowsOf
  <2> QED
    BY <1>2, <1>3, <2>1 DEF RedisKept, TableKept
<1>4. CASE x # o
  <2>1. RedisKept(x) /\ TableKept(x)
    BY <1>1, <1>4 DEF ListingKept
  <2>2. \A d \in CallsOf(x)' : d \in CallsOf(x) /\ call'[d] = call[d]
    BY <1>1 DEF CallsOf
  <2>3. RedisKept(x)'
    BY <1>1, <1>2, <1>4, <2>1, <2>2, RedisFrame
  <2>4. TableKept(x)'
    BY <1>1, <1>2, <1>4, <2>1, <2>2, TableFrame
  <2> QED
    BY <2>3, <2>4
<1> QED
  BY <1>3, <1>4

LEMMA ListingKeptInit == PresenceInit => ListingKept
<1> SUFFICES ASSUME PresenceInit PROVE ListingKept
  OBVIOUS
<1>1. CallsKept
  BY CallsKeptInit
<1>2. \A o \in Operators : RedisTabs(o) = {} /\ RowsOf(o) = {} /\ via[o] = {}
  BY TimeRange DEF PresenceInit, RedisTabs, RowsOf, NoEntry
<1> QED
  BY <1>1, <1>2 DEF ListingKept, RedisKept, TableKept, ListedByRedis, ListedByDb

LEMMA ListingKeptStep == ListingKept /\ [PresenceNext]_presenceVars => ListingKept'
<1> SUFFICES ASSUME ListingKept, [PresenceNext]_presenceVars PROVE ListingKept'
  OBVIOUS
<1>1. CallsKept'
  BY CallsKeptStep DEF ListingKept
<1>2. ASSUME NEW x \in Operators, x \notin doubt'
      PROVE  RedisKept(x)' /\ TableKept(x)'
  <2>1. ASSUME NEW c \in Callers, NEW o \in Operators, Start(c, o)
        PROVE  RedisKept(x)' /\ TableKept(x)'
    <3>1. PICK op \in {"beat", "leave"}, store \in {"redis", "db"} :
             /\ call' = [call EXCEPT ![c] = [NoCall EXCEPT !.pc = store, !.op = op, !.operator = o, !.at = time]]
             /\ Uses(o, store)
      BY <2>1 DEF Start
    <3>2. call[c].pc = "idle" /\ UNCHANGED <<time, redis, rows, beaten>>
      BY <2>1 DEF Start
    <3> QED
      BY <1>2, <3>1, <3>2, ListingOfEntry
  <2>2. ASSUME NEW c \in Callers, FallBack(c)
        PROVE  RedisKept(x)' /\ TableKept(x)'
    <3> DEFINE o == call[c].operator
               op == call[c].op
    <3>1. o \in Operators /\ op \in {"beat", "leave"}
      BY <2>2 DEF ListingKept, CallsKept, CallOK, FallBack, PresenceTypeOK, Call
    <3>2. /\ call[c].operator = o
          /\ call' = [call EXCEPT ![c] = [NoCall EXCEPT !.pc = "db", !.op = op, !.operator = o, !.at = time]]
          /\ Uses(o, "db") /\ UNCHANGED <<time, redis, rows, beaten>>
      BY <2>2 DEF FallBack
    <3> HIDE DEF o, op
    <3> QED
      BY <1>2, <3>1, <3>2, ListingOfEntry
  <2>3. CASE UNCHANGED presenceVars
    <3>1. RedisKept(x) /\ TableKept(x)
      BY <1>2, <2>3 DEF ListingKept, presenceVars
    <3> QED
      BY <2>3, <3>1 DEF presenceVars, RedisKept, TableKept, RedisTabs, RowsOf, Scored, CallsOf, RedisCallOK,
                        TableCallOK, ListedByRedis, ListedByDb
  <2>4. ASSUME NEW c \in Callers,
               \/ ScanForBeat(c) \/ Hset(c) \/ Zadd(c) \/ Renew(c) \/ ScanForLeave(c) \/ Zrem(c) \/ Del(c)
               \/ LoadRow(c) \/ LoadRows(c) \/ CommitBeat(c) \/ CommitLeave(c) \/ FailCall(c)
        PROVE  RedisKept(x)' /\ TableKept(x)'
    BY <1>2, <2>4, ListingOfCalls
  <2> QED
    BY <1>2, <2>1, <2>2, <2>3, <2>4, ListingOfTime, ListingOfExpiry, ListingOfQuiet DEF PresenceNext
<1> QED
  BY <1>1, <1>2 DEF ListingKept

\* An operator nobody doubts is listed as his last heartbeat promises.
LEMMA ListedAsPromised ==
    ASSUME ListingKept, NEW o \in Operators, o \notin doubt
    PROVE  Listed(o) <=> beaten[o] # Never /\ time <= beaten[o] + Window
<1>1. /\ RedisKept(o) /\ TableKept(o) /\ PresenceTypeOK
      /\ ~ ({"redis", "db"} \subseteq via[o])
      /\ via[o] = {} => beaten[o] = Never
  BY DEF ListingKept, CallsKept, AloneKept, BeatenKept
<1>2. /\ via[o] \subseteq {"redis", "db"} /\ time \in Nat
      /\ \A t \in Tabs : redis[t].score # Never => redis[t].score \in Nat
      /\ \A t \in Tabs : rows[t].seen \in Nat
      /\ beaten[o] # Never => beaten[o] \in Nat
  BY <1>1, TimeRange DEF PresenceTypeOK, RedisEntry, SessionRow
<1>3. CASE "redis" \in via[o]
  <2>1. ~ ListedByDb(o)
    BY <1>1, <1>3 DEF TableKept
  <2>2. ListedByRedis(o) => beaten[o] # Never /\ time <= beaten[o] + Window
    <3> SUFFICES ASSUME NEW t \in RedisTabs(o), Scored(t)
                 PROVE  beaten[o] # Never /\ time <= beaten[o] + Window
      BY DEF ListedByRedis
    <3>1. beaten[o] # Never /\ redis[t].score <= beaten[o]
      BY <1>1, <1>3 DEF RedisKept
    <3>2. redis[t].score \in Nat /\ time <= redis[t].score + Window
      BY <1>2 DEF RedisTabs, Scored
    <3> QED
      BY <1>2, <3>1, <3>2, TimeRange
  <2>3. beaten[o] # Never /\ time <= beaten[o] + Window => ListedByRedis(o)
    BY <1>1, <1>3 DEF RedisKept, ListedByRedis, Scored
  <2> QED
    BY <2>1, <2>2, <2>3 DEF Listed
<1>4. CASE "db" \in via[o]
  <2>1. ~ ListedByRedis(o)
    BY <1>1, <1>4 DEF RedisKept
  <2>2. ListedByDb(o) => beaten[o] # Never /\ time <= beaten[o] + Window
    <3> SUFFICES ASSUME NEW t \in RowsOf(o), rows[t].active, time <= rows[t].seen + Window
                 PROVE  beaten[o] # Never /\ time <= beaten[o] + Window
      BY DEF ListedByDb
    <3>1. beaten[o] # Never /\ rows[t].seen <= beaten[o]
      BY <1>1, <1>4 DEF TableKept
    <3>2. rows[t].seen \in Nat
      BY <1>2 DEF RowsOf
    <3> QED
      BY <1>2, <3>1, <3>2, TimeRange
  <2>3. beaten[o] # Never /\ time <= beaten[o] + Window => ListedByDb(o)
    BY <1>1, <1>4 DEF TableKept, ListedByDb
  <2> QED
    BY <2>1, <2>2, <2>3 DEF Listed
<1>5. CASE via[o] = {}
  BY <1>1, <1>5 DEF RedisKept, TableKept, Listed
<1> QED
  BY <1>2, <1>3, <1>4, <1>5

LEMMA OnlineAsPromised == ListingKept => {o \in Operators \ doubt : Listed(o)} = TheRoster!Promised
  BY ListedAsPromised DEF TheRoster!Promised, TheRoster!Recent

\* Every step of the service is a heartbeat, a leave, a tick, a doubt, its end, or nothing
\* to the roster.
LEMMA RosterStep ==
    ASSUME ListingKept, ListingKept', [PresenceNext]_presenceVars
    PROVE  [TheRoster!RosterNext]_TheRoster!rosterVars
<1> DEFINE online == {o \in Operators \ doubt : Listed(o)}
<1>0. CallsKept /\ PresenceTypeOK /\ \A c \in Callers : CallOK(c)
  BY DEF ListingKept, CallsKept
<1> DEFINE Goal == \/ \E o \in Operators : \/ TheRoster!Beat(o) \/ TheRoster!Leave(o)
                                           \/ TheRoster!Doubt(o) \/ TheRoster!Settle(o)
                   \/ TheRoster!Pass
                   \/ UNCHANGED <<time, beaten, doubt>>
<1>1. online = TheRoster!Promised /\ online' = TheRoster!Promised'
  <2>1. ListingKept' => (online = TheRoster!Promised)'
    BY OnlineAsPromised, PTL
  <2> QED
    BY <2>1, OnlineAsPromised
<1>2. SUFFICES Goal
  <2>1. CASE UNCHANGED <<time, beaten, doubt>>
    <3>1. TheRoster!Promised' = TheRoster!Promised
      BY <2>1 DEF TheRoster!Promised, TheRoster!Recent
    <3> QED
      BY <1>1, <2>1, <3>1 DEF TheRoster!rosterVars
  <2> QED
    BY <1>1, <1>2, <2>1 DEF TheRoster!RosterNext
<1>3. \A c \in Callers : call[c].pc # "idle" => call[c].operator \in Operators /\ call[c].at \in 0 .. time
  BY <1>0, TimeRange DEF CallOK, PresenceTypeOK, Call, Time
\* What counts of a call is a heartbeat at its time, a leave or nothing.
<1>4. ASSUME NEW c \in Callers, call[c].pc # "idle", UNCHANGED <<time, doubt>>,
             UNCHANGED beaten \/ Counts(c, call[c].at) \/ Counts(c, Never)
      PROVE  Goal
  BY <1>3, <1>4 DEF Counts, TheRoster!Beat, TheRoster!Leave
<1>5. ASSUME NEW c \in Callers,
             \/ ScanForBeat(c) \/ Hset(c) \/ Zadd(c) \/ Renew(c) \/ ScanForLeave(c) \/ Zrem(c) \/ Del(c)
             \/ LoadRow(c) \/ LoadRows(c) \/ CommitBeat(c) \/ CommitLeave(c) \/ FailCall(c)
      PROVE  Goal
  <2>1. call[c].pc # "idle" /\ UNCHANGED <<time, doubt>>
    BY <1>5 DEF ScanForBeat, Hset, Zadd, Renew, ScanForLeave, Zrem, Del, LoadRow, LoadRows, CommitBeat,
                CommitLeave, FailCall
  <2>2. UNCHANGED beaten \/ Counts(c, call[c].at) \/ Counts(c, Never)
    BY <1>5 DEF ScanForBeat, Hset, Zadd, Renew, ScanForLeave, Zrem, Del, LoadRow, LoadRows, CommitBeat,
                CommitLeave, FailCall
  <2> QED
    BY <1>4, <2>1, <2>2
\* A call that enters a store, and a hash that expires, may leave a doubt.
<1>6. ASSUME UNCHANGED <<time, beaten>>, doubt' = doubt \/ \E o \in Operators : doubt' = doubt \cup {o}
      PROVE  Goal
  BY <1>6 DEF TheRoster!Doubt
<1>7. ASSUME NEW c \in Callers, NEW o \in Operators, Start(c, o)
      PROVE  Goal
  <2>1. UNCHANGED <<time, beaten>> /\ \E store \in {"redis", "db"} : Uses(o, store)
    BY <1>7 DEF Start
  <2> QED
    BY <1>0, <1>6, <2>1, UsesFacts
<1>8. ASSUME NEW c \in Callers, FallBack(c)
      PROVE  Goal
  <2>1. UNCHANGED <<time, beaten>> /\ Uses(call[c].operator, "db") /\ call[c].operator \in Operators
    BY <1>3, <1>8 DEF FallBack
  <2> QED
    BY <1>0, <1>6, <2>1, UsesFacts
<1>9. ASSUME NEW t \in Tabs, ExpireHash(t)
      PROVE  Goal
  <2>1. UNCHANGED <<time, beaten>>
    BY <1>9 DEF ExpireHash
  <2> QED
    BY <1>0, <1>6, <1>9, <2>1, ExpireFacts
<1>10. CASE PassTime
  BY <1>10 DEF PassTime, TheRoster!Pass
<1>11. ASSUME NEW o \in Operators, Quiet(o)
       PROVE  Goal
  BY <1>11 DEF Quiet, TheRoster!Settle
<1>12. CASE UNCHANGED presenceVars
  BY <1>12 DEF presenceVars
<1> HIDE DEF Goal
<1> QED
  BY <1>5, <1>7, <1>8, <1>9, <1>10, <1>11, <1>12 DEF PresenceNext

\* The ids of Redis and the rows of the table keep every operator nobody doubts listed by
\* his last heartbeat: an inductive invariant of the service.
THEOREM ListingAlways == PresenceSpec => []ListingKept
<1>1. ListingKept /\ [PresenceNext]_presenceVars => ListingKept'
  BY ListingKeptStep
<1> QED
  BY <1>1, ListingKeptInit, PTL DEF PresenceSpec

\* The presence service implements the roster: whichever store serves an operator, and
\* however the commands and expiries of others fall between those of his call, he is listed
\* from a heartbeat that counts until he leaves or has been silent for the window.
THEOREM PresenceIsRoster == PresenceSpec => IsRoster
<1>1. PresenceInit => TheRoster!RosterInit
  <2> SUFFICES ASSUME PresenceInit PROVE TheRoster!RosterInit
    OBVIOUS
  <2>1. TheRoster!Promised = {}
    BY DEF PresenceInit, TheRoster!Promised, TheRoster!Recent
  <2>2. {o \in Operators \ doubt : Listed(o)} = {}
    BY <2>1, ListingKeptInit, OnlineAsPromised
  <2> QED
    BY <2>2 DEF PresenceInit, TheRoster!RosterInit
<1>2. ListingKept /\ ListingKept' /\ [PresenceNext]_presenceVars => [TheRoster!RosterNext]_TheRoster!rosterVars
  BY RosterStep
<1> QED
  BY <1>1, <1>2, ListingAlways, PTL DEF PresenceSpec, IsRoster, TheRoster!RosterSpec
=============================================================================
