------------------------------- MODULE SlaProofs -------------------------------
(***************************************************************************)
(* The calendar of the maintenance agreement for every time, and the SLA   *)
(* checker for any number of incidents, instances and requests.            *)
(***************************************************************************)
EXTENDS MCSla, WellFoundedInduction, FiniteSetTheorems, TLAPS

\* Induction on a natural number, as a fact about sets: the cases that fail have a
\* least one.
LEMMA LeastElement == ASSUME NEW T, T \subseteq Nat, T # {} PROVE \E x \in T : \A y \in T : x <= y
<1> DEFINE R == {ss \in Nat \X Nat : ss[1] < ss[2]}
<1>1. IsWellFoundedOn(R, Nat)
  BY NatLessThanWellFounded DEF OpToRel
<1> HIDE DEF R
<1>2. PICK x \in T : \A y \in T : ~(<<y, x>> \in R)
  BY <1>1, WFMin
<1>3. \A y \in T : ~(y < x)
  BY <1>2 DEF R
<1> QED
  BY <1>3
-----------------------------------------------------------------------------
(* The calendar. *)

LEMMA NextWorkingDayIsNext ==
    ASSUME NEW day \in Int
    PROVE  /\ NextWorkingDay(day) \in Int
           /\ day < NextWorkingDay(day) /\ NextWorkingDay(day) <= day + 3
           /\ Working(NextWorkingDay(day))
           /\ \A e \in day + 1 .. NextWorkingDay(day) - 1 : ~ Working(e)
<1>1. \E d \in day + 1 .. day + 3 : Working(d) /\ \A e \in day + 1 .. d - 1 : ~ Working(e)
  BY DEF Working
<1> QED
  BY <1>1 DEF NextWorkingDay

\* f counts n working days from the day c.
Counts(f, c, n) == f = [k \in 0 .. n |-> IF k = 0 THEN c ELSE NextWorkingDay(f[k - 1])]

LEMMA CountsOneWay ==
    ASSUME NEW c \in Int, NEW n \in Nat, NEW f, Counts(f, c, n), NEW g, Counts(g, c, n)
    PROVE  f = g
<1> DEFINE T == {k \in 0 .. n : f[k] # g[k]}
<1>1. SUFFICES ASSUME T # {} PROVE FALSE
  <2>1. T = {} => \A k \in 0 .. n : f[k] = g[k]
    OBVIOUS
  <2>2. f = [k \in 0 .. n |-> f[k]] /\ g = [k \in 0 .. n |-> g[k]]
    BY DEF Counts
  <2> QED
    BY <1>1, <2>1, <2>2
<1>2. T \subseteq Nat
  OBVIOUS
<1> HIDE DEF T
<1>3. PICK k \in T : \A j \in T : k <= j
  BY <1>1, <1>2, LeastElement
<1>4. k \in 0 .. n /\ f[k] # g[k]
  BY DEF T
<1>5. /\ f[k] = IF k = 0 THEN c ELSE NextWorkingDay(f[k - 1])
      /\ g[k] = IF k = 0 THEN c ELSE NextWorkingDay(g[k - 1])
  BY <1>4 DEF Counts
<1>6. k # 0
  BY <1>4, <1>5
<1>7. k - 1 \in 0 .. n /\ k - 1 \notin T
  BY <1>3, <1>4, <1>6
<1>8. f[k - 1] = g[k - 1]
  BY <1>7 DEF T
<1> QED
  BY <1>4, <1>5, <1>8

LEMMA CountsGoOn ==
    ASSUME NEW c \in Int, NEW n \in Nat, NEW f \in [0 .. n -> Int], Counts(f, c, n),
           NEW g, g = [k \in 0 .. n + 1 |-> IF k <= n THEN f[k] ELSE NextWorkingDay(f[n])]
    PROVE  g \in [0 .. n + 1 -> Int] /\ Counts(g, c, n + 1)
<1>1. NextWorkingDay(f[n]) \in Int
  BY NextWorkingDayIsNext
<1>2. \A k \in 0 .. n : f[k] = IF k = 0 THEN c ELSE NextWorkingDay(f[k - 1])
  BY DEF Counts
<1>3. \A k \in 0 .. n + 1 : g[k] = IF k = 0 THEN c ELSE NextWorkingDay(g[k - 1])
  <2> SUFFICES ASSUME NEW k \in 0 .. n + 1
               PROVE  g[k] = IF k = 0 THEN c ELSE NextWorkingDay(g[k - 1])
    OBVIOUS
  <2>1. CASE k \in 0 .. n
    <3>1. k # 0 => k - 1 \in 0 .. n /\ k - 1 \in 0 .. n + 1
      BY <2>1
    <3> QED
      BY <1>2, <2>1, <3>1
  <2>2. CASE k = n + 1
    <3>1. k # 0 /\ k - 1 = n /\ n \in 0 .. n + 1 /\ ~(k <= n)
      BY <2>2
    <3>2. g[k - 1] = f[n] /\ g[k] = NextWorkingDay(f[n])
      BY <3>1
    <3> QED
      BY <3>1, <3>2
  <2> QED
    BY <2>1, <2>2
<1>4. g = [k \in 0 .. n + 1 |-> g[k]]
  OBVIOUS
<1> QED
  BY <1>1, <1>3, <1>4 DEF Counts

LEMMA CountsExist ==
    ASSUME NEW c \in Int, NEW n \in Nat PROVE \E f \in [0 .. n -> Int] : Counts(f, c, n)
<1> DEFINE T == {k \in Nat : ~ \E f \in [0 .. k -> Int] : Counts(f, c, k)}
<1>1. SUFFICES ASSUME T # {} PROVE FALSE
  OBVIOUS
<1>2. T \subseteq Nat
  OBVIOUS
<1> HIDE DEF T
<1>3. PICK k \in T : \A j \in T : k <= j
  BY <1>1, <1>2, LeastElement
<1>4. k \in Nat
  BY <1>2, <1>3
<1>5. CASE k = 0
  <2>1. PICK f : f = [j \in 0 .. 0 |-> c]
    OBVIOUS
  <2>2. f \in [0 .. 0 -> Int] /\ Counts(f, c, 0)
    BY <2>1 DEF Counts
  <2> QED
    BY <1>3, <1>5, <2>2 DEF T
<1>6. CASE k # 0
  <2>1. PICK j \in Nat : k = j + 1
    <3>1. k - 1 \in Nat /\ k = (k - 1) + 1
      BY <1>4, <1>6
    <3> QED
      BY <3>1
  <2>2. j \notin T
    BY <1>3, <2>1
  <2>3. PICK f \in [0 .. j -> Int] : Counts(f, c, j)
    BY <2>2 DEF T
  <2>4. PICK g : g = [i \in 0 .. j + 1 |-> IF i <= j THEN f[i] ELSE NextWorkingDay(f[j])]
    OBVIOUS
  <2>5. g \in [0 .. k -> Int] /\ Counts(g, c, k)
    BY <2>1, <2>3, <2>4, CountsGoOn
  <2> QED
    BY <1>3, <2>5 DEF T
<1> QED
  BY <1>5, <1>6

LEMMA CountFromType == ASSUME NEW t \in Nat PROVE CountFrom(t) \in Int /\ DayOf(t) \in Nat
<1>1. DayOf(t) \in Nat /\ Day = 1440
  BY DEF DayOf, Day
<1>2. NextBusinessDayStart(t) = NextWorkingDay(DayOf(t)) * 1440 + 480
  BY <1>1 DEF NextBusinessDayStart, BizStart
<1>3. NextWorkingDay(DayOf(t)) \in Int
  BY <1>1, NextWorkingDayIsNext
<1>4. DayOf(NextBusinessDayStart(t)) = NextWorkingDay(DayOf(t))
  BY <1>2, <1>3 DEF DayOf, Day
<1> QED
  BY <1>1, <1>3, <1>4 DEF CountFrom

\* add_business_days counts the working days one by one.
LEMMA AddBusinessDaysCounts ==
    ASSUME NEW t \in Nat, NEW days \in Nat
    PROVE  \E f \in [0 .. days -> Int] : /\ Counts(f, CountFrom(t), days)
                                         /\ AddBusinessDays(t, days) = f[days] * Day + BizEnd
<1> DEFINE after[n \in 0 .. days] == IF n = 0 THEN CountFrom(t) ELSE NextWorkingDay(after[n - 1])
<1>1. AddBusinessDays(t, days) = after[days] * Day + BizEnd
  BY DEF AddBusinessDays
<1>2. after = CHOOSE g : Counts(g, CountFrom(t), days)
  BY DEF after, Counts
<1> HIDE DEF after
<1>3. CountFrom(t) \in Int
  BY CountFromType
<1>4. PICK f \in [0 .. days -> Int] : Counts(f, CountFrom(t), days)
  BY <1>3, CountsExist
<1>5. Counts(after, CountFrom(t), days)
  BY <1>2, <1>4
<1>6. after = f
  BY <1>3, <1>4, <1>5, CountsOneWay
<1> QED
  BY <1>1, <1>4, <1>6
\* One working day more is counted, or none.
LEMMA OneMoreDay ==
    ASSUME NEW from \in Int, NEW d \in Int, from <= d
    PROVE  /\ BusinessDaysIn(from, d) \in Nat
           /\ BusinessDaysIn(from, from) = 0
           /\ BusinessDaysIn(from, d + 1)
                 = IF Working(d + 1) THEN BusinessDaysIn(from, d) + 1 ELSE BusinessDaysIn(from, d)
<1> DEFINE W(e) == {k \in from + 1 .. e : Working(k)}
<1>1. IsFiniteSet(from + 1 .. d)
  BY FS_Interval
<1>2. IsFiniteSet(W(d)) /\ Cardinality(W(d)) \in Nat
  BY <1>1, FS_Subset, FS_CardinalityType
<1>3. W(from) = {}
  OBVIOUS
<1>4. W(d + 1) = IF Working(d + 1) THEN W(d) \cup {d + 1} ELSE W(d)
  OBVIOUS
<1>5. d + 1 \notin W(d)
  OBVIOUS
<1>6. /\ BusinessDaysIn(from, from) = Cardinality(W(from))
      /\ BusinessDaysIn(from, d) = Cardinality(W(d))
      /\ BusinessDaysIn(from, d + 1) = Cardinality(W(d + 1))
  BY DEF BusinessDaysIn
<1> HIDE DEF W
<1>7. Cardinality(W(d) \cup {d + 1}) = Cardinality(W(d)) + 1
  BY <1>2, <1>5, FS_AddElement
<1> QED
  BY <1>2, <1>3, <1>4, <1>6, <1>7, FS_EmptySet

\* d is the n-th working day after the working day `from', at most two weeks in three
\* of which are not counted.
IsNth(from, n, d) ==
    /\ d \in Int /\ from <= d /\ Working(d)
    /\ d <= from + 2 * n + (IF d % 7 = 0 THEN 2 ELSE IF d % 7 = 1 THEN 1 ELSE 0)
    /\ BusinessDaysIn(from, d) = n
    /\ \A e \in from .. d - 1 : BusinessDaysIn(from, e) < n

LEMMA NextIsNth ==
    ASSUME NEW from \in Int, NEW n \in Nat, NEW d, IsNth(from, n, d)
    PROVE  IsNth(from, n + 1, NextWorkingDay(d))
<1> DEFINE x    == NextWorkingDay(d)
           B(e) == BusinessDaysIn(from, e)
<1>1. d \in Int /\ from <= d /\ Working(d) /\ B(d) = n /\ \A e \in from .. d - 1 : B(e) < n
  BY DEF IsNth
<1>2. /\ x \in Int /\ d < x /\ x <= d + 3 /\ Working(x)
      /\ \A e \in d + 1 .. x - 1 : ~ Working(e)
  BY <1>1, NextWorkingDayIsNext
<1>3. \A e \in Int : from <= e => B(e) \in Nat /\ B(e + 1) = IF Working(e + 1) THEN B(e) + 1 ELSE B(e)
  BY OneMoreDay
<1>4. x <= from + 2 * (n + 1) + (IF x % 7 = 0 THEN 2 ELSE IF x % 7 = 1 THEN 1 ELSE 0)
  <2>1. /\ d \in Int /\ x \in Int /\ n \in Nat
        /\ d <= from + 2 * n + (IF d % 7 = 0 THEN 2 ELSE IF d % 7 = 1 THEN 1 ELSE 0)
        /\ d % 7 < 5 /\ x % 7 < 5
        /\ x = d + 1 \/ x = d + 2 \/ x = d + 3
        /\ \A e \in d + 1 .. x - 1 : ~(e % 7 < 5)
    BY <1>1, <1>2 DEF IsNth, Working
  <2> HIDE DEF x
  <2>2. CASE x = d + 1
    BY <2>1, <2>2
  <2>3. CASE x # d + 1
    <3>1. ~((d + 1) % 7 < 5)
      BY <2>1, <2>3
    <3>2. d % 7 = 4
      BY <2>1, <3>1
    <3>3. x % 7 = 0
      BY <2>1, <2>3, <3>2
    <3> QED
      BY <2>1, <3>2, <3>3
  <2> QED
    BY <2>2, <2>3
<1> HIDE DEF x, B
<1>5. x = d + 1 \/ x = d + 2 \/ x = d + 3
  BY <1>1, <1>2
<1>6. /\ B(d + 1) = IF Working(d + 1) THEN n + 1 ELSE n
      /\ B(d + 2) = IF Working(d + 2) THEN B(d + 1) + 1 ELSE B(d + 1)
      /\ B(d + 3) = IF Working(d + 3) THEN B(d + 2) + 1 ELSE B(d + 2)
  <2>1. d + 1 \in Int /\ d + 2 \in Int /\ d + 2 = (d + 1) + 1 /\ d + 3 = (d + 2) + 1
        /\ from <= d + 1 /\ from <= d + 2
    BY <1>1
  <2> QED
    BY <1>1, <1>3, <2>1
<1>7. B(x) = n + 1 /\ \A e \in d .. x - 1 : B(e) = n
  BY <1>1, <1>2, <1>5, <1>6
<1>8. \A e \in from .. x - 1 : B(e) < n + 1
  <2> SUFFICES ASSUME NEW e \in from .. x - 1 PROVE B(e) < n + 1
    OBVIOUS
  <2>1. CASE e < d
    <3>1. e \in from .. d - 1 /\ B(e) \in Nat
      BY <1>1, <1>2, <1>3, <2>1
    <3> QED
      BY <1>1, <3>1
  <2>2. CASE ~(e < d)
    BY <1>1, <1>2, <1>7, <2>2
  <2> QED
    BY <2>1, <2>2
<1> QED
  BY <1>1, <1>2, <1>4, <1>7, <1>8 DEF IsNth, x, B

LEMMA CountedIsNth ==
    ASSUME NEW from \in Int, Working(from), NEW n \in Nat, NEW f, Counts(f, from, n)
    PROVE  IsNth(from, n, f[n])
<1> DEFINE T == {k \in 0 .. n : ~ IsNth(from, k, f[k])}
<1>1. SUFFICES ASSUME T # {} PROVE FALSE
  OBVIOUS
<1>2. T \subseteq Nat
  OBVIOUS
<1> HIDE DEF T
<1>3. PICK k \in T : \A j \in T : k <= j
  BY <1>1, <1>2, LeastElement
<1>4. k \in 0 .. n /\ ~ IsNth(from, k, f[k])
  BY <1>3 DEF T
<1>5. f[k] = IF k = 0 THEN from ELSE NextWorkingDay(f[k - 1])
  BY <1>4 DEF Counts
<1>6. CASE k = 0
  <2>1. BusinessDaysIn(from, from) = 0
    BY OneMoreDay
  <2>2. from .. from - 1 = {}
    OBVIOUS
  <2>3. from <= from + 2 * 0 + (IF from % 7 = 0 THEN 2 ELSE IF from % 7 = 1 THEN 1 ELSE 0)
    OBVIOUS
  <2>4. IsNth(from, 0, from)
    BY <2>1, <2>2, <2>3 DEF IsNth
  <2> QED
    BY <1>4, <1>5, <1>6, <2>4
<1>7. CASE k # 0
  <2>1. k - 1 \in Nat /\ k - 1 \in 0 .. n /\ k = (k - 1) + 1 /\ k - 1 \notin T
    BY <1>3, <1>4, <1>7
  <2>2. IsNth(from, k - 1, f[k - 1])
    BY <2>1 DEF T
  <2>3. IsNth(from, (k - 1) + 1, NextWorkingDay(f[k - 1]))
    BY <2>1, <2>2, NextIsNth
  <2> QED
    BY <1>4, <1>5, <1>7, <2>1, <2>3
<1> QED
  BY <1>6, <1>7

LEMMA FirstWorkingDayIs ==
    ASSUME NEW t \in Nat
    PROVE  /\ FirstWorkingDay(t) \in Int /\ Working(FirstWorkingDay(t))
           /\ CountFrom(t) = IF BeforeHours(t) THEN NextWorkingDay(FirstWorkingDay(t))
                                               ELSE FirstWorkingDay(t)
<1> DEFINE Open(d) == Working(d) /\ t < d * Day + BizEnd
<1>0. PICK day, tod, nxt : day = DayOf(t) /\ tod = TimeOfDay(t) /\ nxt = NextWorkingDay(day)
  OBVIOUS
<1>1. day \in Nat /\ tod \in 0 .. 1439 /\ t = day * 1440 + tod
  BY <1>0 DEF DayOf, TimeOfDay, Day
<1>2. /\ nxt \in Int /\ day < nxt /\ nxt <= day + 3 /\ Working(nxt)
      /\ \A e \in day + 1 .. nxt - 1 : ~ Working(e)
  <2>1. day \in Int
    BY <1>1
  <2> QED
    BY <1>0, <2>1, NextWorkingDayIsNext
<1>3. DayOf(NextBusinessDayStart(t)) = nxt
  BY <1>0, <1>2 DEF NextBusinessDayStart, BizStart, DayOf, Day
<1>4. CountFrom(t) = IF ~(Working(day) /\ tod \in 480 .. 990) \/ tod >= 990 THEN nxt ELSE day
  BY <1>0, <1>3 DEF CountFrom, IsBusinessHours, BizStart, BizEnd
<1>5. BeforeHours(t) <=> Working(day) /\ tod < 480
  BY <1>0 DEF BeforeHours, BizStart
<1>6. Open(day) <=> Working(day) /\ tod < 990
  BY <1>1 DEF BizEnd, Day
<1>7. Open(nxt)
  <2>1. t < nxt * 1440 + 990
    BY <1>1, <1>2
  <2> QED
    BY <1>2, <2>1 DEF BizEnd, Day
<1>8. FirstWorkingDay(t) = CHOOSE d \in day .. day + 3 : Open(d) /\ \A e \in day .. d - 1 : ~ Open(e)
  BY <1>0 DEF FirstWorkingDay
<1>9. \A e \in day + 1 .. nxt - 1 : ~ Open(e)
  BY <1>2
<1> HIDE DEF Open
<1>10. CASE Open(day)
  <2>1. FirstWorkingDay(t) = day
    BY <1>1, <1>8, <1>10
  <2> QED
    BY <1>0, <1>1, <1>4, <1>5, <1>6, <1>10, <2>1
<1>11. CASE ~ Open(day)
  <2>1. nxt \in day .. day + 3 /\ \A e \in day .. nxt - 1 : ~ Open(e)
    BY <1>1, <1>2, <1>9, <1>11
  <2>2. \A d \in day .. day + 3 : (Open(d) /\ \A e \in day .. d - 1 : ~ Open(e)) => d = nxt
    BY <1>1, <1>2, <1>7, <2>1
  <2>3. FirstWorkingDay(t) = nxt
    BY <1>7, <1>8, <2>1, <2>2
  <2> QED
    BY <1>1, <1>2, <1>4, <1>5, <1>6, <1>11, <2>3
<1> QED
  BY <1>10, <1>11

\* The n-th working day is the one the calendar finds by counting.
LEMMA NthIsCounted ==
    ASSUME NEW t \in Nat, NEW n \in Nat, NEW d, IsNth(FirstWorkingDay(t), n, d)
    PROVE  EndOfBusinessDays(t, n) = d * Day + BizEnd
<1> DEFINE from == FirstWorkingDay(t)
           Q(e) == /\ BusinessDaysIn(from, e) = n
                   /\ \A c \in from .. e - 1 : BusinessDaysIn(from, c) < n
<1>1. from \in Int
  BY FirstWorkingDayIs
<1>2. EndOfBusinessDays(t, n) = (CHOOSE e \in from .. from + 2 * n + 2 : Q(e)) * Day + BizEnd
  BY DEF EndOfBusinessDays
<1>3. d \in from .. from + 2 * n + 2
  BY <1>1 DEF IsNth
<1>4. Q(d)
  BY DEF IsNth
<1>5. ASSUME NEW e \in from .. from + 2 * n + 2, Q(e) PROVE e = d
  <2>1. CASE e < d
    BY <1>1, <1>3, <1>4, <1>5, <2>1
  <2>2. CASE d < e
    BY <1>1, <1>3, <1>4, <1>5, <2>2
  <2>3. e \in Int /\ d \in Int
    BY <1>1, <1>3
  <2> QED
    BY <2>1, <2>2, <2>3
<1> HIDE DEF Q, from
<1> QED
  BY <1>2, <1>3, <1>4, <1>5

\* add_business_days, for every time and any number of days: the end of the day the
\* calendar counts to, with a day more for a time before hours on a working day.
LEMMA AddBusinessDaysByCalendar ==
    ASSUME NEW t \in Nat, NEW days \in Nat
    PROVE  AddBusinessDays(t, days)
              = EndOfBusinessDays(t, IF BeforeHours(t) THEN days + 1 ELSE days)
<1> DEFINE from == FirstWorkingDay(t)
<1>1. PICK f \in [0 .. days -> Int] : /\ Counts(f, CountFrom(t), days)
                                      /\ AddBusinessDays(t, days) = f[days] * Day + BizEnd
  BY AddBusinessDaysCounts
<1>2. /\ from \in Int /\ Working(from)
      /\ CountFrom(t) = IF BeforeHours(t) THEN NextWorkingDay(from) ELSE from
  BY FirstWorkingDayIs
<1> HIDE DEF from
<1>3. CASE ~ BeforeHours(t)
  <2>1. IsNth(from, days, f[days])
    BY <1>1, <1>2, <1>3, CountedIsNth
  <2> QED
    BY <1>1, <1>3, <2>1, NthIsCounted DEF from
<1>4. CASE BeforeHours(t)
  <2>1. PICK g : g = [k \in 0 .. days + 1 |-> IF k = 0 THEN from ELSE f[k - 1]]
    OBVIOUS
  <2>2. \A k \in 0 .. days : f[k] = IF k = 0 THEN NextWorkingDay(from) ELSE NextWorkingDay(f[k - 1])
    BY <1>1, <1>2, <1>4 DEF Counts
  <2>3. \A k \in 0 .. days + 1 : g[k] = IF k = 0 THEN from ELSE NextWorkingDay(g[k - 1])
    <3> SUFFICES ASSUME NEW k \in 0 .. days + 1
                 PROVE  g[k] = IF k = 0 THEN from ELSE NextWorkingDay(g[k - 1])
      OBVIOUS
    <3>1. CASE k = 0
      BY <2>1, <3>1
    <3>2. CASE k = 1
      <4>1. g[1] = f[0] /\ g[0] = from /\ 0 \in 0 .. days
        BY <2>1
      <4> QED
        BY <2>2, <3>2, <4>1
    <3>3. CASE k # 0 /\ k # 1
      <4>1. k - 1 \in 0 .. days /\ k - 1 # 0 /\ k - 1 \in 0 .. days + 1
        BY <3>3
      <4>2. g[k] = f[k - 1] /\ g[k - 1] = f[(k - 1) - 1]
        BY <2>1, <3>3, <4>1
      <4> QED
        BY <2>2, <3>3, <4>1, <4>2
    <3> QED
      BY <3>1, <3>2, <3>3
  <2>4. g = [k \in 0 .. days + 1 |-> g[k]]
    BY <2>1
  <2>5. Counts(g, from, days + 1)
    BY <2>3, <2>4 DEF Counts
  <2>6. IsNth(from, days + 1, g[days + 1])
    BY <1>2, <2>5, CountedIsNth
  <2>7. g[days + 1] = f[days]
    BY <2>1
  <2>8. IsNth(from, days + 1, f[days]) /\ days + 1 \in Nat
    BY <2>6, <2>7
  <2> QED
    BY <1>1, <1>4, <2>8, NthIsCounted DEF from
<1> QED
  BY <1>3, <1>4

\* A fault's deadline for the temporary restoration, whenever it is raised, is the end
\* of the business day the agreement names, or of the next one if it was raised before
\* hours on a working day (calculate_sla_deadlines, add_business_days).
THEOREM DeadlineIsByCalendar == \A t \in Nat : DeadlineByCalendar(t)
<1> SUFFICES ASSUME NEW t \in Nat, NEW severity \in {"minor", "query"}
             PROVE  LET days == IF severity = "minor" THEN 2 ELSE 20 IN
                    Deadline(severity, "temp_restore", t)
                       = EndOfBusinessDays(t, IF BeforeHours(t) THEN days + 1 ELSE days)
  BY DEF DeadlineByCalendar
<1>1. CASE severity = "minor"
  <2>1. Deadline("minor", "temp_restore", t) = AddBusinessDays(t, 2)
    BY DEF Deadline
  <2> QED
    BY <1>1, <2>1, AddBusinessDaysByCalendar
<1>2. CASE severity = "query"
  <2>1. Deadline("query", "temp_restore", t) = AddBusinessDays(t, 20)
    BY DEF Deadline
  <2> QED
    BY <1>2, <2>1, AddBusinessDaysByCalendar
<1> QED
  BY <1>1, <1>2
-----------------------------------------------------------------------------
(* The SLA checker.                                                        *)

\* Neither a committed stamp of the milestone nor one under way is earlier than t.
NotBefore(i, m, t, table, marks) ==
    /\ table[i].stamps[m] = None \/ table[i].stamps[m] >= t
    /\ \A r \in Requests : marks[r].inc = i /\ marks[r].milestone = m => marks[r].at >= t

MarkOK(w) == w = NoMark \/ (w.inc \in Incidents /\ w.milestone \in Milestones /\ w.at \in Instants)

\* A milestone the scan has read as unstamped and not under way is not stamped before
\* the time of the scan, nor before the deadline it is found to have missed.
ScanOK(s, time, table, marks) ==
    /\ s.todo # {} \/ s.pending # {} => s.now \in Instants /\ s.now <= time
    /\ s.pending # {} => s.inc \in Incidents
    /\ ~ s.expired => \A i \in s.todo :
          /\ s.rows[i] \in IncidentRow
          /\ \A m \in Milestones : s.rows[i].stamps[m] = None /\ <<i, m>> \notin s.marking
                                   => NotBefore(i, m, s.now, table, marks)
    /\ \A n \in s.pending : n.missed /\ ~ n.marking
          => n.deadline <= time /\ NotBefore(s.inc, n.milestone, n.deadline, table, marks)

MarksOK == \A r \in Requests : MarkOK(mark[r])

ScansOK == \A r \in Runners : ScanOK(scan[r], clock, incident, mark)

AlertsOK == \A i \in Incidents, m \in Milestones :
               alert[i][m] # None => /\ alert[i][m] <= clock
                                     /\ NotBefore(i, m, alert[i][m], incident, mark)

SlaInv == SlaTypeOK /\ MarksOK /\ ScansOK /\ AlertsOK

\* A deadline is a whole number of minutes, or None.
LEMMA DeadlineType ==
    ASSUME NEW k \in Severities, NEW m \in SlaMilestones, NEW t \in Nat
    PROVE  Deadline(k, m, t) \in Int
<1>1. /\ MinutesAllowed["critical"][m] \in Int /\ MinutesAllowed["major"][m] \in Int
  BY DEF MinutesAllowed, SlaMilestones
<1>2. NextBusinessDayStart(t) \in Int
  <2>1. DayOf(t) \in Int
    BY CountFromType
  <2>2. NextWorkingDay(DayOf(t)) \in Int
    BY <2>1, NextWorkingDayIsNext
  <2> QED
    BY <2>2 DEF NextBusinessDayStart, Day, BizStart
<1>3. ASSUME NEW days \in Nat PROVE AddBusinessDays(t, days) \in Int
  <2>1. PICK f \in [0 .. days -> Int] : AddBusinessDays(t, days) = f[days] * Day + BizEnd
    BY AddBusinessDaysCounts
  <2> QED
    BY <2>1 DEF Day, BizEnd
<1>4. AddBusinessDays(t, 2) \in Int /\ AddBusinessDays(t, 20) \in Int
  BY <1>3
<1>5. CASE k = "critical" \/ k = "major"
  BY <1>1, <1>5 DEF Deadline
<1>6. CASE k = "minor"
  BY <1>2, <1>4, <1>6 DEF Deadline, None, SlaMilestones
<1>7. CASE k = "query"
  BY <1>2, <1>4, <1>7 DEF Deadline, None, SlaMilestones
<1> QED
  BY <1>5, <1>6, <1>7 DEF Severities

LEMMA DeadlineOfRow ==
    ASSUME NEW row \in IncidentRow, NEW m \in Milestones PROVE DeadlineOf(row, m) \in Int
<1>1. row.severity \in Kinds /\ row.raised \in Instants
  BY DEF IncidentRow
<1>2. Deadlines[row.severity][m][row.raised] = Deadline(row.severity, m, row.raised)
  BY <1>1 DEF Deadlines
<1> QED
  BY <1>1, <1>2, SlaAssumption, DeadlineType DEF DeadlineOf

\* What a scan finds to alert of an incident.
LEMMA NoticesAre ==
    ASSUME NEW i \in Incidents, NEW row \in IncidentRow, NEW now \in Nat, NEW marking,
           NEW n \in Notices(i, row, now, marking)
    PROVE  /\ n \in Notice
           /\ n.missed => row.stamps[n.milestone] = None /\ n.deadline <= now
           /\ n.marking <=> <<i, n.milestone>> \in marking
<1>1. PICK m \in Milestones :
         n = [milestone |-> m,
              missed |-> Verdict(DeadlineOf(row, m), row.stamps[m], now) = "breach",
              deadline |-> DeadlineOf(row, m), marking |-> <<i, m>> \in marking]
  BY DEF Notices
<1>2. DeadlineOf(row, m) \in Int
  BY DeadlineOfRow
<1>3. n \in Notice
  BY <1>1, <1>2 DEF Notice
<1>4. Verdict(DeadlineOf(row, m), row.stamps[m], now) = "breach"
         => row.stamps[m] = None /\ DeadlineOf(row, m) <= now
  BY <1>2 DEF Verdict
<1>5. n.milestone = m /\ n.deadline = DeadlineOf(row, m) /\ (n.marking <=> <<i, m>> \in marking)
      /\ (n.missed <=> Verdict(DeadlineOf(row, m), row.stamps[m], now) = "breach")
  BY <1>1
<1> QED
  BY <1>3, <1>4, <1>5

MarkType == [inc : Incidents \cup {Null}, milestone : Milestones \cup {Null}, at : Times]

\* What every step does to the clock, the incidents and the stamps under way.
StampsKept ==
    /\ clock' \in Instants /\ clock <= clock'
    /\ incident' \in [Incidents -> IncidentRow]
    /\ mark' \in [Requests -> MarkType] /\ MarksOK'
    /\ \A i \in Incidents, m \in Milestones, t \in Int :
          t <= clock /\ NotBefore(i, m, t, incident, mark) => NotBefore(i, m, t, incident', mark')

LEMMA TypeParts ==
    ASSUME SlaTypeOK
    PROVE  /\ clock \in Instants /\ clock \in Nat /\ incident \in [Incidents -> IncidentRow]
           /\ mark \in [Requests -> MarkType] /\ scan \in [Runners -> Scan]
           /\ alert \in [Incidents -> [Milestones -> Int]]
           /\ failures \in 0 .. MaxFailures /\ NoMark \in MarkType
  BY SlaAssumption DEF SlaTypeOK, MarkType, NoMark, Times

\* The row of an incident is edited, its stamps are not.
LEMMA RowEdited ==
    ASSUME SlaTypeOK, MarksOK, NEW i \in Incidents, NEW row \in IncidentRow,
           row.stamps = incident[i].stamps, incident' = [incident EXCEPT ![i] = row],
           UNCHANGED <<clock, mark>>
    PROVE  StampsKept
<1>1. incident' \in [Incidents -> IncidentRow]
  BY TypeParts
<1>2. \A j \in Incidents : incident'[j].stamps = incident[j].stamps
  BY TypeParts
<1> QED
  BY <1>1, <1>2, TypeParts DEF StampsKept, NotBefore, MarksOK, Times

\* A request takes a time, gives it up, or commits it.
LEMMA MarkChanged ==
    ASSUME SlaTypeOK, MarksOK, NEW r \in Requests, NEW w \in MarkType, MarkOK(w),
           w # NoMark => w.at = clock,
           mark' = [mark EXCEPT ![r] = w], UNCHANGED <<clock, incident>>
    PROVE  StampsKept
<1>1. /\ mark' \in [Requests -> MarkType] /\ mark'[r] = w
      /\ \A q \in Requests : q # r => mark'[q] = mark[q]
  BY TypeParts
<1>2. \A q \in Requests : MarkOK(mark'[q])
  BY <1>1 DEF MarksOK
<1>3. MarksOK'
  BY <1>2 DEF MarksOK, MarkOK
<1>4. w = NoMark => w.inc \notin Incidents
  BY SlaAssumption DEF NoMark
<1>5. ASSUME NEW i \in Incidents, NEW m \in Milestones, NEW t \in Int, t <= clock,
             NotBefore(i, m, t, incident, mark)
      PROVE  NotBefore(i, m, t, incident', mark')
  <2>1. \A q \in Requests : mark'[q].inc = i /\ mark'[q].milestone = m => mark'[q].at >= t
    BY <1>1, <1>4, <1>5, TypeParts DEF NotBefore
  <2> QED
    BY <1>5, <2>1 DEF NotBefore
<1>6. clock' \in Instants /\ clock <= clock' /\ incident' \in [Incidents -> IncidentRow]
  BY TypeParts
<1> QED
  BY <1>1, <1>3, <1>5, <1>6 DEF StampsKept

LEMMA StampCommitted ==
    ASSUME SlaTypeOK, MarksOK, NEW r \in Requests, CommitStamp(r) PROVE StampsKept
<1> DEFINE w == mark[r]
<1>1. /\ w.inc \in Incidents /\ w.milestone \in Milestones /\ w.at \in Instants
  BY DEF CommitStamp, MarksOK, MarkOK
<1>2. PICK row : row = Stamp(incident[w.inc], w.milestone, w.at)
  OBVIOUS
<1>3. incident[w.inc] \in IncidentRow /\ w.at \in Times
  BY <1>1, TypeParts DEF Times
<1>4. PICK stamps : stamps = [incident[w.inc].stamps EXCEPT ![w.milestone] = w.at]
  OBVIOUS
<1>5. /\ stamps \in [Milestones -> Times] /\ stamps[w.milestone] = w.at
      /\ \A m \in Milestones : m # w.milestone => stamps[m] = incident[w.inc].stamps[m]
  BY <1>1, <1>3, <1>4 DEF IncidentRow
<1>6. row = [incident[w.inc] EXCEPT !.stamps = stamps]
  BY <1>2, <1>4 DEF Stamp
<1>7. row \in IncidentRow /\ row.stamps = stamps
  BY <1>3, <1>5, <1>6 DEF IncidentRow
<1>8. /\ incident' = [incident EXCEPT ![w.inc] = row] /\ mark' = [mark EXCEPT ![r] = NoMark]
      /\ clock' = clock
  BY <1>2 DEF CommitStamp
<1>9. /\ incident' \in [Incidents -> IncidentRow] /\ incident'[w.inc] = row
      /\ \A i \in Incidents : i # w.inc => incident'[i] = incident[i]
  BY <1>1, <1>7, <1>8, TypeParts
<1>10. /\ mark' \in [Requests -> MarkType] /\ mark'[r] = NoMark
       /\ \A q \in Requests : q # r => mark'[q] = mark[q]
  BY <1>8, TypeParts
<1>11. \A q \in Requests : MarkOK(mark'[q])
  BY <1>10 DEF MarksOK, MarkOK
<1>12. MarksOK'
  BY <1>11 DEF MarksOK, MarkOK
<1>13. NoMark.inc \notin Incidents
  BY SlaAssumption DEF NoMark
<1>14. ASSUME NEW i \in Incidents, NEW m \in Milestones, NEW t \in Int, t <= clock,
              NotBefore(i, m, t, incident, mark)
       PROVE  NotBefore(i, m, t, incident', mark')
  <2>1. \A q \in Requests : mark'[q].inc = i /\ mark'[q].milestone = m => mark'[q].at >= t
    BY <1>10, <1>13, <1>14 DEF NotBefore
  <2>2. w.inc = i /\ w.milestone = m => w.at >= t
    BY <1>14 DEF NotBefore
  <2>3. incident[i].stamps[m] = None \/ incident[i].stamps[m] >= t
    BY <1>14 DEF NotBefore
  <2> HIDE DEF w
  <2>4. incident'[i].stamps[m] = None \/ incident'[i].stamps[m] >= t
    BY <1>5, <1>7, <1>9, <2>2, <2>3
  <2> QED
    BY <2>1, <2>4 DEF NotBefore
<1>15. clock' \in Instants /\ clock <= clock'
  BY <1>8, TypeParts
<1> QED
  BY <1>9, <1>10, <1>12, <1>14, <1>15 DEF StampsKept

LEMMA StampsAreKept ==
    ASSUME SlaTypeOK, MarksOK, [Next]_vars PROVE StampsKept
<1>1. ASSUME UNCHANGED <<clock, incident, mark>> PROVE StampsKept
  BY <1>1, TypeParts DEF StampsKept, MarksOK, NotBefore
<1>2. ASSUME Advance PROVE StampsKept
  BY <1>2, TypeParts, SlaAssumption DEF Advance, StampsKept, MarksOK, NotBefore
<1>3. ASSUME NEW i \in Incidents, Conclude(i) \/ Reclassify(i) PROVE StampsKept
  <2>1. incident[i] \in IncidentRow
    BY TypeParts
  <2>2. PICK row : /\ incident' = [incident EXCEPT ![i] = row]
                   /\ \/ row = [incident[i] EXCEPT !.resolved = TRUE]
                      \/ row = [incident[i] EXCEPT !.resolved = FALSE]
                      \/ row = [incident[i] EXCEPT !.live = FALSE]
                      \/ \E k \in Kinds : row = [incident[i] EXCEPT !.severity = k]
    BY <1>3 DEF Conclude, Reclassify
  <2>3. row \in IncidentRow /\ row.stamps = incident[i].stamps
    BY <2>1, <2>2 DEF IncidentRow
  <2> QED
    BY <1>3, <2>2, <2>3, RowEdited DEF Conclude, Reclassify
<1>4. ASSUME NEW r \in Requests, NEW i \in Incidents, NEW m \in Milestones, TakeTime(r, i, m)
      PROVE  StampsKept
  <2>1. PICK w : w = [inc |-> i, milestone |-> m, at |-> clock]
    OBVIOUS
  <2>2. w \in MarkType /\ MarkOK(w) /\ w.at = clock
    BY <2>1, TypeParts DEF MarkType, MarkOK, Times
  <2> QED
    BY <1>4, <2>1, <2>2, MarkChanged DEF TakeTime
<1>5. ASSUME NEW r \in Requests, FailStamp(r) PROVE StampsKept
  <2>1. NoMark \in MarkType /\ MarkOK(NoMark)
    BY TypeParts DEF MarkOK
  <2> QED
    BY <1>5, <2>1, MarkChanged DEF FailStamp
<1>6. CASE UNCHANGED vars
  BY <1>1, <1>6 DEF vars
<1>7. CASE Next
  BY <1>1, <1>2, <1>3, <1>4, <1>5, <1>7, StampCommitted
     DEF Next, Interval, slaVars, Fire, Skip, Crash, Call, Proceed, Turn, Alert, End
<1> QED
  BY <1>6, <1>7

\* What holds of a scan goes on holding while it waits.
LEMMA ScanWaits ==
    ASSUME SlaTypeOK, StampsKept, NEW s \in Scan, ScanOK(s, clock, incident, mark)
    PROVE  ScanOK(s, clock', incident', mark')
<1>1. clock \in Nat /\ clock' \in Nat /\ clock <= clock' /\ Instants \subseteq Nat
  BY TypeParts, SlaAssumption DEF StampsKept
<1>2. s.todo # {} \/ s.pending # {} => s.now \in Int /\ s.now <= clock /\ s.now <= clock'
  BY <1>1 DEF ScanOK, Scan, Times
<1>3. ASSUME NEW i \in Incidents, NEW m \in Milestones, NEW t \in Int, t <= clock,
             NotBefore(i, m, t, incident, mark)
      PROVE  NotBefore(i, m, t, incident', mark')
  BY <1>3 DEF StampsKept
<1>4. s.todo \subseteq Incidents /\ s.pending \subseteq Notice
  BY DEF Scan
<1>5. ASSUME ~ s.expired, NEW i \in s.todo
      PROVE  /\ s.rows[i] \in IncidentRow
             /\ \A m \in Milestones : s.rows[i].stamps[m] = None /\ <<i, m>> \notin s.marking
                                      => NotBefore(i, m, s.now, incident', mark')
  <2>1. i \in Incidents /\ s.now \in Int /\ s.now <= clock
    BY <1>2, <1>4, <1>5
  <2> QED
    BY <1>3, <1>5, <2>1 DEF ScanOK
<1>6. ASSUME NEW n \in s.pending, n.missed, ~ n.marking
      PROVE  n.deadline <= clock' /\ NotBefore(s.inc, n.milestone, n.deadline, incident', mark')
  <2>1. n.deadline \in Int /\ n.milestone \in Milestones
    BY <1>4 DEF Notice
  <2>2. /\ s.inc \in Incidents /\ n.deadline <= clock
        /\ NotBefore(s.inc, n.milestone, n.deadline, incident, mark)
    BY <1>6 DEF ScanOK
  <2> QED
    BY <1>1, <1>3, <2>1, <2>2
<1>7. s.pending # {} => s.inc \in Incidents
  BY DEF ScanOK
<1>8. s.todo # {} \/ s.pending # {} => s.now \in Instants /\ s.now <= clock'
  BY <1>2 DEF ScanOK
<1> QED
  BY <1>5, <1>6, <1>7, <1>8 DEF ScanOK

\* A milestone that is not stamped, and that no request is about to stamp.
LEMMA UnstampedIsNotBefore ==
    ASSUME MarksOK, NEW i \in Incidents, NEW m, NEW t, incident[i].stamps[m] = None,
           <<i, m>> \notin Marking
    PROVE  NotBefore(i, m, t, incident, mark)
<1>1. NoMark.inc \notin Incidents
  BY SlaAssumption DEF NoMark
<1>2. \A r \in Requests : mark[r].inc = i => mark[r] # NoMark
  BY <1>1
<1>3. \A r \in Requests : ~(mark[r].inc = i /\ mark[r].milestone = m)
  BY <1>2 DEF Marking
<1> QED
  BY <1>3 DEF NotBefore

LEMMA NoScanOK ==
    /\ NoScan \in Scan
    /\ \A time, table, marks : ScanOK(NoScan, time, table, marks)
<1>1. NoRows \in [Incidents -> IncidentRow \cup {Null}]
  BY DEF NoRows
<1>2. NoScan \in Scan
  BY <1>1 DEF NoScan, Scan, Times
<1>3. NoScan.todo = {} /\ NoScan.pending = {}
  BY DEF NoScan
<1> QED
  BY <1>2, <1>3 DEF ScanOK

LEMMA StartedOK ==
    ASSUME SlaTypeOK, MarksOK
    PROVE  Started \in Scan /\ ScanOK(Started, clock, incident, mark)
<1> DEFINE active == {i \in Incidents : Active(incident[i])}
           rows   == [i \in Incidents |-> IF i \in active THEN incident[i] ELSE Null]
<1>1. PICK s : s = [NoScan EXCEPT !.pc = "scanning", !.now = clock, !.todo = active,
                                  !.marking = Marking, !.rows = rows]
  OBVIOUS
<1>2. Started = s
  BY <1>1 DEF Started
<1>3. rows \in [Incidents -> IncidentRow \cup {Null}]
  BY TypeParts
<1>4. Marking \subseteq Incidents \X Milestones
  BY DEF Marking, MarksOK, MarkOK
<1>5. clock \in Times /\ active \subseteq Incidents
  BY TypeParts DEF Times
<1>6. \A i \in active : rows[i] = incident[i]
  OBVIOUS
<1> HIDE DEF active, rows
<1>7. /\ s \in Scan /\ s.now = clock /\ s.todo = active /\ s.pending = {}
      /\ s.marking = Marking /\ s.rows = rows
  <2>1. s \in Scan
    BY <1>1, <1>3, <1>4, <1>5, NoScanOK DEF Scan
  <2> QED
    BY <1>1, <2>1 DEF NoScan
<1>8. ASSUME NEW i \in active
      PROVE  /\ rows[i] \in IncidentRow
             /\ \A m \in Milestones : rows[i].stamps[m] = None /\ <<i, m>> \notin Marking
                                      => NotBefore(i, m, clock, incident, mark)
  <2>1. i \in Incidents /\ rows[i] = incident[i] /\ incident[i] \in IncidentRow
    BY <1>5, <1>6, <1>8, TypeParts
  <2> QED
    BY <2>1, UnstampedIsNotBefore
<1>9. clock \in Instants /\ clock <= clock
  BY TypeParts
<1> QED
  BY <1>2, <1>7, <1>8, <1>9 DEF ScanOK

LEMMA TimesAreInts == Times \subseteq Int
<1>1. Instants \subseteq Int /\ None \in Int
  BY SlaAssumption DEF None
<1> QED
  BY <1>1 DEF Times

\* The turn of an incident.
LEMMA TurnOK ==
    ASSUME SlaInv, NEW r \in Runners, NEW i \in Incidents, Turn(r, i)
    PROVE  \E q \in Scan : ScanOK(q, clock, incident, mark) /\ scan' = [scan EXCEPT ![r] = q]
<1> DEFINE s      == scan[r]
           judged == IF s.expired THEN Notices(i, incident[i], s.now, Marking)
                                  ELSE Notices(i, s.rows[i], s.now, s.marking)
<1>1. /\ s \in Scan /\ ScanOK(s, clock, incident, mark) /\ incident[i] \in IncidentRow
      /\ i \in s.todo /\ MarksOK
  BY TypeParts DEF SlaInv, ScansOK, Turn
<1>2. s.now \in Nat /\ s.now <= clock /\ s.now \in Instants /\ (~ s.expired => s.rows[i] \in IncidentRow)
  BY <1>1, SlaAssumption DEF ScanOK
<1>3. PICK row, marking :
         /\ row \in IncidentRow /\ judged = Notices(i, row, s.now, marking)
         /\ \A m \in Milestones : row.stamps[m] = None /\ <<i, m>> \notin marking
                                  => NotBefore(i, m, s.now, incident, mark)
  <2>1. CASE s.expired
    BY <1>1, <2>1, UnstampedIsNotBefore
  <2>2. CASE ~ s.expired
    BY <1>1, <1>2, <2>2 DEF ScanOK
  <2> QED
    BY <2>1, <2>2
<1>4. clock \in Nat /\ incident \in [Incidents -> IncidentRow] /\ mark \in [Requests -> MarkType]
  BY TypeParts DEF SlaInv
<1>5. ASSUME NEW n \in judged
      PROVE  /\ n \in Notice
             /\ n.missed /\ ~ n.marking =>
                   n.deadline <= clock /\ NotBefore(i, n.milestone, n.deadline, incident, mark)
  <2>1. /\ n \in Notice
        /\ n.missed => row.stamps[n.milestone] = None /\ n.deadline <= s.now
        /\ n.marking <=> <<i, n.milestone>> \in marking
    BY <1>2, <1>3, <1>5, NoticesAre
  <2>2. n.milestone \in Milestones /\ n.deadline \in Int
    BY <2>1 DEF Notice
  <2>3. ASSUME n.missed, ~ n.marking
        PROVE  n.deadline <= clock /\ NotBefore(i, n.milestone, n.deadline, incident, mark)
    <3>1. NotBefore(i, n.milestone, s.now, incident, mark) /\ n.deadline <= s.now
      BY <1>3, <2>1, <2>2, <2>3
    <3>2. \A q \in Requests : mark[q].inc = i /\ mark[q].milestone = n.milestone
                              => mark[q].at >= n.deadline
      <4> SUFFICES ASSUME NEW q \in Requests, mark[q].inc = i, mark[q].milestone = n.milestone
                   PROVE  mark[q].at >= n.deadline
        OBVIOUS
      <4>0. mark[q].at \in Times
        BY <1>4 DEF MarkType
      <4>a. mark[q].at \in Int
        BY <4>0, TimesAreInts
      <4>b. mark[q].inc = i /\ mark[q].milestone = n.milestone
        OBVIOUS
      <4>1. mark[q].at \in Int /\ mark[q].at >= s.now
        BY <3>1, <4>a, <4>b DEF NotBefore
      <4> QED
        BY <1>2, <2>2, <3>1, <4>1
    <3>3. incident[i].stamps[n.milestone] = None \/ incident[i].stamps[n.milestone] >= n.deadline
      <4>0. incident[i].stamps[n.milestone] \in Times
        BY <1>4, <2>2 DEF IncidentRow
      <4>1. incident[i].stamps[n.milestone] \in Int
        BY <4>0, TimesAreInts
      <4> QED
        BY <1>2, <2>2, <3>1, <4>1 DEF NotBefore
    <3>4. n.deadline <= clock
      BY <1>2, <1>4, <2>2, <3>1
    <3> QED
      BY <3>2, <3>3, <3>4 DEF NotBefore
  <2> QED
    BY <2>1, <2>3
<1>6. PICK q : q = [s EXCEPT !.todo = s.todo \ {i}, !.inc = i, !.rows = [s.rows EXCEPT ![i] = Null],
                             !.pending = judged]
  OBVIOUS
<1>7. scan' = [scan EXCEPT ![r] = q]
  BY <1>6 DEF Turn
<1>8. judged \subseteq Notice
  BY <1>5
<1> HIDE DEF judged
<1>9. /\ q \in Scan /\ q.todo = s.todo \ {i} /\ q.inc = i /\ q.pending = judged /\ q.now = s.now
      /\ q.expired = s.expired /\ q.marking = s.marking
      /\ \A j \in Incidents : j # i => q.rows[j] = s.rows[j]
  BY <1>1, <1>6, <1>8 DEF Scan
<1>10. \A j \in q.todo : j \in s.todo /\ j \in Incidents /\ q.rows[j] = s.rows[j]
  BY <1>1, <1>9 DEF Scan
<1>11. ScanOK(q, clock, incident, mark)
  BY <1>1, <1>2, <1>5, <1>9, <1>10 DEF ScanOK
<1> QED
  BY <1>7, <1>9, <1>11

LEMMA AlertedOK ==
    ASSUME SlaInv, NEW r \in Runners, Alert(r)
    PROVE  /\ \E q \in Scan : ScanOK(q, clock, incident, mark) /\ scan' = [scan EXCEPT ![r] = q]
           /\ alert' \in [Incidents -> [Milestones -> Int]] /\ AlertsOK'
<1> DEFINE s == scan[r]
<1>1. PICK n \in s.pending :
         /\ alert' = IF n.missed /\ ~ n.marking
                     THEN [alert EXCEPT ![s.inc][n.milestone] = n.deadline] ELSE alert
         /\ scan' = [scan EXCEPT ![r] = [s EXCEPT !.pending = s.pending \ {n}, !.expired = TRUE,
                                                  !.rows = NoRows, !.marking = {}]]
  BY DEF Alert
<1>2. /\ s \in Scan /\ ScanOK(s, clock, incident, mark)
      /\ alert \in [Incidents -> [Milestones -> Int]]
  BY TypeParts DEF SlaInv, ScansOK
<1>3. /\ s.inc \in Incidents /\ n \in Notice
      /\ n.missed /\ ~ n.marking
            => n.deadline <= clock /\ NotBefore(s.inc, n.milestone, n.deadline, incident, mark)
  BY <1>2 DEF ScanOK, Scan
<1>4. n.milestone \in Milestones /\ n.deadline \in Int
  BY <1>3 DEF Notice
<1>5. PICK q : q = [s EXCEPT !.pending = s.pending \ {n}, !.expired = TRUE, !.rows = NoRows,
                             !.marking = {}]
  OBVIOUS
<1>6. NoRows \in [Incidents -> IncidentRow \cup {Null}]
  BY DEF NoRows
<1>7. /\ q \in Scan /\ q.pending = s.pending \ {n} /\ q.expired = TRUE /\ q.todo = s.todo
      /\ q.inc = s.inc /\ q.now = s.now
  BY <1>2, <1>5, <1>6 DEF Scan
<1>8. ScanOK(q, clock, incident, mark)
  BY <1>2, <1>7 DEF ScanOK
<1>9. scan' = [scan EXCEPT ![r] = q] /\ UNCHANGED <<clock, incident, mark>>
  BY <1>1, <1>5 DEF Alert
<1> HIDE DEF s
<1>10. /\ alert' \in [Incidents -> [Milestones -> Int]]
       /\ \A i \in Incidents, m \in Milestones :
             \/ alert'[i][m] = alert[i][m]
             \/ /\ i = s.inc /\ m = n.milestone /\ alert'[i][m] = n.deadline
                /\ n.missed /\ ~ n.marking
  BY <1>1, <1>2, <1>3, <1>4
<1>11. \A i \in Incidents, m \in Milestones :
          alert'[i][m] # None => /\ alert'[i][m] <= clock
                                 /\ NotBefore(i, m, alert'[i][m], incident, mark)
  BY <1>3, <1>10 DEF SlaInv, AlertsOK
<1>12. AlertsOK'
  BY <1>9, <1>11 DEF AlertsOK, NotBefore
<1> QED
  BY <1>7, <1>8, <1>9, <1>10, <1>12

LEMMA SlaInvInit == Init => SlaInv
<1> SUFFICES ASSUME Init PROVE SlaInv
  OBVIOUS
<1>1. First \in Instants
  <2>1. \E t \in Instants : \A u \in Instants : t <= u
    BY SlaAssumption, LeastElement
  <2> QED
    BY <2>1 DEF First
<1>2. \A k \in Kinds : [live |-> TRUE, resolved |-> FALSE, severity |-> k, raised |-> First,
                        stamps |-> [m \in Milestones |-> None]] \in IncidentRow
  BY <1>1 DEF IncidentRow, Times
<1>3. incident \in [Incidents -> IncidentRow]
  <2>1. PICK S : S = {[live |-> TRUE, resolved |-> FALSE, severity |-> k, raised |-> First,
                       stamps |-> [m \in Milestones |-> None]] : k \in Kinds}
    OBVIOUS
  <2>2. S \subseteq IncidentRow
    BY <1>2, <2>1
  <2>3. incident \in [Incidents -> S]
    BY <2>1 DEF Init
  <2> QED
    BY <2>2, <2>3
<1>4. NoMark \in MarkType /\ NoScan \in Scan
  BY NoScanOK DEF MarkType, NoMark, Times
<1>5. SlaTypeOK
  BY <1>1, <1>3, <1>4, SlaAssumption
     DEF Init, SlaTypeOK, SchedulerTypeOK, SchedulerInit, MarkType, None
<1>6. MarksOK
  BY DEF Init, MarksOK, MarkOK
<1>7. ScansOK
  BY NoScanOK DEF Init, ScansOK
<1>8. AlertsOK
  BY DEF Init, AlertsOK
<1> QED
  BY <1>5, <1>6, <1>7, <1>8 DEF SlaInv

\* A step of one scan, or of none.
LEMMA ScanMoves ==
    ASSUME SlaInv, StampsKept, NEW r \in Runners, NEW q \in Scan,
           ScanOK(q, clock', incident', mark'), scan' = [scan EXCEPT ![r] = q]
    PROVE  scan' \in [Runners -> Scan] /\ ScansOK'
<1>1. SlaTypeOK /\ scan \in [Runners -> Scan]
  BY TypeParts DEF SlaInv
<1>2. /\ scan' \in [Runners -> Scan] /\ scan'[r] = q
      /\ \A o \in Runners : o # r => scan'[o] = scan[o]
  BY <1>1
<1>3. \A o \in Runners : ScanOK(scan[o], clock', incident', mark')
  BY <1>1, ScanWaits DEF SlaInv, ScansOK
<1>4. \A o \in Runners : ScanOK(scan'[o], clock', incident', mark')
  BY <1>2, <1>3
<1> QED
  BY <1>2, <1>4 DEF ScansOK, ScanOK, NotBefore

LEMMA ScansWait ==
    ASSUME SlaInv, StampsKept, scan' = scan PROVE scan' \in [Runners -> Scan] /\ ScansOK'
<1>1. SlaTypeOK /\ scan \in [Runners -> Scan]
  BY TypeParts DEF SlaInv
<1>2. \A o \in Runners : ScanOK(scan'[o], clock', incident', mark')
  BY <1>1, ScanWaits DEF SlaInv, ScansOK
<1> QED
  BY <1>1, <1>2 DEF ScansOK, ScanOK, NotBefore

LEMMA AlertsWait ==
    ASSUME SlaInv, StampsKept, alert' = alert
    PROVE  alert' \in [Incidents -> [Milestones -> Int]] /\ AlertsOK'
<1>1. clock \in Nat /\ clock' \in Nat /\ clock <= clock'
      /\ alert \in [Incidents -> [Milestones -> Int]]
  BY TypeParts, SlaAssumption DEF StampsKept, SlaInv
<1>2. \A i \in Incidents, m \in Milestones :
         alert[i][m] # None => /\ alert[i][m] <= clock'
                               /\ NotBefore(i, m, alert[i][m], incident', mark')
  BY <1>1 DEF SlaInv, AlertsOK, StampsKept
<1> QED
  BY <1>1, <1>2 DEF AlertsOK, NotBefore

LEMMA SlaInvNext == SlaInv /\ [Next]_vars => SlaInv'
<1> SUFFICES ASSUME SlaInv, [Next]_vars PROVE SlaInv'
  OBVIOUS
<1>1. StampsKept
  BY StampsAreKept DEF SlaInv
<1>2. SlaTypeOK /\ MarksOK /\ ScansOK
  BY DEF SlaInv
<1> DEFINE ScansFine  == scan' \in [Runners -> Scan] /\ ScansOK'
           AlertsFine == alert' \in [Incidents -> [Milestones -> Int]] /\ AlertsOK'
           CountFine  == SchedulerTypeOK' /\ failures' \in 0 .. MaxFailures
<1>3. ScansFine /\ AlertsFine /\ CountFine => SlaInv'
  BY <1>1 DEF StampsKept, SlaInv, SlaTypeOK, MarkType
<1>4. /\ failures \in 0 .. MaxFailures /\ lock \in Instances \cup {Null} /\ due \subseteq Instances
      /\ MaxFailures \in Nat
  BY <1>2, SlaAssumption DEF SlaTypeOK, SchedulerTypeOK
<1> HIDE DEF ScansFine, AlertsFine
<1>5. ASSUME scan' = scan PROVE ScansFine
  BY <1>1, <1>5, ScansWait DEF ScansFine
<1>6. ASSUME alert' = alert PROVE AlertsFine
  BY <1>1, <1>6, AlertsWait DEF AlertsFine
<1>7. ASSUME NEW r \in Runners, NEW q \in Scan, ScanOK(q, clock, incident, mark),
             scan' = [scan EXCEPT ![r] = q], UNCHANGED <<clock, incident, mark>>
      PROVE  ScansFine
  <2>1. ScanOK(q, clock', incident', mark')
    BY <1>7
  <2> QED
    BY <1>1, <1>7, <2>1, ScanMoves DEF ScansFine
<1>8. ASSUME failures' = failures, lock' = lock, due' = due PROVE CountFine
  BY <1>4, <1>8 DEF SchedulerTypeOK
<1>9. CASE UNCHANGED vars
  BY <1>3, <1>5, <1>6, <1>8, <1>9 DEF vars
<1>10. ASSUME Advance PROVE SlaInv'
  BY <1>3, <1>5, <1>6, <1>8, <1>10 DEF Advance
<1>11. ASSUME NEW i \in Incidents, Conclude(i) \/ Reclassify(i) PROVE SlaInv'
  BY <1>3, <1>5, <1>6, <1>8, <1>11 DEF Conclude, Reclassify
<1>12. ASSUME NEW r \in Requests,
              CommitStamp(r) \/ \E i \in Incidents, m \in Milestones : TakeTime(r, i, m)
       PROVE  SlaInv'
  BY <1>3, <1>5, <1>6, <1>8, <1>12 DEF CommitStamp, TakeTime
<1>13. ASSUME NEW r \in Requests, FailStamp(r) PROVE SlaInv'
  <2>1. CountFine
    BY <1>4, <1>13 DEF FailStamp, SchedulerTypeOK
  <2> QED
    BY <1>3, <1>5, <1>6, <1>13, <2>1 DEF FailStamp
<1>14. ASSUME Interval \/ \E i \in Instances : Skip(i) PROVE SlaInv'
  <2>1. CountFine
    BY <1>4, <1>14 DEF Interval, Skip, NextTick, SkipTick, slaVars, SchedulerTypeOK
  <2> QED
    BY <1>3, <1>5, <1>6, <1>14, <2>1 DEF Interval, Skip, slaVars
<1>15. Started \in Scan /\ ScanOK(Started, clock, incident, mark)
  BY <1>2, StartedOK
<1>16. ASSUME NEW i \in Instances, Fire(i) PROVE SlaInv'
  <2>1. CountFine
    BY <1>4, <1>16 DEF Fire, TryLock, SchedulerTypeOK
  <2>2. i \in Runners
    BY DEF Runners
  <2>3. ScansFine
    BY <1>7, <1>15, <1>16, <2>2 DEF Fire
  <2> QED
    BY <1>3, <1>6, <1>16, <2>1, <2>3 DEF Fire
<1>17. ASSUME NEW c \in Callers, Call(c) PROVE SlaInv'
  <2>1. c \in Runners
    BY DEF Runners
  <2>2. ScansFine
    BY <1>7, <1>15, <1>17, <2>1 DEF Call
  <2> QED
    BY <1>3, <1>6, <1>8, <1>17, <2>2 DEF Call
<1>18. NoScan \in Scan /\ ScanOK(NoScan, clock, incident, mark)
  BY NoScanOK
<1>19. ASSUME NEW i \in Instances, Crash(i) PROVE SlaInv'
  <2>1. CountFine
    BY <1>4, <1>19 DEF Crash, InstanceCrash, SchedulerTypeOK
  <2>2. i \in Runners
    BY DEF Runners
  <2>3. ScansFine
    BY <1>7, <1>18, <1>19, <2>2 DEF Crash
  <2> QED
    BY <1>3, <1>6, <1>19, <2>1, <2>3 DEF Crash
<1>20. ASSUME NEW r \in Runners, NEW failed \in BOOLEAN, End(r, failed) PROVE SlaInv'
  <2>1. failures' \in 0 .. MaxFailures
    <3>1. failed => failures < MaxFailures
      BY <1>20 DEF End
    <3>2. failures' = failures + (IF failed THEN 1 ELSE 0)
      BY <1>20 DEF End
    <3> QED
      BY <1>4, <3>1, <3>2
  <2>2. SchedulerTypeOK'
    BY <1>4, <1>20 DEF End, Unlock, SchedulerTypeOK
  <2>3. ScansFine
    BY <1>7, <1>18, <1>20 DEF End
  <2> QED
    BY <1>3, <1>6, <1>20, <2>1, <2>2, <2>3 DEF End
<1>21. ASSUME NEW r \in Runners, NEW i \in Incidents, Turn(r, i) PROVE SlaInv'
  <2>1. PICK q \in Scan : ScanOK(q, clock, incident, mark) /\ scan' = [scan EXCEPT ![r] = q]
    BY <1>21, TurnOK
  <2>2. ScansFine
    BY <1>7, <1>21, <2>1 DEF Turn
  <2> QED
    BY <1>3, <1>6, <1>8, <1>21, <2>2 DEF Turn
<1>22. ASSUME NEW r \in Runners, Alert(r) PROVE SlaInv'
  <2>1. PICK q \in Scan : ScanOK(q, clock, incident, mark) /\ scan' = [scan EXCEPT ![r] = q]
    BY <1>22, AlertedOK
  <2>2. ScansFine
    BY <1>7, <1>22, <2>1 DEF Alert
  <2>3. AlertsFine
    BY <1>22, AlertedOK DEF AlertsFine
  <2> QED
    BY <1>3, <1>8, <1>22, <2>2, <2>3 DEF Alert
<1>23. CASE Next
  BY <1>10, <1>11, <1>12, <1>13, <1>14, <1>16, <1>17, <1>19, <1>20, <1>21, <1>22, <1>23
     DEF Next, Proceed
<1> QED
  BY <1>9, <1>23

\* The clock, the incidents, the scans and the alerts keep their types, for any number
\* of incidents, instances, callers and requests.
THEOREM SlaTypes == Spec => []SlaTypeOK
<1>1. SlaInv => SlaTypeOK
  BY DEF SlaInv
<1> QED
  BY <1>1, SlaInvInit, SlaInvNext, PTL DEF Spec

\* A breach is alerted of a milestone that was missed, whatever requests stamp, resolve,
\* delete and reclassify while scans read the table once and judge by it later.
THEOREM AlertedWasMissedAlways == Spec => []AlertedWasMissed
<1>1. SlaInv => AlertedWasMissed
  BY DEF SlaInv, AlertsOK, NotBefore, AlertedWasMissed
<1> QED
  BY <1>1, SlaInvInit, SlaInvNext, PTL DEF Spec
-----------------------------------------------------------------------------
(* Penalties. *)

\* A milestone that costs something was missed: by its stamp, or by now.
LEMMA PenaltyOfMilestone ==
    ASSUME NEW deadline \in Int, NEW actual \in Int, NEW now \in Nat
    PROVE  /\ MilestonePenalty(deadline, actual, FALSE, now) \in 0 .. PerFaultCap
           /\ MilestonePenalty(deadline, actual, FALSE, now) > 0
                 => MilestoneStatus(deadline, actual, now) = "breached"
<1> DEFINE reached == IF actual # None THEN actual ELSE now
           percent == PenaltyPercentage(reached - deadline)
<1>1. reached \in Int /\ now # None
  BY DEF None
<1>2. percent \in {0, 10, 15, 20, 30} /\ (percent > 0 => reached - deadline >= 240)
  <2>1. PICK delay \in Int : delay = reached - deadline
    BY <1>1
  <2>2. PenaltyPercentage(delay) \in {0, 10, 15, 20, 30}
        /\ (PenaltyPercentage(delay) > 0 => delay >= 240)
    BY DEF PenaltyPercentage
  <2> QED
    BY <2>1, <2>2
<1>3. MilestonePenalty(deadline, actual, FALSE, now)
         = IF deadline = None \/ reached = None THEN 0 ELSE Capped(percent, PerFaultCap)
  BY DEF MilestonePenalty
<1> HIDE DEF percent
<1>4. Capped(percent, PerFaultCap) \in 0 .. PerFaultCap
      /\ (Capped(percent, PerFaultCap) > 0 => percent > 0)
  BY <1>2 DEF Capped, PerFaultCap
<1>p. PICK p : p = MilestonePenalty(deadline, actual, FALSE, now)
  OBVIOUS
<1>q. \/ p = 0
      \/ p = Capped(percent, PerFaultCap) /\ deadline # None
  BY <1>3, <1>p
<1> HIDE DEF reached
<1>5. p > 0 => deadline # None /\ reached - deadline >= 240
  BY <1>2, <1>4, <1>q
<1>6. deadline # None /\ reached - deadline >= 240
         => MilestoneStatus(deadline, actual, now) = "breached"
  <2> SUFFICES ASSUME deadline # None, reached - deadline >= 240
               PROVE  MilestoneStatus(deadline, actual, now) = "breached"
    OBVIOUS
  <2> USE DEF reached
  <2>1. CASE actual # None
    <3>1. actual > deadline /\ ~(actual <= deadline)
      BY <2>1
    <3> QED
      BY <2>1, <3>1 DEF MilestoneStatus
  <2>2. CASE actual = None
    <3>1. deadline <= now
      BY <2>2
    <3> QED
      BY <2>2, <3>1 DEF MilestoneStatus
  <2> QED
    BY <2>1, <2>2
<1>7. p \in 0 .. PerFaultCap
  BY <1>4, <1>q DEF PerFaultCap
<1> QED
  BY <1>5, <1>6, <1>7, <1>p

LEMMA PenaltyOfFault ==
    ASSUME SlaTypeOK, {"onsite", "temp_restore"} \subseteq Milestones, NEW i \in Incidents,
           Penalty(incident[i]) > 0
    PROVE  Overall(incident[i]) \in {"breached", "resolved"}
<1> DEFINE row == incident[i]
<1>1. row \in IncidentRow /\ clock \in Nat
  BY TypeParts
<1>2. CASE row.resolved
  BY <1>2 DEF Overall
<1>3. CASE ~ row.resolved
  <2>1. row.resolved = FALSE
    BY <1>1, <1>3 DEF IncidentRow
  <2>2. \A m \in Milestones : DeadlineOf(row, m) \in Int /\ row.stamps[m] \in Int
    <3>1. \A m \in Milestones : row.stamps[m] \in Times
      BY <1>1 DEF IncidentRow
    <3> QED
      BY <1>1, <3>1, DeadlineOfRow, TimesAreInts
  <2> DEFINE P(m) == MilestonePenalty(DeadlineOf(row, m), row.stamps[m], FALSE, clock)
  <2>3. Penalty(row) = Capped(P("onsite") + P("temp_restore"), PerFaultCap)
    BY <2>1 DEF Penalty, FaultPenalty
  <2>4. \A m \in Milestones : /\ P(m) \in 0 .. PerFaultCap
                              /\ P(m) > 0 => StatusOf(row, m) = "breached"
    BY <1>1, <2>2, PenaltyOfMilestone DEF StatusOf
  <2>5. P("onsite") > 0 \/ P("temp_restore") > 0
    <3>1. PICK a, b : a = P("onsite") /\ b = P("temp_restore")
      OBVIOUS
    <3>a. P("onsite") \in 0 .. PerFaultCap /\ P("temp_restore") \in 0 .. PerFaultCap
      BY <2>4, Zenon
    <3>b. a \in 0 .. PerFaultCap /\ b \in 0 .. PerFaultCap
      BY <3>1, <3>a, Zenon
    <3>2. a \in Nat /\ b \in Nat
      BY <3>b DEF PerFaultCap
    <3>3. Capped(a + b, PerFaultCap) > 0
      BY <2>3, <3>1
    <3>4. a > 0 \/ b > 0
      BY <3>2, <3>3 DEF Capped, PerFaultCap
    <3> QED
      BY <3>1, <3>4
  <2>6. "breached" \in {StatusOf(row, m) : m \in Milestones}
    BY <2>4, <2>5
  <2> QED
    BY <1>3, <2>6 DEF Overall
<1> QED
  BY <1>2, <1>3

\* A fault that costs a penalty is never shown as within its SLA, at any time and
\* whatever was stamped: the two services that say so agree.
THEOREM PenaltyMeansBreachedAlways ==
    ASSUME {"onsite", "temp_restore"} \subseteq Milestones PROVE Spec => []PenaltyMeansBreached
<1>1. SlaInv => PenaltyMeansBreached
  BY PenaltyOfFault DEF SlaInv, PenaltyMeansBreached, QuarterFaults
<1> QED
  BY <1>1, SlaInvInit, SlaInvNext, PTL DEF Spec

\* AgreementKept of the module that is model-checked: the deadline of whatever time it
\* raises is by the calendar, and what costs a penalty is shown as breached.
THEOREM AgreementKeptAlways ==
    ASSUME {"onsite", "temp_restore"} \subseteq Milestones PROVE MCSpec => []AgreementKept
<1> DEFINE Raised == raised \in Nat \cup {None}
<1>1. MCInit => SlaInv /\ Raised
  <2>1. Fortnight \subseteq Nat
    BY DEF Fortnight
  <2> QED
    BY <2>1, SlaInvInit DEF MCInit
<1>2. SlaInv /\ Raised /\ [MCNext]_<<vars, raised>> => (SlaInv /\ Raised)'
  <2>1. [MCNext]_<<vars, raised>> => [Next]_vars /\ UNCHANGED raised
    BY DEF MCNext
  <2> QED
    BY <2>1, SlaInvNext
<1>3. SlaInv /\ Raised => AgreementKept
  <2>1. SlaInv => PenaltyMeansBreached
    BY PenaltyOfFault DEF SlaInv, PenaltyMeansBreached, QuarterFaults
  <2> QED
    BY <2>1, DeadlineIsByCalendar DEF AgreementKept
<1> HIDE DEF Raised
<1> QED
  BY <1>1, <1>2, <1>3, PTL DEF MCSpec
=============================================================================
