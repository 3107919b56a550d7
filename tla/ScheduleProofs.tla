---------------------------- MODULE ScheduleProofs ----------------------------
(***************************************************************************)
(* Schedules for any number of technicians, schedules, reassignments,      *)
(* requests and instances: types, the one reassignment a week, its         *)
(* completion, and the job lock.                                           *)
(***************************************************************************)
EXTENDS Schedules, TLAPS

\* A worker that is about to write names rows that exist and belong together.
WorkerOK(q, sch, cov) ==
    /\ q.pc = "insert" => q.schedule \in ScheduleIds
    /\ q.pc = "cancel" => q.coverage \in CoverageIds
    /\ q.pc = "mark" =>
          /\ q.schedule \in ScheduleIds /\ sch[q.schedule].life # "unused"
          /\ q.coverage # Null =>
                /\ q.coverage \in CoverageIds /\ cov[q.coverage].life # "unused"
                /\ cov[q.coverage].schedule = q.schedule /\ cov[q.coverage].week = q.week

WorkersOK == \A r \in Workers : WorkerOK(work[r], schedule, coverage)

\* Who is inside the job holds its lock.
JobHoldsLock == \A i \in Instances : work[i].pc # "idle" => lock = i

\* Rows that were never inserted are blank, and a reassignment has its schedule.
RowsOK ==
    /\ \A s \in ScheduleIds : schedule[s].life = "unused" => schedule[s].lastRun = Null
    /\ \A c \in CoverageIds : IF coverage[c].life = "unused" THEN coverage[c].completed = Null
                              ELSE coverage[c].schedule \in ScheduleIds

TablesOK == RowsOK /\ OneActiveCoverage /\ CompletedInItsWeek /\ CompletedMeansRan

Inv == TypeOK /\ WorkersOK /\ JobHoldsLock /\ TablesOK

LEMMA WeekTypes == /\ 0 \in Weeks /\ -1 \in Weeks
                   /\ \A w \in Weeks : Before(w) \in Weeks
  BY DEF Weeks, Earliest, Before

LEMMA RowTypes == NoScheduleRow \in ScheduleRow /\ NoCoverageRow \in CoverageRow
                  /\ NoWork \in Work /\ Ended \in Work
  BY WeekTypes DEF NoScheduleRow, ScheduleRow, NoCoverageRow, CoverageRow, NoWork, Work, Ended, Life

\* The records with more than two fields of their own.
LEMMA InsertingType ==
    ASSUME NEW s \in ScheduleIds, NEW k \in Technicians, NEW q, q = Inserting(s, k)
    PROVE  q \in Work /\ q.pc = "insert" /\ q.schedule = s
<1>1. q = [pc |-> "insert", op |-> "create_coverage", techs |-> {}, week |-> 0, toggled |-> {},
           active |-> FALSE, weekly |-> {}, missing |-> {}, tech |-> k,
           schedule |-> s, coverage |-> Null, group |-> {}]
  BY DEF Inserting, NoWork
<1>2. q \in Work
  BY <1>1, WeekTypes DEF Work, AllOperations
<1> QED
  BY <1>1, <1>2

LEMMA CancellingType ==
    ASSUME NEW c \in CoverageIds, NEW q, q = Cancelling(c)
    PROVE  q \in Work /\ q.pc = "cancel" /\ q.coverage = c
<1>1. q = [pc |-> "cancel", op |-> "cancel_coverage", techs |-> {}, week |-> 0, toggled |-> {},
           active |-> FALSE, weekly |-> {}, missing |-> {}, tech |-> Null,
           schedule |-> Null, coverage |-> c, group |-> {}]
  BY DEF Cancelling, NoWork
<1>2. q \in Work
  BY <1>1, WeekTypes DEF Work, AllOperations
<1> QED
  BY <1>1, <1>2

LEMMA MarkingType ==
    ASSUME NEW s \in ScheduleIds, NEW w \in Weeks, NEW c \in CoverageIds \cup {Null},
           NEW q, q = Marking(s, w, c)
    PROVE  q \in Work /\ q.pc = "mark" /\ q.schedule = s /\ q.week = w /\ q.coverage = c
<1>1. q = [pc |-> "mark", op |-> "field_work", techs |-> {}, week |-> w, toggled |-> {},
           active |-> FALSE, weekly |-> {}, missing |-> {}, tech |-> Null,
           schedule |-> s, coverage |-> c, group |-> {}]
  BY DEF Marking, NoWork
<1>2. q \in Work
  BY <1>1, WeekTypes DEF Work, AllOperations
<1> QED
  BY <1>1, <1>2

\* The work records the handlers build.
LEMMA WorkTypes ==
    /\ \A op \in AllOperations, ks \in SUBSET Technicians :
          Ensuring(op, ks) \in Work /\ Ensuring(op, ks).pc = "ensure"
    /\ \A q \in Work : Ensured(q) \in Work /\ Ensured(q).pc \in {"group", "end"}
    /\ \A s \in ScheduleIds, k \in Technicians :
          /\ Inserting(s, k) \in Work /\ Inserting(s, k).pc = "insert"
          /\ Inserting(s, k).schedule = s
    /\ \A c \in CoverageIds : Cancelling(c) \in Work /\ Cancelling(c).pc = "cancel" /\ Cancelling(c).coverage = c
    /\ \A s \in ScheduleIds, w \in Weeks, c \in CoverageIds \cup {Null} :
          /\ Marking(s, w, c) \in Work /\ Marking(s, w, c).pc = "mark"
          /\ Marking(s, w, c).schedule = s /\ Marking(s, w, c).week = w
          /\ Marking(s, w, c).coverage = c
    /\ Ended.pc = "end" /\ NoWork.pc = "idle"
<1>1. \A op \in AllOperations, ks \in SUBSET Technicians :
          Ensuring(op, ks) \in Work /\ Ensuring(op, ks).pc = "ensure"
  BY RowTypes DEF Ensuring, Work, NoWork
<1>2. \A q \in Work : Ensured(q) \in Work /\ Ensured(q).pc \in {"group", "end"}
  <2> SUFFICES ASSUME NEW q \in Work, NEW p, p = Ensured(q)
               PROVE  p \in Work /\ p.pc \in {"group", "end"}
    BY Zenon
  <2>1. PICK pc : pc = AfterEnsure(q.op)
    OBVIOUS
  <2>2. q.op \in AllOperations \cup {Null} /\ q.week \in Weeks
    BY DEF Work
  <2>3. pc \in {"group", "end"}
    BY <2>1 DEF AfterEnsure
  <2>4. p = [NoWork EXCEPT !.pc = pc, !.op = q.op, !.week = q.week]
    BY <2>1 DEF Ensured
  <2>5. p.pc = pc
    BY <2>4 DEF NoWork
  <2>6. p \in Work
    BY <2>2, <2>3, <2>4, RowTypes DEF Work
  <2> QED
    BY <2>3, <2>5, <2>6
<1>3. \A s \in ScheduleIds, k \in Technicians :
          /\ Inserting(s, k) \in Work /\ Inserting(s, k).pc = "insert"
          /\ Inserting(s, k).schedule = s
  BY InsertingType
<1>4. \A c \in CoverageIds : Cancelling(c) \in Work /\ Cancelling(c).pc = "cancel" /\ Cancelling(c).coverage = c
  BY CancellingType
<1>5. \A s \in ScheduleIds, w \in Weeks, c \in CoverageIds \cup {Null} :
          /\ Marking(s, w, c) \in Work /\ Marking(s, w, c).pc = "mark"
          /\ Marking(s, w, c).schedule = s /\ Marking(s, w, c).week = w
          /\ Marking(s, w, c).coverage = c
  BY MarkingType
<1>6. Ended.pc = "end" /\ NoWork.pc = "idle"
  BY DEF Ended, NoWork
<1> QED
  BY <1>1, <1>2, <1>3, <1>4, <1>5, <1>6, Zenon

LEMMA PlannedType ==
    ASSUME NEW q \in Work, NEW toggled \in SUBSET ScheduleIds, NEW weekly \in SUBSET ScheduleIds,
           NEW missing \in SUBSET Technicians, wanted \in BOOLEAN
    PROVE  /\ Planned(q, toggled, weekly, missing) \in Work
           /\ Planned(q, toggled, weekly, missing).pc \in {"group", "end", "planned"}
<1>1. CASE toggled = {} /\ weekly = {} /\ missing = {}
  BY <1>1, WorkTypes DEF Planned
<1>2. CASE ~(toggled = {} /\ weekly = {} /\ missing = {})
  BY <1>2 DEF Planned, Work
<1> QED
  BY <1>1, <1>2

\* New rows.
LEMMA NewRows ==
    /\ \A k \in Technicians \cup {Null} :
          /\ NewSchedule(k) \in ScheduleRow /\ NewSchedule(k).life = "live"
          /\ NewSchedule(k).lastRun = Null
    /\ \A q \in Work :
          /\ NewCoverage(q) \in CoverageRow /\ NewCoverage(q).life = "live"
          /\ NewCoverage(q).schedule = q.schedule /\ NewCoverage(q).week = q.week
          /\ NewCoverage(q).completed = Null
<1>1. \A k \in Technicians \cup {Null} :
          /\ NewSchedule(k) \in ScheduleRow /\ NewSchedule(k).life = "live"
          /\ NewSchedule(k).lastRun = Null
  BY DEF NewSchedule, NoScheduleRow, ScheduleRow, Life
<1>2. \A q \in Work :
          /\ NewCoverage(q) \in CoverageRow /\ NewCoverage(q).life = "live"
          /\ NewCoverage(q).schedule = q.schedule /\ NewCoverage(q).week = q.week
          /\ NewCoverage(q).completed = Null
  BY RowTypes DEF NewCoverage, NoCoverageRow, CoverageRow, Work, Life
<1> QED
  BY <1>1, <1>2
-----------------------------------------------------------------------------
(* Outside the end of a week rows are only added or changed in place. *)

RowsGrow ==
    /\ \A s \in ScheduleIds : schedule[s].life # "unused" => schedule'[s].life # "unused"
    /\ \A c \in CoverageIds : coverage[c].life # "unused" =>
          /\ coverage'[c].life # "unused" /\ coverage'[c].schedule = coverage[c].schedule
          /\ coverage'[c].week = coverage[c].week

LEMMA WorkerFrame ==
    ASSUME RowsGrow, NEW q, WorkerOK(q, schedule, coverage)
    PROVE  WorkerOK(q, schedule', coverage')
  BY DEF RowsGrow, WorkerOK

\* What one worker's step does to the lock.
LockStep(r, q) ==
    \/ lock' = lock /\ (r \in Requests \/ work[r].pc # "idle")
    \/ r \in Instances /\ lock = Null /\ lock' = r
    \/ r \in Instances /\ lock' = (IF lock = r THEN Null ELSE lock) /\ q.pc = "idle"

LEMMA WorkStep ==
    ASSUME TypeOK, WorkersOK, JobHoldsLock, RowsGrow, NEW r \in Workers, NEW q \in Work,
           work' = [work EXCEPT ![r] = q], WorkerOK(q, schedule', coverage'), LockStep(r, q)
    PROVE  work' \in [Workers -> Work] /\ WorkersOK' /\ JobHoldsLock'
<1>1. work \in [Workers -> Work]
  BY DEF TypeOK
<1>2. work' \in [Workers -> Work] /\ work'[r] = q /\ \A o \in Workers \ {r} : work'[o] = work[o]
  BY <1>1
<1>3. WorkersOK'
  <2> SUFFICES ASSUME NEW o \in Workers PROVE WorkerOK(work'[o], schedule', coverage')
    BY DEF WorkersOK
  <2>1. CASE o = r
    BY <2>1, <1>2
  <2>2. CASE o # r
    BY <2>2, <1>2, WorkerFrame DEF WorkersOK
  <2> QED
    BY <2>1, <2>2
<1>4. JobHoldsLock'
  <2> SUFFICES ASSUME NEW i \in Instances, work'[i].pc # "idle" PROVE lock' = i
    BY DEF JobHoldsLock
  <2>1. i \in Workers /\ Null \notin Instances /\ Instances \cap Requests = {}
    BY InstancesAssumption, SchedulesAssumption DEF Workers
  <2>2. i # r => work[i].pc # "idle" /\ lock = i
    BY <1>2, <2>1 DEF JobHoldsLock
  <2>3. CASE lock' = lock /\ (r \in Requests \/ work[r].pc # "idle")
    BY <2>1, <2>2, <2>3 DEF JobHoldsLock
  <2>4. CASE r \in Instances /\ lock = Null /\ lock' = r
    BY <2>1, <2>2, <2>4
  <2>5. CASE r \in Instances /\ lock' = (IF lock = r THEN Null ELSE lock) /\ q.pc = "idle"
    BY <1>2, <2>2, <2>5
  <2> QED
    BY <2>3, <2>4, <2>5 DEF LockStep
<1> QED
  BY <1>2, <1>3, <1>4

\* A step that leaves the worker records alone.
LEMMA IdleStep ==
    ASSUME TypeOK, WorkersOK, JobHoldsLock, RowsGrow, UNCHANGED <<work, lock>>
    PROVE  work' \in [Workers -> Work] /\ WorkersOK' /\ JobHoldsLock'
  BY WorkerFrame DEF TypeOK, WorkersOK, JobHoldsLock

\* A step that leaves the two tables alone.
LEMMA SameTables ==
    ASSUME TablesOK, UNCHANGED <<schedule, coverage>>
    PROVE  TablesOK' /\ RowsGrow
  BY DEF TablesOK, RowsOK, OneActiveCoverage, CompletedInItsWeek, CompletedMeansRan, RowsGrow

\* Schedules are inserted or changed, no last run is ever cleared.
LEMMA SchedulesStep ==
    ASSUME TablesOK, UNCHANGED coverage,
           \A s \in ScheduleIds :
              /\ schedule[s].life # "unused" => schedule'[s].life # "unused"
              /\ schedule[s].lastRun # Null => schedule'[s].lastRun # Null
              /\ schedule'[s].life = "unused" => schedule'[s].lastRun = Null
    PROVE  TablesOK' /\ RowsGrow
<1>1. RowsOK' /\ RowsGrow
  BY DEF TablesOK, RowsOK, RowsGrow
<1>2. OneActiveCoverage' /\ CompletedInItsWeek'
  BY DEF TablesOK, OneActiveCoverage, CompletedInItsWeek
<1>3. CompletedMeansRan'
  <2> SUFFICES ASSUME NEW c \in CoverageIds, coverage[c].completed # Null
               PROVE  schedule'[coverage[c].schedule].lastRun # Null
    BY DEF CompletedMeansRan
  <2>1. coverage[c].schedule \in ScheduleIds
    BY DEF TablesOK, RowsOK
  <2>2. schedule[coverage[c].schedule].lastRun # Null
    BY DEF TablesOK, CompletedMeansRan
  <2> QED
    BY <2>1, <2>2
<1> QED
  BY <1>1, <1>2, <1>3 DEF TablesOK

LEMMA ScheduleStep ==
    ASSUME TypeOK, TablesOK, UNCHANGED coverage, NEW row \in ScheduleRow, NEW s \in ScheduleIds,
           schedule' = [schedule EXCEPT ![s] = row],
           row.life # "unused", schedule[s].lastRun # Null => row.lastRun # Null
    PROVE  schedule' \in [ScheduleIds -> ScheduleRow] /\ TablesOK' /\ RowsGrow
<1>1. /\ schedule' \in [ScheduleIds -> ScheduleRow] /\ schedule'[s] = row
      /\ \A o \in ScheduleIds \ {s} : schedule'[o] = schedule[o]
  BY DEF TypeOK
<1>2. \A o \in ScheduleIds :
        /\ schedule[o].life # "unused" => schedule'[o].life # "unused"
        /\ schedule[o].lastRun # Null => schedule'[o].lastRun # Null
        /\ schedule'[o].life = "unused" => schedule'[o].lastRun = Null
  BY <1>1 DEF TablesOK, RowsOK
<1> QED
  BY <1>1, <1>2, SchedulesStep

\* A reassignment is inserted: no other is active for the schedule and the week.
LEMMA InsertStep ==
    ASSUME TypeOK, TablesOK, UNCHANGED schedule, NEW q \in Work, q.schedule \in ScheduleIds,
           ActiveCoverages(q.schedule, q.week) = {}, NEW c \in CoverageIds,
           coverage[c].life = "unused", coverage' = [coverage EXCEPT ![c] = NewCoverage(q)]
    PROVE  coverage' \in [CoverageIds -> CoverageRow] /\ TablesOK' /\ RowsGrow
<1> DEFINE row == NewCoverage(q)
<1>1. /\ row \in CoverageRow /\ row.life = "live" /\ row.schedule = q.schedule
      /\ row.week = q.week /\ row.completed = Null
  BY NewRows
<1> HIDE DEF row
<1>2. /\ coverage' \in [CoverageIds -> CoverageRow] /\ coverage'[c] = row
      /\ \A o \in CoverageIds \ {c} : coverage'[o] = coverage[o]
  BY <1>1 DEF TypeOK, row
<1>3. RowsOK' /\ RowsGrow
  BY <1>1, <1>2 DEF TablesOK, RowsOK, RowsGrow
<1>4. OneActiveCoverage'
  <2>1. ~ \E o \in CoverageIds : /\ coverage[o].life = "live" /\ ~coverage[o].cancelled
                                 /\ coverage[o].schedule = q.schedule /\ coverage[o].week = q.week
    BY DEF ActiveCoverages
  <2> QED
    BY <1>1, <1>2, <2>1 DEF TablesOK, OneActiveCoverage
<1>5. CompletedInItsWeek' /\ CompletedMeansRan'
  BY <1>1, <1>2 DEF TablesOK, CompletedInItsWeek, CompletedMeansRan
<1> QED
  BY <1>2, <1>3, <1>4, <1>5 DEF TablesOK

LEMMA CancelStep ==
    ASSUME TypeOK, TablesOK, UNCHANGED schedule, NEW c \in CoverageIds,
           coverage' = [coverage EXCEPT ![c].cancelled = TRUE]
    PROVE  coverage' \in [CoverageIds -> CoverageRow] /\ TablesOK' /\ RowsGrow
<1>1. coverage[c] \in CoverageRow
  BY DEF TypeOK
<1>2. PICK row : row = [coverage[c] EXCEPT !.cancelled = TRUE]
  OBVIOUS
<1>3. /\ row \in CoverageRow /\ row.life = coverage[c].life /\ row.schedule = coverage[c].schedule
      /\ row.week = coverage[c].week /\ row.completed = coverage[c].completed /\ row.cancelled
  BY <1>1, <1>2 DEF CoverageRow
<1>4. /\ coverage' \in [CoverageIds -> CoverageRow] /\ coverage'[c] = row
      /\ \A o \in CoverageIds \ {c} : coverage'[o] = coverage[o]
  BY <1>2, <1>3 DEF TypeOK
<1>5. RowsOK' /\ RowsGrow
  BY <1>3, <1>4 DEF TablesOK, RowsOK, RowsGrow
<1>6. OneActiveCoverage'
  BY <1>3, <1>4 DEF TablesOK, OneActiveCoverage
<1>7. CompletedInItsWeek' /\ CompletedMeansRan'
  BY <1>3, <1>4 DEF TablesOK, CompletedInItsWeek, CompletedMeansRan
<1> QED
  BY <1>4, <1>5, <1>6, <1>7 DEF TablesOK
\* A worker's record gives what MarkCommit writes.
LEMMA MarkStep ==
    ASSUME TypeOK, TablesOK, NEW q \in Work, q.pc = "mark", WorkerOK(q, schedule, coverage),
           schedule' = [schedule EXCEPT ![q.schedule].lastRun = q.week],
           coverage' = IF q.coverage = Null THEN coverage
                       ELSE [coverage EXCEPT ![q.coverage].completed = q.week]
    PROVE  /\ schedule' \in [ScheduleIds -> ScheduleRow]
           /\ coverage' \in [CoverageIds -> CoverageRow] /\ TablesOK' /\ RowsGrow
<1>1. /\ q.schedule \in ScheduleIds /\ schedule[q.schedule].life # "unused"
      /\ q.coverage # Null =>
            /\ q.coverage \in CoverageIds /\ coverage[q.coverage].life # "unused"
            /\ coverage[q.coverage].schedule = q.schedule
            /\ coverage[q.coverage].week = q.week
      /\ q.week \in Weeks /\ q.week # Null
  BY NullAssumption DEF WorkerOK, Work
<1>2. PICK row : row = [schedule[q.schedule] EXCEPT !.lastRun = q.week]
  OBVIOUS
<1>3. row \in ScheduleRow /\ row.life = schedule[q.schedule].life /\ row.lastRun = q.week
  BY <1>1, <1>2 DEF TypeOK, ScheduleRow
<1>4. /\ schedule' \in [ScheduleIds -> ScheduleRow] /\ schedule'[q.schedule] = row
      /\ \A o \in ScheduleIds \ {q.schedule} : schedule'[o] = schedule[o]
  BY <1>1, <1>2, <1>3 DEF TypeOK
<1>5. \A s \in ScheduleIds :
        /\ schedule'[s].life = schedule[s].life
        /\ schedule[s].lastRun # Null => schedule'[s].lastRun # Null
  BY <1>1, <1>3, <1>4
<1>6. /\ coverage' \in [CoverageIds -> CoverageRow]
      /\ \A c \in CoverageIds :
            /\ coverage'[c].life = coverage[c].life /\ coverage'[c].week = coverage[c].week
            /\ coverage'[c].schedule = coverage[c].schedule
            /\ coverage'[c].cancelled = coverage[c].cancelled
            /\ IF c = q.coverage THEN coverage'[c].completed = q.week
               ELSE coverage'[c].completed = coverage[c].completed
  <2>1. CASE q.coverage = Null
    <3>1. \A c \in CoverageIds : c # q.coverage
      BY <2>1, SchedulesAssumption
    <3> QED
      BY <2>1, <3>1 DEF TypeOK
  <2>2. CASE q.coverage # Null
    <3>1. PICK cov : cov = [coverage[q.coverage] EXCEPT !.completed = q.week]
      OBVIOUS
    <3>2. coverage[q.coverage] \in CoverageRow
      BY <1>1, <2>2 DEF TypeOK
    <3>3. /\ cov \in CoverageRow /\ cov.life = coverage[q.coverage].life
          /\ cov.week = coverage[q.coverage].week /\ cov.schedule = coverage[q.coverage].schedule
          /\ cov.cancelled = coverage[q.coverage].cancelled /\ cov.completed = q.week
      BY <1>1, <3>1, <3>2 DEF CoverageRow
    <3>4. /\ coverage' \in [CoverageIds -> CoverageRow] /\ coverage'[q.coverage] = cov
          /\ \A o \in CoverageIds \ {q.coverage} : coverage'[o] = coverage[o]
      BY <1>1, <2>2, <3>1, <3>3 DEF TypeOK
    <3> QED
      BY <3>3, <3>4
  <2> QED
    BY <2>1, <2>2
<1>7. RowsOK' /\ RowsGrow
  BY <1>1, <1>4, <1>5, <1>6 DEF TablesOK, RowsOK, RowsGrow
<1>8. OneActiveCoverage'
  BY <1>6 DEF TablesOK, OneActiveCoverage
<1>9. CompletedInItsWeek'
  BY <1>1, <1>6, SchedulesAssumption DEF TablesOK, CompletedInItsWeek
<1>10. CompletedMeansRan'
  <2> SUFFICES ASSUME NEW c \in CoverageIds, coverage'[c].completed # Null
               PROVE  schedule'[coverage'[c].schedule].lastRun # Null
    BY DEF CompletedMeansRan
  <2>1. CASE c = q.coverage
    <3>1. q.coverage # Null
      BY <2>1, SchedulesAssumption
    <3>2. coverage'[c].schedule = q.schedule
      BY <1>1, <1>6, <2>1, <3>1
    <3> QED
      BY <1>1, <1>3, <1>4, <3>2
  <2>2. CASE c # q.coverage
    <3>1. coverage[c].completed # Null /\ coverage'[c].schedule = coverage[c].schedule
      BY <1>6, <2>2
    <3>2. coverage[c].schedule \in ScheduleIds /\ schedule[coverage[c].schedule].lastRun # Null
      BY <3>1 DEF TablesOK, RowsOK, CompletedMeansRan
    <3> QED
      BY <1>5, <3>1, <3>2
  <2> QED
    BY <2>1, <2>2
<1> QED
  BY <1>4, <1>6, <1>7, <1>8, <1>9, <1>10 DEF TablesOK
-----------------------------------------------------------------------------
(* The end of a week. *)

LEMMA AgedRows ==
    /\ \A row \in ScheduleRow :
          /\ AgedSchedule(row) \in ScheduleRow /\ AgedSchedule(row).life = row.life
          /\ row.lastRun = Null <=> AgedSchedule(row).lastRun = Null
    /\ \A row \in CoverageRow :
          /\ AgedCoverage(row) \in CoverageRow /\ AgedCoverage(row).life = row.life
          /\ AgedCoverage(row).schedule = row.schedule
          /\ AgedCoverage(row).cancelled = row.cancelled
          /\ IF row.life = "unused" THEN AgedCoverage(row) = row
             ELSE /\ AgedCoverage(row).week = Before(row.week)
                  /\ IF row.completed = Null THEN AgedCoverage(row).completed = Null
                     ELSE AgedCoverage(row).completed = Before(row.completed)
    /\ \A q \in Work :
          /\ AgedWork(q) \in Work /\ AgedWork(q).pc = q.pc
          /\ AgedWork(q).schedule = q.schedule /\ AgedWork(q).coverage = q.coverage
          /\ q.pc # "idle" => AgedWork(q).week = Before(q.week)
<1>1. \A row \in ScheduleRow :
          /\ AgedSchedule(row) \in ScheduleRow /\ AgedSchedule(row).life = row.life
          /\ row.lastRun = Null <=> AgedSchedule(row).lastRun = Null
  BY WeekTypes, NullAssumption DEF AgedSchedule, ScheduleRow
<1>2. ASSUME NEW row \in CoverageRow, NEW aged, aged = AgedCoverage(row)
      PROVE  /\ aged \in CoverageRow /\ aged.life = row.life /\ aged.schedule = row.schedule
             /\ aged.cancelled = row.cancelled
             /\ IF row.life = "unused" THEN aged = row
                ELSE /\ aged.week = Before(row.week)
                     /\ IF row.completed = Null THEN aged.completed = Null
                        ELSE aged.completed = Before(row.completed)
  <2>1. CASE row.life = "unused"
    BY <1>2, <2>1 DEF AgedCoverage
  <2>2. CASE row.life # "unused"
    <3>1. PICK done : done = IF row.completed = Null THEN Null ELSE Before(row.completed)
      OBVIOUS
    <3>2. PICK week : week = Before(row.week)
      OBVIOUS
    <3>3. aged = [row EXCEPT !.week = week, !.completed = done]
      BY <1>2, <2>2, <3>1, <3>2 DEF AgedCoverage
    <3>4. done \in Weeks \cup {Null} /\ week \in Weeks
      BY <3>1, <3>2, WeekTypes DEF CoverageRow
    <3>5. aged \in CoverageRow /\ aged.life = row.life /\ aged.schedule = row.schedule
          /\ aged.cancelled = row.cancelled /\ aged.week = week /\ aged.completed = done
      BY <3>3, <3>4 DEF CoverageRow
    <3> QED
      BY <2>2, <3>1, <3>2, <3>5
  <2> QED
    BY <2>1, <2>2
<1>3. ASSUME NEW q \in Work, NEW aged, aged = AgedWork(q)
      PROVE  /\ aged \in Work /\ aged.pc = q.pc /\ aged.schedule = q.schedule
             /\ aged.coverage = q.coverage
             /\ q.pc # "idle" => aged.week = Before(q.week)
  <2>1. CASE q.pc = "idle"
    BY <1>3, <2>1 DEF AgedWork
  <2>2. CASE q.pc # "idle"
    <3>1. PICK week : week = Before(q.week)
      OBVIOUS
    <3>2. week \in Weeks
      BY <3>1, WeekTypes DEF Work
    <3>3. aged = [q EXCEPT !.week = week]
      BY <1>3, <2>2, <3>1 DEF AgedWork
    <3>4. /\ aged \in Work /\ aged.pc = q.pc /\ aged.schedule = q.schedule
          /\ aged.coverage = q.coverage /\ aged.week = week
      BY <3>2, <3>3 DEF Work
    <3> QED
      BY <3>1, <3>4
  <2> QED
    BY <2>1, <2>2
<1> QED
  BY <1>1, <1>2, <1>3

LEMMA WeekEnds ==
    ASSUME Inv, UNCHANGED lock,
           schedule' = [s \in ScheduleIds |-> AgedSchedule(schedule[s])],
           coverage' = [c \in CoverageIds |-> AgedCoverage(coverage[c])],
           work' = [r \in Workers |-> AgedWork(work[r])]
    PROVE  /\ schedule' \in [ScheduleIds -> ScheduleRow]
           /\ coverage' \in [CoverageIds -> CoverageRow]
           /\ work' \in [Workers -> Work] /\ WorkersOK' /\ JobHoldsLock' /\ TablesOK'
<1>1. /\ \A s \in ScheduleIds : schedule[s] \in ScheduleRow
      /\ \A c \in CoverageIds : coverage[c] \in CoverageRow
      /\ \A r \in Workers : work[r] \in Work
  BY DEF Inv, TypeOK
<1>2. /\ schedule' \in [ScheduleIds -> ScheduleRow]
      /\ coverage' \in [CoverageIds -> CoverageRow]
      /\ work' \in [Workers -> Work]
  BY <1>1, AgedRows
<1>3. \A s \in ScheduleIds :
        /\ schedule'[s].life = schedule[s].life
        /\ schedule[s].lastRun = Null <=> schedule'[s].lastRun = Null
  BY <1>1, AgedRows
<1>4. \A c \in CoverageIds :
        /\ coverage'[c].life = coverage[c].life /\ coverage'[c].schedule = coverage[c].schedule
        /\ coverage'[c].cancelled = coverage[c].cancelled
        /\ IF coverage[c].life = "unused" THEN coverage'[c] = coverage[c]
           ELSE /\ coverage'[c].week = Before(coverage[c].week)
                /\ IF coverage[c].completed = Null THEN coverage'[c].completed = Null
                   ELSE coverage'[c].completed = Before(coverage[c].completed)
  <2> SUFFICES ASSUME NEW c \in CoverageIds
               PROVE  /\ coverage'[c].life = coverage[c].life
                      /\ coverage'[c].schedule = coverage[c].schedule
                      /\ coverage'[c].cancelled = coverage[c].cancelled
                      /\ IF coverage[c].life = "unused" THEN coverage'[c] = coverage[c]
                         ELSE /\ coverage'[c].week = Before(coverage[c].week)
                              /\ IF coverage[c].completed = Null THEN coverage'[c].completed = Null
                                 ELSE coverage'[c].completed = Before(coverage[c].completed)
    OBVIOUS
  <2>1. coverage'[c] = AgedCoverage(coverage[c]) /\ coverage[c] \in CoverageRow
    BY <1>1
  <2> QED
    BY <2>1, AgedRows
<1>5. \A r \in Workers :
        /\ work'[r].pc = work[r].pc /\ work'[r].schedule = work[r].schedule
        /\ work'[r].coverage = work[r].coverage
        /\ work[r].pc # "idle" => work'[r].week = Before(work[r].week)
  <2> SUFFICES ASSUME NEW r \in Workers
               PROVE  /\ work'[r].pc = work[r].pc /\ work'[r].schedule = work[r].schedule
                      /\ work'[r].coverage = work[r].coverage
                      /\ work[r].pc # "idle" => work'[r].week = Before(work[r].week)
    OBVIOUS
  <2>1. work'[r] = AgedWork(work[r]) /\ work[r] \in Work
    BY <1>1
  <2> QED
    BY <2>1, AgedRows
<1>6. WorkersOK'
  BY <1>3, <1>4, <1>5 DEF Inv, WorkersOK, WorkerOK
<1>7. JobHoldsLock'
  BY <1>5 DEF Inv, JobHoldsLock, Workers
<1>8. RowsOK'
  BY <1>3, <1>4 DEF Inv, TablesOK, RowsOK
<1>9. OneActiveCoverage'
  <2>1. \A v, w \in Weeks : Before(v) = Before(w) /\ Before(v) # Earliest => v = w /\ v # Earliest
    BY DEF Before, Weeks, Earliest
  <2>2. \A c \in CoverageIds : coverage[c].week \in Weeks
    BY <1>1 DEF CoverageRow
  <2> SUFFICES ASSUME NEW c \in CoverageIds, NEW d \in CoverageIds,
                      coverage'[c].life = "live", ~coverage'[c].cancelled,
                      coverage'[d].life = "live", ~coverage'[d].cancelled,
                      coverage'[c].schedule = coverage'[d].schedule,
                      coverage'[c].week = coverage'[d].week, coverage'[c].week # Earliest
               PROVE  c = d
    BY DEF OneActiveCoverage
  <2>3. coverage[c].week = coverage[d].week /\ coverage[c].week # Earliest
    BY <1>4, <2>1, <2>2
  <2>4. /\ coverage[c].life = "live" /\ ~coverage[c].cancelled
        /\ coverage[d].life = "live" /\ ~coverage[d].cancelled
        /\ coverage[c].schedule = coverage[d].schedule
    BY <1>4
  <2> QED
    BY <2>3, <2>4 DEF Inv, TablesOK, OneActiveCoverage
<1>10. CompletedInItsWeek'
  BY <1>4 DEF Inv, TablesOK, CompletedInItsWeek
<1>11. CompletedMeansRan'
  <2> SUFFICES ASSUME NEW c \in CoverageIds, coverage'[c].completed # Null
               PROVE  schedule'[coverage'[c].schedule].lastRun # Null
    BY DEF CompletedMeansRan
  <2>1. coverage[c].completed # Null
    BY <1>4 DEF Inv, TablesOK, RowsOK
  <2>2. coverage[c].schedule \in ScheduleIds /\ schedule[coverage[c].schedule].lastRun # Null
    BY <2>1 DEF Inv, TablesOK, RowsOK, CompletedMeansRan
  <2> QED
    BY <1>3, <1>4, <2>2
<1> QED
  BY <1>2, <1>6, <1>7, <1>8, <1>9, <1>10, <1>11 DEF TablesOK
-----------------------------------------------------------------------------
(* The commit of ensure_weekly_due_diligence_schedules. *)

LEMMA EnsureStep ==
    ASSUME TypeOK, TablesOK, UNCHANGED coverage, NEW q \in Work,
           NEW new \in [q.missing -> {s \in ScheduleIds : schedule[s].life = "unused"}],
           schedule' = [s \in ScheduleIds |->
                IF \E k \in q.missing : new[k] = s
                THEN NewSchedule(CHOOSE k \in q.missing : new[k] = s)
                ELSE [schedule[s] EXCEPT
                        !.active = IF s \in q.toggled THEN q.active ELSE @,
                        !.weekly = IF s \in q.weekly THEN TRUE ELSE @]]
    PROVE  schedule' \in [ScheduleIds -> ScheduleRow] /\ TablesOK' /\ RowsGrow
<1>1. ASSUME NEW s \in ScheduleIds
      PROVE  /\ schedule'[s] \in ScheduleRow
             /\ schedule[s].life # "unused" => schedule'[s].life # "unused"
             /\ schedule[s].lastRun # Null => schedule'[s].lastRun # Null
             /\ schedule'[s].life = "unused" => schedule'[s].lastRun = Null
  <2>1. CASE \E k \in q.missing : new[k] = s
    <3>1. PICK j : j = CHOOSE k \in q.missing : new[k] = s
      OBVIOUS
    <3>2. j \in q.missing
      BY <2>1, <3>1
    <3>3. j \in Technicians \cup {Null} /\ schedule[s].life = "unused"
      BY <2>1, <3>2 DEF Work
    <3>4. schedule'[s] = NewSchedule(j)
      BY <2>1, <3>1
    <3> QED
      BY <3>3, <3>4, NewRows DEF TablesOK, RowsOK
  <2>2. CASE ~ \E k \in q.missing : new[k] = s
    <3>1. PICK active : active = IF s \in q.toggled THEN q.active ELSE schedule[s].active
      OBVIOUS
    <3>2. PICK weekly : weekly = IF s \in q.weekly THEN TRUE ELSE schedule[s].weekly
      OBVIOUS
    <3>3. schedule'[s] = [schedule[s] EXCEPT !.active = active, !.weekly = weekly]
      BY <2>2, <3>1, <3>2
    <3>4. schedule[s] \in ScheduleRow /\ active \in BOOLEAN /\ weekly \in BOOLEAN
      BY <3>1, <3>2 DEF TypeOK, Work, ScheduleRow
    <3>5. /\ schedule'[s] \in ScheduleRow /\ schedule'[s].life = schedule[s].life
          /\ schedule'[s].lastRun = schedule[s].lastRun
      BY <3>3, <3>4 DEF ScheduleRow
    <3> QED
      BY <3>5 DEF TablesOK, RowsOK
  <2> QED
    BY <2>1, <2>2
<1>2. schedule' \in [ScheduleIds -> ScheduleRow]
  BY <1>1
<1> QED
  BY <1>1, <1>2, SchedulesStep
-----------------------------------------------------------------------------
(* The steps of one worker. *)

SideTypes == /\ SchedulerTypeOK /\ assigned \subseteq Technicians /\ wanted \in BOOLEAN
             /\ weekday \in Weekdays /\ told \in [Technicians -> 0..2]

LEMMA WorkerStep ==
    ASSUME Inv, NEW r \in Workers, NEW q \in Work, work' = [work EXCEPT ![r] = q],
           schedule' \in [ScheduleIds -> ScheduleRow], coverage' \in [CoverageIds -> CoverageRow],
           TablesOK', RowsGrow, SideTypes', WorkerOK(q, schedule', coverage'), LockStep(r, q)
    PROVE  Inv'
<1>1. work' \in [Workers -> Work] /\ WorkersOK' /\ JobHoldsLock'
  BY WorkStep DEF Inv
<1> QED
  BY <1>1 DEF Inv, TypeOK, SideTypes

\* It leaves the two tables alone, and its next step does not write them.
LEMMA QuietStep ==
    ASSUME Inv, NEW r \in Workers, NEW q \in Work, work' = [work EXCEPT ![r] = q],
           UNCHANGED <<schedule, coverage>>, SideTypes',
           WorkerOK(q, schedule, coverage), LockStep(r, q)
    PROVE  Inv'
<1>1. TablesOK' /\ RowsGrow
  BY SameTables DEF Inv
<1>2. schedule' \in [ScheduleIds -> ScheduleRow] /\ coverage' \in [CoverageIds -> CoverageRow]
  BY DEF Inv, TypeOK
<1> QED
  BY <1>1, <1>2, WorkerStep

LEMMA FreeWorker ==
    ASSUME NEW q, q.pc \notin {"insert", "cancel", "mark"}, NEW sch, NEW cov
    PROVE  WorkerOK(q, sch, cov)
  BY DEF WorkerOK

\* A request that begins.
LEMMA RequestBegins ==
    ASSUME Inv, NEW r \in Requests,
           \/ ListSchedules(r) \/ SetSites(r) \/ CreateCoverage(r) \/ CancelCoverage(r)
           \/ FieldWorkDone(r) \/ PatrolDone(r) \/ ManualCheck(r)
    PROVE  Inv'
<1> r \in Workers
  BY DEF Workers
<1>1. CASE ListSchedules(r)
  <2>1. PICK ks \in SUBSET Technicians : work' = [work EXCEPT ![r] = Ensuring("list", ks)]
    BY <1>1 DEF ListSchedules
  <2>2. Ensuring("list", ks) \in Work /\ Ensuring("list", ks).pc = "ensure"
    BY WorkTypes DEF AllOperations
  <2>3. WorkerOK(Ensuring("list", ks), schedule, coverage)
    BY <2>2, FreeWorker
  <2>4. LockStep(r, Ensuring("list", ks)) /\ SideTypes' /\ UNCHANGED <<schedule, coverage>>
    BY <1>1 DEF ListSchedules, LockStep, SideTypes, Inv, TypeOK, tables, scheduler, clock,
       SchedulerTypeOK
  <2> QED
    BY <2>1, <2>2, <2>3, <2>4, QuietStep
<1>2. CASE SetSites(r)
  <2>1. PICK k \in Technicians : /\ assigned' \in {assigned \cup {k}, assigned \ {k}}
                                /\ work' = [work EXCEPT ![r] = Ensuring("set_sites", {k})]
    BY <1>2 DEF SetSites
  <2>2. Ensuring("set_sites", {k}) \in Work /\ Ensuring("set_sites", {k}).pc = "ensure"
    BY WorkTypes DEF AllOperations
  <2>3. WorkerOK(Ensuring("set_sites", {k}), schedule, coverage)
    BY <2>2, FreeWorker
  <2>4. LockStep(r, Ensuring("set_sites", {k})) /\ UNCHANGED <<schedule, coverage>>
    BY <1>2 DEF SetSites, LockStep, scheduler
  <2>5. SideTypes'
    BY <1>2, <2>1 DEF SetSites, SideTypes, Inv, TypeOK, scheduler, clock, SchedulerTypeOK
  <2> QED
    BY <2>1, <2>2, <2>3, <2>4, <2>5, QuietStep
<1>3. CASE CreateCoverage(r)
  <2>1. PICK s \in ScheduleIds, k \in Technicians : work' = [work EXCEPT ![r] = Inserting(s, k)]
    BY <1>3 DEF CreateCoverage
  <2>2. PICK q : q = Inserting(s, k)
    OBVIOUS
  <2>3. q \in Work /\ q.pc = "insert" /\ q.schedule = s
    BY <2>2, InsertingType
  <2>4. WorkerOK(q, schedule, coverage)
    BY <2>3 DEF WorkerOK
  <2>5. LockStep(r, q) /\ SideTypes' /\ UNCHANGED <<schedule, coverage>>
    BY <1>3 DEF CreateCoverage, LockStep, SideTypes, Inv, TypeOK, tables, scheduler, clock,
       SchedulerTypeOK
  <2> QED
    BY <2>1, <2>2, <2>3, <2>4, <2>5, QuietStep
<1>4. CASE CancelCoverage(r)
  <2>1. PICK c \in CoverageIds : work' = [work EXCEPT ![r] = Cancelling(c)]
    BY <1>4 DEF CancelCoverage
  <2>2. PICK q : q = Cancelling(c)
    OBVIOUS
  <2>3. q \in Work /\ q.pc = "cancel" /\ q.coverage = c
    BY <2>2, CancellingType
  <2>4. WorkerOK(q, schedule, coverage)
    BY <2>3 DEF WorkerOK
  <2>5. LockStep(r, q) /\ SideTypes' /\ UNCHANGED <<schedule, coverage>>
    BY <1>4 DEF CancelCoverage, LockStep, SideTypes, Inv, TypeOK, tables, scheduler, clock,
       SchedulerTypeOK
  <2> QED
    BY <2>1, <2>2, <2>3, <2>4, <2>5, QuietStep
<1>5. CASE FieldWorkDone(r)
  <2>1. PICK s \in ScheduleIds, w \in {-1, 0} :
           /\ schedule[s].life = "live"
           /\ \E c \in IF ActiveCoverages(s, w) = {} THEN {Null} ELSE ActiveCoverages(s, w) :
                work' = [work EXCEPT ![r] = Marking(s, w,
                           IF c # Null /\ coverage[c].completed = Null THEN c ELSE Null)]
    BY <1>5 DEF FieldWorkDone
  <2>2. PICK c \in {Null} \cup ActiveCoverages(s, w) :
           work' = [work EXCEPT ![r] = Marking(s, w,
                      IF c # Null /\ coverage[c].completed = Null THEN c ELSE Null)]
    BY <2>1
  <2>3. PICK d : d = IF c # Null /\ coverage[c].completed = Null THEN c ELSE Null
    OBVIOUS
  <2>4. d \in CoverageIds \cup {Null} /\ w \in Weeks
    BY <2>2, <2>3, WeekTypes DEF ActiveCoverages
  <2>5. PICK q : q = Marking(s, w, d)
    OBVIOUS
  <2>6. q \in Work /\ q.pc = "mark" /\ q.schedule = s /\ q.week = w /\ q.coverage = d
    BY <2>4, <2>5, MarkingType
  <2>7. d # Null => /\ coverage[d].life = "live" /\ coverage[d].schedule = s
                    /\ coverage[d].week = w /\ d \in CoverageIds
    BY <2>2, <2>3 DEF ActiveCoverages
  <2>8. WorkerOK(q, schedule, coverage)
    BY <2>1, <2>6, <2>7 DEF WorkerOK
  <2>9. LockStep(r, q) /\ SideTypes' /\ UNCHANGED <<schedule, coverage>>
    BY <1>5 DEF FieldWorkDone, LockStep, SideTypes, Inv, TypeOK, tables, scheduler, clock,
       SchedulerTypeOK
  <2> QED
    BY <2>2, <2>3, <2>5, <2>6, <2>8, <2>9, QuietStep
<1>6. CASE ManualCheck(r)
  <2>1. PICK q : q = Ensuring("check_weekly", Technicians)
    OBVIOUS
  <2>2. q \in Work /\ q.pc = "ensure"
    BY <2>1, WorkTypes DEF AllOperations
  <2>3. WorkerOK(q, schedule, coverage)
    BY <2>2, FreeWorker
  <2>4. LockStep(r, q) /\ SideTypes' /\ UNCHANGED <<schedule, coverage>>
    BY <1>6 DEF ManualCheck, LockStep, SideTypes, Inv, TypeOK, tables, scheduler, clock,
       SchedulerTypeOK
  <2> QED
    BY <1>6, <2>1, <2>2, <2>3, <2>4, QuietStep DEF ManualCheck
<1>7. CASE PatrolDone(r)
  <2>1. PICK s \in ScheduleIds : /\ schedule[s].life = "live"
                                 /\ work' = [work EXCEPT ![r] = Marking(s, 0, Null)]
    BY <1>7 DEF PatrolDone
  <2>2. PICK q : q = Marking(s, 0, Null)
    OBVIOUS
  <2>3. q \in Work /\ q.pc = "mark" /\ q.schedule = s /\ q.week = 0 /\ q.coverage = Null
    BY <2>2, MarkingType, WeekTypes
  <2>4. WorkerOK(q, schedule, coverage)
    BY <2>1, <2>3 DEF WorkerOK
  <2>5. LockStep(r, q) /\ SideTypes' /\ UNCHANGED <<schedule, coverage>>
    BY <1>7 DEF PatrolDone, LockStep, SideTypes, Inv, TypeOK, tables, scheduler, clock,
       SchedulerTypeOK
  <2> QED
    BY <2>1, <2>2, <2>3, <2>4, <2>5, QuietStep
<1> QED
  BY <1>1, <1>2, <1>3, <1>4, <1>5, <1>6, <1>7

\* A request or job that goes on.
LEMMA WorkerProceeds ==
    ASSUME Inv, NEW r \in Workers, Proceed(r)
    PROVE  Inv'
<1>0. work[r] \in Work /\ WorkerOK(work[r], schedule, coverage)
  BY DEF Inv, TypeOK, WorkersOK
<1>1. CASE EnsureLoad(r)
  <2>1. PICK toggled \in SUBSET ScheduleIds, weekly \in SUBSET ScheduleIds,
             missing \in SUBSET Technicians :
           work' = [work EXCEPT ![r] = Planned(work[r], toggled, weekly, missing)]
    <3> DEFINE ks      == work[r].techs \cap assigned
               toggled == {s \in ScheduleIds :
                             \E k \in ks : s \in LiveOf(k) /\ schedule[s].active # wanted}
               missing == {k \in ks : wanted /\ LiveOf(k) = {}}
               Weekly(first) == {s \in ScheduleIds : ~schedule[s].weekly
                                             /\ \E k \in DOMAIN first : first[k] = s}
    <3>1. PICK first \in [{k \in ks : wanted /\ LiveOf(k) # {}} -> ScheduleIds] :
             work' = [work EXCEPT ![r] = Planned(work[r], toggled, Weekly(first), missing)]
      BY <1>1, Zenon DEF EnsureLoad
    <3>2. missing \in SUBSET Technicians /\ toggled \in SUBSET ScheduleIds
      BY <1>0 DEF Work
    <3>3. Weekly(first) \in SUBSET ScheduleIds
      OBVIOUS
    <3> HIDE DEF toggled, missing, Weekly
    <3> QED
      BY <3>1, <3>2, <3>3
  <2>2. PICK q : q = Planned(work[r], toggled, weekly, missing)
    OBVIOUS
  <2>3. q \in Work /\ q.pc \in {"group", "end", "planned"}
    BY <1>0, <2>2, PlannedType DEF Inv, TypeOK
  <2>4. WorkerOK(q, schedule, coverage)
    BY <2>3, FreeWorker
  <2>5. LockStep(r, q) /\ SideTypes' /\ UNCHANGED <<schedule, coverage>>
    BY <1>1 DEF EnsureLoad, LockStep, SideTypes, Inv, TypeOK, tables, scheduler, clock,
       SchedulerTypeOK
  <2> QED
    BY <2>1, <2>2, <2>3, <2>4, <2>5, QuietStep
<1>2. CASE EnsureCommit(r)
  <2>1. PICK q : q = Ensured(work[r])
    OBVIOUS
  <2>2. q \in Work /\ q.pc \in {"group", "end"}
    BY <1>0, <2>1, WorkTypes
  <2>3. schedule' \in [ScheduleIds -> ScheduleRow] /\ TablesOK' /\ RowsGrow
    <3>1. PICK new \in [work[r].missing -> {s \in ScheduleIds : schedule[s].life = "unused"}] :
            schedule' = [s \in ScheduleIds |->
                IF \E k \in work[r].missing : new[k] = s
                THEN NewSchedule(CHOOSE k \in work[r].missing : new[k] = s)
                ELSE [schedule[s] EXCEPT
                        !.active = IF s \in work[r].toggled THEN work[r].active ELSE @,
                        !.weekly = IF s \in work[r].weekly THEN TRUE ELSE @]]
      BY <1>2 DEF EnsureCommit
    <3>2. UNCHANGED coverage /\ TypeOK /\ TablesOK
      BY <1>2 DEF EnsureCommit, Inv
    <3> QED
      BY <1>0, <3>1, <3>2, EnsureStep
  <2>4. WorkerOK(q, schedule', coverage')
    BY <2>2, FreeWorker
  <2>5. LockStep(r, q) /\ SideTypes' /\ coverage' \in [CoverageIds -> CoverageRow]
    BY <1>2 DEF EnsureCommit, LockStep, SideTypes, Inv, TypeOK, scheduler, clock, SchedulerTypeOK
  <2> QED
    BY <1>2, <2>1, <2>2, <2>3, <2>4, <2>5, WorkerStep DEF EnsureCommit
<1>e. Ended \in Work /\ Ended.pc = "end" /\ NoWork \in Work /\ NoWork.pc = "idle"
  BY RowTypes, WorkTypes
<1>3. CASE InsertCoverage(r)
  <2>1. CASE UNCHANGED coverage
    <3>1. LockStep(r, Ended) /\ SideTypes' /\ UNCHANGED <<schedule, coverage>>
      BY <1>3, <2>1 DEF InsertCoverage, LockStep, SideTypes, Inv, TypeOK, scheduler, clock,
         SchedulerTypeOK
    <3>2. WorkerOK(Ended, schedule, coverage)
      BY <1>e, FreeWorker
    <3> QED
      BY <1>3, <1>e, <3>1, <3>2, QuietStep DEF InsertCoverage
  <2>2. CASE coverage' # coverage
    <3>1. PICK c \in CoverageIds :
            /\ coverage[c].life = "unused"
            /\ coverage' = [coverage EXCEPT ![c] = NewCoverage(work[r])]
            /\ ActiveCoverages(work[r].schedule, work[r].week) = {}
      BY <1>3, <2>2 DEF InsertCoverage
    <3>2. work[r].schedule \in ScheduleIds /\ UNCHANGED schedule
      BY <1>0, <1>3 DEF InsertCoverage, WorkerOK
    <3>3. coverage' \in [CoverageIds -> CoverageRow] /\ TablesOK' /\ RowsGrow
      BY <1>0, <3>1, <3>2, InsertStep DEF Inv
    <3>4. /\ LockStep(r, Ended) /\ SideTypes' /\ schedule' \in [ScheduleIds -> ScheduleRow]
      BY <1>3 DEF InsertCoverage, LockStep, SideTypes, Inv, TypeOK, scheduler, clock,
         SchedulerTypeOK
    <3>5. WorkerOK(Ended, schedule', coverage')
      BY <1>e, FreeWorker
    <3> QED
      BY <1>3, <1>e, <3>3, <3>4, <3>5, WorkerStep DEF InsertCoverage
  <2> QED
    BY <2>1, <2>2
<1>4. CASE CancelCommit(r)
  <2>1. work[r].coverage \in CoverageIds /\ UNCHANGED schedule
    BY <1>0, <1>4 DEF CancelCommit, WorkerOK
  <2>2. coverage' \in [CoverageIds -> CoverageRow] /\ TablesOK' /\ RowsGrow
    BY <1>4, <2>1, CancelStep DEF CancelCommit, Inv
  <2>3. LockStep(r, Ended) /\ SideTypes' /\ schedule' \in [ScheduleIds -> ScheduleRow]
    BY <1>4 DEF CancelCommit, LockStep, SideTypes, Inv, TypeOK, scheduler, clock, SchedulerTypeOK
  <2>4. WorkerOK(Ended, schedule', coverage')
    BY <1>e, FreeWorker
  <2> QED
    BY <1>4, <1>e, <2>2, <2>3, <2>4, WorkerStep DEF CancelCommit
<1>5. CASE MarkCommit(r)
  <2>1. /\ schedule' \in [ScheduleIds -> ScheduleRow]
        /\ coverage' \in [CoverageIds -> CoverageRow] /\ TablesOK' /\ RowsGrow
    BY <1>0, <1>5, MarkStep DEF MarkCommit, Inv
  <2>2. LockStep(r, Ended) /\ SideTypes'
    BY <1>5 DEF MarkCommit, LockStep, SideTypes, Inv, TypeOK, scheduler, clock, SchedulerTypeOK
  <2>3. WorkerOK(Ended, schedule', coverage')
    BY <1>e, FreeWorker
  <2> QED
    BY <1>5, <1>e, <2>1, <2>2, <2>3, WorkerStep DEF MarkCommit
<1>6. CASE GroupSchedules(r)
  <2>1. PICK group \in SUBSET (Technicians \X ScheduleIds) :
           work' = [work EXCEPT ![r].pc = "alert", ![r].group = group]
    BY <1>6 DEF GroupSchedules
  <2>2. PICK q : q = [work[r] EXCEPT !.pc = "alert", !.group = group]
    OBVIOUS
  <2>3. q \in Work /\ q.pc = "alert" /\ work' = [work EXCEPT ![r] = q]
    BY <1>0, <2>1, <2>2 DEF Work, Inv, TypeOK
  <2>4. WorkerOK(q, schedule, coverage)
    BY <2>3, FreeWorker
  <2>5. LockStep(r, q) /\ SideTypes' /\ UNCHANGED <<schedule, coverage>>
    BY <1>6 DEF GroupSchedules, LockStep, SideTypes, Inv, TypeOK, tables, scheduler, clock,
       SchedulerTypeOK
  <2> QED
    BY <2>3, <2>4, <2>5, QuietStep
<1>7. CASE AlertTechnician(r)
  <2>1. PICK k \in Technicians :
           LET mine    == {ks \in work[r].group : ks[1] = k}
               overdue == {ks \in mine : schedule[ks[2]].lastRun # work[r].week} IN
           /\ work[r].pc = "alert" /\ mine # {}
           /\ told' = IF overdue # {} /\ r \in Instances /\ told[k] < 2
                      THEN [told EXCEPT ![k] = @ + 1] ELSE told
           /\ work' = [work EXCEPT ![r].group = @ \ mine]
    BY <1>7 DEF AlertTechnician
  <2> DEFINE mine == {ks \in work[r].group : ks[1] = k}
  <2>2. PICK q : q = [work[r] EXCEPT !.group = work[r].group \ mine]
    OBVIOUS
  <2>3. q \in Work /\ q.pc = "alert" /\ work' = [work EXCEPT ![r] = q]
    BY <1>0, <2>1, <2>2 DEF Work, Inv, TypeOK
  <2>4. WorkerOK(q, schedule, coverage)
    BY <2>3, FreeWorker
  <2>5. told' \in [Technicians -> 0..2]
    BY <2>1 DEF Inv, TypeOK
  <2>6. LockStep(r, q) /\ SideTypes' /\ UNCHANGED <<schedule, coverage>>
    BY <1>7, <2>5 DEF AlertTechnician, LockStep, SideTypes, Inv, TypeOK, tables, scheduler, clock,
       SchedulerTypeOK
  <2> QED
    BY <2>3, <2>4, <2>6, QuietStep
<1>8. CASE CheckDone(r)
  <2>1. LockStep(r, Ended) /\ SideTypes' /\ UNCHANGED <<schedule, coverage>>
    BY <1>8 DEF CheckDone, LockStep, SideTypes, Inv, TypeOK, tables, scheduler, clock,
       SchedulerTypeOK
  <2>2. WorkerOK(Ended, schedule, coverage)
    BY <1>e, FreeWorker
  <2> QED
    BY <1>8, <1>e, <2>1, <2>2, QuietStep DEF CheckDone
<1>9. CASE Fail(r) \/ End(r)
  <2>1. LockStep(r, NoWork) /\ SideTypes' /\ UNCHANGED <<schedule, coverage>>
    <3>1. r \in Instances \/ r \in Requests
      BY DEF Workers
    <3> QED
      BY <1>9, <1>e, <3>1 DEF Fail, End, Unlock, LockStep, SideTypes, Inv, TypeOK, tables,
         scheduler, clock, SchedulerTypeOK
  <2>2. WorkerOK(NoWork, schedule, coverage)
    BY <1>e, FreeWorker
  <2> QED
    BY <1>9, <1>e, <2>1, <2>2, QuietStep DEF Fail, End
<1> QED
  BY <1>1, <1>2, <1>3, <1>4, <1>5, <1>6, <1>7, <1>8, <1>9 DEF Proceed

\* An instance's tick, and its death.
LEMMA InstanceSteps ==
    ASSUME Inv, NEW i \in Instances, ScheduledCheck(i) \/ MissTick(i) \/ Crash(i)
    PROVE  Inv'
<1>0. /\ i \in Workers
      /\ Ended \in Work /\ Ended.pc = "end" /\ NoWork \in Work /\ NoWork.pc = "idle"
  BY RowTypes, WorkTypes DEF Workers
<1>1. CASE ScheduledCheck(i)
  <2>1. PICK q : q = IF CheckDay THEN Ensuring("check_weekly", Technicians) ELSE Ended
    OBVIOUS
  <2>2. q \in Work /\ q.pc \in {"ensure", "end"}
    BY <1>0, <2>1, WorkTypes DEF AllOperations
  <2>3. WorkerOK(q, schedule, coverage)
    BY <2>2, FreeWorker
  <2>4. LockStep(i, q) /\ SideTypes' /\ UNCHANGED <<schedule, coverage>>
    BY <1>1 DEF ScheduledCheck, TryLock, LockStep, SideTypes, Inv, TypeOK, tables, clock,
       SchedulerTypeOK
  <2> QED
    BY <1>0, <1>1, <2>1, <2>2, <2>3, <2>4, QuietStep DEF ScheduledCheck
<1>2. CASE MissTick(i)
  <2>1. UNCHANGED <<schedule, coverage, work, lock>> /\ SideTypes'
    BY <1>2 DEF MissTick, SkipTick, SideTypes, Inv, TypeOK, tables, clock, SchedulerTypeOK
  <2>2. TablesOK' /\ RowsGrow
    BY <2>1, SameTables DEF Inv
  <2>3. work' \in [Workers -> Work] /\ WorkersOK' /\ JobHoldsLock'
    BY <2>1, <2>2, IdleStep DEF Inv
  <2> QED
    BY <2>1, <2>2, <2>3 DEF Inv, TypeOK, SideTypes
<1>3. CASE Crash(i)
  <2>1. LockStep(i, NoWork) /\ SideTypes' /\ UNCHANGED <<schedule, coverage>>
    BY <1>0, <1>3 DEF Crash, InstanceCrash, LockStep, SideTypes, Inv, TypeOK, tables, clock,
       SchedulerTypeOK
  <2>2. WorkerOK(NoWork, schedule, coverage)
    BY <1>0, FreeWorker
  <2> QED
    BY <1>0, <1>3, <2>1, <2>2, QuietStep DEF Crash
<1> QED
  BY <1>1, <1>2, <1>3

\* One statement on one schedule, or on the site.
LEMMA TableEdits ==
    ASSUME Inv,
           \/ \E s \in ScheduleIds :
                 CreateSchedule(s) \/ UpdateSchedule(s) \/ MarkDone(s) \/ DeleteSchedule(s)
           \/ UpdateSite
    PROVE  Inv'
<1>1. UNCHANGED <<work, coverage, lock>> /\ SideTypes'
  BY DEF CreateSchedule, UpdateSchedule, MarkDone, DeleteSchedule, UpdateSite, SideTypes, Inv,
     TypeOK, scheduler, clock, SchedulerTypeOK
<1>2. schedule' \in [ScheduleIds -> ScheduleRow] /\ TablesOK' /\ RowsGrow
  <2>1. ASSUME NEW s \in ScheduleIds, NEW row \in ScheduleRow, row.life # "unused",
               schedule[s].lastRun # Null => row.lastRun # Null,
               schedule' = [schedule EXCEPT ![s] = row]
        PROVE  schedule' \in [ScheduleIds -> ScheduleRow] /\ TablesOK' /\ RowsGrow
    BY <1>1, <2>1, ScheduleStep DEF Inv
  <2>2. ASSUME NEW s \in ScheduleIds, CreateSchedule(s)
        PROVE  schedule' \in [ScheduleIds -> ScheduleRow] /\ TablesOK' /\ RowsGrow
    <3>1. PICK k \in Technicians \cup {Null}, active \in BOOLEAN, weekly \in BOOLEAN,
               run \in Weeks \cup {Null} :
            schedule' = [schedule EXCEPT ![s] =
               [life |-> "live", owner |-> k, active |-> active, weekly |-> weekly, lastRun |-> run]]
      BY <2>2 DEF CreateSchedule
    <3>2. PICK row : row = [life |-> "live", owner |-> k, active |-> active, weekly |-> weekly,
                            lastRun |-> run]
      OBVIOUS
    <3>3. row \in ScheduleRow /\ row.life # "unused"
      BY <3>2 DEF ScheduleRow, Life
    <3>4. schedule[s].lastRun = Null
      BY <2>2 DEF CreateSchedule, Inv, TablesOK, RowsOK
    <3> QED
      BY <2>1, <3>1, <3>2, <3>3, <3>4
  <2>3. ASSUME NEW s \in ScheduleIds, UpdateSchedule(s)
        PROVE  schedule' \in [ScheduleIds -> ScheduleRow] /\ TablesOK' /\ RowsGrow
    <3>1. PICK k \in Technicians \cup {schedule[s].owner}, active \in BOOLEAN, weekly \in BOOLEAN,
               run \in Weeks \cup {schedule[s].lastRun} :
            schedule' = [schedule EXCEPT ![s] =
               [@ EXCEPT !.owner = k, !.active = active, !.weekly = weekly, !.lastRun = run]]
      BY <2>3 DEF UpdateSchedule
    <3>2. PICK row : row = [schedule[s] EXCEPT !.owner = k, !.active = active, !.weekly = weekly,
                                               !.lastRun = run]
      OBVIOUS
    <3>3. schedule[s] \in ScheduleRow
      BY DEF Inv, TypeOK
    <3>4. row \in ScheduleRow /\ row.life = schedule[s].life /\ row.lastRun = run
      BY <3>2, <3>3 DEF ScheduleRow
    <3>5. schedule[s].lastRun # Null => row.lastRun # Null
      BY <3>4, NullAssumption
    <3>6. schedule' = [schedule EXCEPT ![s] = row] /\ schedule[s].life = "live"
      BY <2>3, <3>1, <3>2 DEF UpdateSchedule
    <3> QED
      BY <2>1, <3>4, <3>5, <3>6
  <2>4. ASSUME NEW s \in ScheduleIds, MarkDone(s)
        PROVE  schedule' \in [ScheduleIds -> ScheduleRow] /\ TablesOK' /\ RowsGrow
    <3>1. PICK row : row = [schedule[s] EXCEPT !.lastRun = 0]
      OBVIOUS
    <3>2. row \in ScheduleRow /\ row.life = schedule[s].life /\ row.lastRun # Null
      BY <3>1, WeekTypes, NullAssumption DEF Inv, TypeOK, ScheduleRow
    <3>3. schedule' = [schedule EXCEPT ![s] = row] /\ schedule[s].life = "live"
      BY <2>4, <3>1 DEF MarkDone
    <3> QED
      BY <2>1, <3>2, <3>3
  <2>5. ASSUME NEW s \in ScheduleIds, DeleteSchedule(s)
        PROVE  schedule' \in [ScheduleIds -> ScheduleRow] /\ TablesOK' /\ RowsGrow
    <3>1. PICK row : row = SoftDeleted(schedule[s])
      OBVIOUS
    <3>2. /\ row \in ScheduleRow /\ row.life = "deleted"
          /\ row.lastRun = schedule[s].lastRun
      BY <3>1 DEF SoftDeleted, Inv, TypeOK, ScheduleRow, Life
    <3>3. schedule' = [schedule EXCEPT ![s] = row]
      BY <2>5, <3>1 DEF DeleteSchedule
    <3> QED
      BY <2>1, <3>2, <3>3
  <2>6. CASE UpdateSite
    <3>1. UNCHANGED <<schedule, coverage>>
      BY <2>6 DEF UpdateSite
    <3> QED
      BY <3>1, SameTables DEF Inv, TypeOK
  <2> QED
    BY <2>2, <2>3, <2>4, <2>5, <2>6
<1>3. work' \in [Workers -> Work] /\ WorkersOK' /\ JobHoldsLock'
  BY <1>1, <1>2, IdleStep DEF Inv
<1> QED
  BY <1>1, <1>2, <1>3 DEF Inv, TypeOK, SideTypes

LEMMA DayEnds ==
    ASSUME Inv, NextDay
    PROVE  Inv'
<1>1. UNCHANGED lock /\ SideTypes'
  BY DEF NextDay, NextTick, SideTypes, Inv, TypeOK, SchedulerTypeOK, Weekdays, Wednesday, Friday
<1>2. CASE weekday = Friday
  <2>1. /\ schedule' = [s \in ScheduleIds |-> AgedSchedule(schedule[s])]
        /\ coverage' = [c \in CoverageIds |-> AgedCoverage(coverage[c])]
        /\ work' = [r \in Workers |-> AgedWork(work[r])]
    BY <1>2 DEF NextDay
  <2>2. /\ schedule' \in [ScheduleIds -> ScheduleRow]
        /\ coverage' \in [CoverageIds -> CoverageRow]
        /\ work' \in [Workers -> Work] /\ WorkersOK' /\ JobHoldsLock' /\ TablesOK'
    BY <1>1, <2>1, WeekEnds
  <2> QED
    BY <1>1, <2>2 DEF Inv, TypeOK, SideTypes
<1>3. CASE weekday # Friday
  <2>1. UNCHANGED <<schedule, coverage, work>>
    BY <1>3 DEF NextDay
  <2>2. TablesOK' /\ RowsGrow
    BY <2>1, SameTables DEF Inv
  <2>3. work' \in [Workers -> Work] /\ WorkersOK' /\ JobHoldsLock'
    BY <1>1, <2>1, <2>2, IdleStep DEF Inv
  <2> QED
    BY <1>1, <2>1, <2>2, <2>3 DEF Inv, TypeOK, SideTypes
<1> QED
  BY <1>2, <1>3
-----------------------------------------------------------------------------
LEMMA InvInit == Init => Inv
<1> SUFFICES ASSUME Init PROVE Inv
  OBVIOUS
<1>1. TypeOK
  BY RowTypes DEF Init, TypeOK, SchedulerInit, SchedulerTypeOK, Weekdays
<1>2. WorkersOK
  <2>1. \A r \in Workers : work[r].pc = "idle"
    BY WorkTypes DEF Init
  <2> QED
    BY <2>1, FreeWorker DEF WorkersOK
<1>3. JobHoldsLock
  BY WorkTypes DEF Init, JobHoldsLock, Workers
<1>4. TablesOK
  BY DEF Init, NoScheduleRow, NoCoverageRow, TablesOK, RowsOK, OneActiveCoverage,
     CompletedInItsWeek, CompletedMeansRan
<1> QED
  BY <1>1, <1>2, <1>3, <1>4 DEF Inv

LEMMA InvNext == Inv /\ [Next]_vars => Inv'
<1> SUFFICES ASSUME Inv, [Next]_vars PROVE Inv'
  OBVIOUS
<1>1. CASE UNCHANGED vars
  <2>1. UNCHANGED <<schedule, coverage, work, lock>> /\ SideTypes'
    BY <1>1 DEF vars, SideTypes, Inv, TypeOK, SchedulerTypeOK
  <2>2. TablesOK' /\ RowsGrow
    BY <2>1, SameTables DEF Inv
  <2>3. work' \in [Workers -> Work] /\ WorkersOK' /\ JobHoldsLock'
    BY <2>1, <2>2, IdleStep DEF Inv
  <2> QED
    BY <2>1, <2>2, <2>3 DEF Inv, TypeOK, SideTypes
<1>2. CASE \E r \in Workers : Proceed(r)
  BY <1>2, WorkerProceeds
<1>3. CASE \E r \in Requests :
              \/ ListSchedules(r) \/ SetSites(r) \/ CreateCoverage(r) \/ CancelCoverage(r)
              \/ FieldWorkDone(r) \/ PatrolDone(r) \/ ManualCheck(r)
  BY <1>3, RequestBegins
<1>4. CASE \E i \in Instances : ScheduledCheck(i) \/ MissTick(i) \/ Crash(i)
  BY <1>4, InstanceSteps
<1>5. CASE \/ \E s \in ScheduleIds :
                 CreateSchedule(s) \/ UpdateSchedule(s) \/ MarkDone(s) \/ DeleteSchedule(s)
           \/ UpdateSite
  BY <1>5, TableEdits
<1>6. CASE NextDay
  BY <1>6, DayEnds
<1> QED
  BY <1>1, <1>2, <1>3, <1>4, <1>5, <1>6 DEF Next

\* The inductive invariant holds of every behaviour.
THEOREM ScheduleInvariant == Spec => []Inv
  BY InvInit, InvNext, PTL DEF Spec

\* Every handler writes well-formed schedules, reassignments and locks.
THEOREM ScheduleTypes == Spec => []TypeOK
<1>1. Inv => TypeOK
  BY DEF Inv
<1> QED
  BY <1>1, ScheduleInvariant, PTL

\* However requests race, a schedule has one active reassignment for a week.
THEOREM OneActiveCoverageAlways == Spec => []OneActiveCoverage
<1>1. Inv => OneActiveCoverage
  BY DEF Inv, TablesOK
<1> QED
  BY <1>1, ScheduleInvariant, PTL

\* Paperwork of another week never completes a reassignment, and the schedule of a
\* completed one has a last run.
THEOREM CompletionStandsAlways == Spec => []CompletionStands
<1>1. Inv => CompletionStands
  BY DEF Inv, TablesOK, CompletionStands
<1> QED
  BY <1>1, ScheduleInvariant, PTL

\* However many instances, crashes and failing jobs there are, one instance at
\* most is inside the job.
THEOREM OneRunnerAlways == Spec => []OneRunner
<1>1. Inv => OneRunner
  BY DEF Inv, JobHoldsLock, OneRunner
<1> QED
  BY <1>1, ScheduleInvariant, PTL
=============================================================================
