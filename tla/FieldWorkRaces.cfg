SPECIFICATION MCSpec
CONSTANTS
  Tasks = {t1}
  Reports = {p1, p2}
  Requests = {r1, r2}
  Technicians = {k1}
  MaxLockRetries = 0
  ActiveReportIndex = TRUE
  Null = Null
  Operations <- AllOps
  ReportTypes <- BothTypes
CHECK_DEADLOCK FALSE
SYMMETRY Symmetry
INVARIANTS TypeOK OneActiveReport EnsureTellsTruth  MarkedWorkWasCompleted Stamped
PROPERTIES DeletionIsFinal
