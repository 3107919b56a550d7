SPECIFICATION Spec
CONSTANTS
  Tasks = {t1}
  Reports = {p1}
  Requests = {r1, r2}
  Technicians = {k1, k2}
  MaxLockRetries = 0
  ActiveReportIndex = TRUE
  Null = Null
  Operations <- ReportWorkOps
  ReportTypes <- BothTypes
CHECK_DEADLOCK FALSE
PROPERTIES CompletingReportCompletesTask
