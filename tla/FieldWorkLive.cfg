SPECIFICATION FairSpec
CONSTANTS
  Tasks = {t1}
  Reports = {p1}
  Requests = {r1}
  Technicians = {k1}
  MaxLockRetries = 2
  ActiveReportIndex = TRUE
  Null = Null
  Operations <- AllOps
  ReportTypes <- OneType
CHECK_DEADLOCK FALSE
PROPERTIES RequestsEnd
