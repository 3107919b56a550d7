SPECIFICATION Spec
CONSTANTS
  Tasks = {t1}
  Reports = {p1, p2}
  Requests = {r1, r2}
  Technicians = {k1}
  MaxLockRetries = 0
  ActiveReportIndex = FALSE
  Null = Null
  Operations <- AutoReportOps
  ReportTypes <- OneType
CHECK_DEADLOCK FALSE
SYMMETRY Symmetry
INVARIANTS OneAutoReport
