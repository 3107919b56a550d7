SPECIFICATION Spec
CONSTANTS
  Technicians = {k1, k2}
  ScheduleIds = {s1}
  CoverageIds = {c1, c2}
  Requests = {r1, r2}
  Instances = {}
  Null = Null
  Operations <- CoverageOps
CHECK_DEADLOCK FALSE
SYMMETRY Symmetry
INVARIANTS TypeOK OneActiveCoverage CompletionStands
