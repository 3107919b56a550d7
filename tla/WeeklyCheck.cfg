SPECIFICATION FairSpec
CONSTANTS
  Technicians = {k1}
  ScheduleIds = {s1}
  CoverageIds = {}
  Requests = {r1}
  Instances = {i1, i2}
  Null = Null
  Operations <- CheckOps
CHECK_DEADLOCK FALSE
INVARIANTS OneRunner
PROPERTIES LockFreed
