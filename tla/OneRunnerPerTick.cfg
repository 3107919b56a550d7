SPECIFICATION Spec
CONSTANTS
  Technicians = {k1}
  ScheduleIds = {s1}
  CoverageIds = {}
  Requests = {}
  Instances = {i1, i2}
  Null = Null
  Operations <- TickOps
CHECK_DEADLOCK FALSE
INVARIANTS AlertedOncePerTick
