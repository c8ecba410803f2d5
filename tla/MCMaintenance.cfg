SPECIFICATION Spec
CONSTANTS
  Items = {i1}
  Filters <- EverythingFilter
  Sweepers = {s1, s2}
  BatchLimit = 2
  Ttl = 1
  RetentionDays = 1
  MaxTime = 2
  MaxEvents = 4
  MaxFailures = 1
SYMMETRY Symmetry
INVARIANTS TrailTellsQueue
PROPERTIES RetentionRespected
CHECK_DEADLOCK FALSE
