SPECIFICATION Spec
CONSTANTS
  Items = {i1, i2}
  Filters <- EverythingFilter
  Sweepers = {s1}
  BatchLimit = 2
  Ttl = 1
  RetentionDays = 1
  MaxTime = 2
  MaxEvents = 4
  MaxFailures = 1
SYMMETRY Symmetry
PROPERTIES CleanupDeletesPreview
CHECK_DEADLOCK FALSE
