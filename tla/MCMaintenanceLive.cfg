SPECIFICATION FairSpec
CONSTANTS
  Items = {i1, i2}
  Filters <- EverythingFilter
  Sweepers = {s1}
  BatchLimit = 1
  Ttl = 1
  RetentionDays = 1
  MaxTime = 2
  MaxEvents = 2
  MaxFailures = 1
PROPERTIES OldEventsPruned BacklogExpires
CHECK_DEADLOCK FALSE
