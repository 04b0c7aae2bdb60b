\* A session ends and its record stays.
SPECIFICATION Spec
CONSTANTS
  Request = {r1, r2, r3, r4}
  MaxSessions = 1  Timeout = 1  Horizon = 2  Ids = 5
PROPERTIES RefusedOnlyWhenFull
CHECK_DEADLOCK FALSE
