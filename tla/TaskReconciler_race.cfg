\* A user closes or deletes a task during a run.
SPECIFICATION RaceSpec
CONSTANTS
  t1 = t1  t2 = t2  Task = {t1, t2}  Trailer = {"t1", "t2", "both"}  Names <- TwoNames
  Commits <- TwoCommits  Reconciler = {r1}
  UserOps = {"fail", "complete", "delete"}  Concurrent = TRUE  AuditFails = FALSE  MaxCrashes = 0
  Request = {q1}  MaxSessions = 1  Timeout = 1  Horizon = 1  Ids = 1
PROPERTIES OnlyOpenTasksAreClosed
