\* Two runs at a time over a board that changes, with one crash and a failing audit sink;
\* two requests, one session at a time, and a gateway that closes.
SPECIFICATION FairParts
CONSTANTS
  t1 = t1  t2 = t2  Task = {t1, t2}  Trailer = {"t1", "t2", "both"}  Names <- TwoNames
  Commits <- TwoCommits  Reconciler = {r1, r2}
  UserOps = {"delete"}  Concurrent = TRUE  AuditFails = TRUE  MaxCrashes = 1
  Request = {q1, q2}  MaxSessions = 1  Timeout = 1  Horizon = 2  Ids = 5
INVARIANTS RerunsCloseNothing NoClaimSkipped BegunPerTimeout
PROPERTIES ClaimsLand CloseEnds
CHECK_DEADLOCK FALSE
