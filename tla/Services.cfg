\* Each component with the bounds it is checked with; time in ticks of its own.
SPECIFICATION PartSpec
CONSTANTS
  Key = {k1, k2}  Cost = 3  Rate = 2  Burst = 2  Horizon = 6
  Exec = {"e1", "e2", "e3"}  WorkflowOf <- RunOf  NoExec = "none"  Role = {"analyst", "coder", "reviewer"}
  Calls = 3  Servers = 2  Split = {2, 4}
  Jobs = {j1, j2, j3}  NoJob = NoJob  Destroys = 2
  Node = {n1, n2}  Price = {1, 2}  Stale = 3  Every = 2  Past = 6  Hours = 7
  Uses = {1, 2, 3}  Entries = {x1, x2}  Matches = {1, 3}  Limits = {1}  Found = 2  Listed = 2
  Queries = {{}, {"a"}, {"a", "b"}}  Puts = 3
  Process = {p1, p2}  Args = {a1}  Marked = {m1}  Requests = 3
  Commands = 3  Task = {t1}  Subject = {"a", "b"}  Detail = {"d", "e"}
  Status = {"pending", "completed"}  Faults = {"event", "crash"}
  Source = {1, 2, 3}  Stub = {3}  DefaultOn = {1, 3}  Rounds = 2
  Op = {"o1", "o2", "o3"}  Newer = 2  Fact = {1, 2, 3}  PageSize = 1  Kept = 2
  Question = {"facts", "other"}  Asks = 2  LastPage = 4
INVARIANTS WindowBound WorkflowsKeepOrder AnswersReachTheirCalls NothingRunsOn RoutesToLive
INVARIANTS MemoryIsWhole TombstoneTellsOriginal TaskLogIsTrue PagesTellWhatIs
SYMMETRY Symmetry
CHECK_DEADLOCK FALSE
