\* Three tasks submitted in one go to a pool of three that may grow to four.
SPECIFICATION Spec
CONSTANTS
  a1 = a1  a2 = a2  a3 = a3  a4 = a4  a5 = a5
  t1 = t1  t2 = t2  t3 = t3
  Agent = {a1, a2, a3, a4, a5}
  Task = {t1, t2, t3}
  NoAgent = NoAgent  NoTask = NoTask
  Rank <- MCRank
  MaxRetries <- MCMaxRetries
  Malformed = {}
  CanRun <- AllCapable
  Calls = {}
  InitialReplicas = 3  ReplicaChoices = {3}
  Autoscaling = TRUE  MinReplicas = 1  MaxReplicas = 4  TargetUtilization = 50
  MaxStops = 1  MaxSpawning = 3
INVARIANTS NeverAboveMaxReplicas
CHECK_DEADLOCK FALSE
