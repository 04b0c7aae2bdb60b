\* An owner that awaits start(), uses the pool, and may stop it.
SPECIFICATION FairSpec
CONSTANTS
  a1 = a1  a2 = a2  a3 = a3  a4 = a4  a5 = a5
  t1 = t1  t2 = t2  t3 = t3
  Agent = {a1, a2}
  Task = {t1, t2, t3}
  NoAgent = NoAgent  NoTask = NoTask
  Rank <- MCRank
  MaxRetries <- MCMaxRetries
  Malformed = {}
  CanRun <- AllCapable
  Calls = {"stop"}
  InitialReplicas = 2  ReplicaChoices = {2}
  Autoscaling = FALSE  MinReplicas = 1  MaxReplicas = 2  TargetUtilization = 80
  MaxStops = 1  MaxSpawning = 2
INVARIANTS NoIdleAgentWhileQueued
PROPERTIES MostUrgentFirst WorkEnds
CHECK_DEADLOCK FALSE
