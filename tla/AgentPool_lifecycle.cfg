\* Every operation of the owner, a malformed assignment, and autoscaling between 1 and 2 replicas.
SPECIFICATION Spec
CONSTANTS
  a1 = a1  a2 = a2  a3 = a3  a4 = a4  a5 = a5
  t1 = t1  t2 = t2  t3 = t3
  Agent = {a1, a2}
  Task = {t1, t2}
  NoAgent = NoAgent  NoTask = NoTask
  Rank <- MCRank
  MaxRetries <- MCMaxRetries
  Malformed <- OneMalformed
  CanRun <- AllCapable
  Calls = {"early", "stop", "restart", "terminateAgent", "updateSpec"}
  InitialReplicas = 2  ReplicaChoices = {1, 2}
  Autoscaling = TRUE  MinReplicas = 1  MaxReplicas = 2  TargetUtilization = 80
  MaxStops = 1  MaxSpawning = 3
SYMMETRY AgentSymmetry
INVARIANTS JobsAccounted DeadLetterAfterLastTry
PROPERTIES OutcomeFinal
CHECK_DEADLOCK FALSE
