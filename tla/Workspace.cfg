\* Each component with the bounds it is checked with.
SPECIFICATION PartSpec
CONSTANTS
  t1 = t1  t2 = t2  t3 = t3  t4 = t4  k = k
  Process = {p, q}  Commands = 2  Task = {t1, t2, t3, t4}  Label = {"la", "lb", "lc"}
  Topic <- MCTopic  Key = {k}  Boards <- MCBoards
  Ops = {"note", "run", "finish", "reopen", "fail", "close", "archive", "renew"}
  Agent = {a1, a2}  Guarded = {f1}  Versions = {c1, c2, c3}  NoContent = NoContent
  MaxIterations = 3  MaxFixes = 2  Edits = 1
  Cycle = {1, 2}  Test = {1}  Code = {1, 2}  Right = {1}
  Path = {p1}  Body = {s1, s2}  NoFile = NoFile  Changes = 4
  Name = {"x", "y", "z"}  NoName = NoName  Ignored = {"z"}  Debounce = 2  Events = 4
  Node = {1, 2, 3, 4}  Kind = {"doc", "symbol", "fact"}
  KindSets = {{"doc", "symbol", "fact"}, {"symbol", "fact"}}  MaxHops = 2  Limits = {0, 2}
  Product = {p1}  Horizon = 4  Moves = 1
  Public = {"page", "asset", "room", "headers"}  Page = "page"  Asset = "asset"
  Gated = {"room"}  Unseen = {"headers"}  Put = {1, 2}  MaxHours = 1
INVARIANTS BoardStaysSound EditsAreSafe LeastIsTold NoChangeIsMissed ClustersAreComponents GraphTellsItsEdges
INVARIANTS GateIsFair ReleasesAreTold
PROPERTIES CommandsKeepTheBoard
SYMMETRY Symmetry
CHECK_DEADLOCK FALSE
