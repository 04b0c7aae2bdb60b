\* The kill switch is not asked again after the token is verified.
SPECIFICATION CallsSpec
CONSTANTS
  n1 = n1  n2 = n2  s1 = s1  s2 = s2  c1 = c1  c2 = c2  c3 = c3
  Node = {n1}  Session = {s1}  Call = {c1, c2}
  NodeOf <- OneSession  SessionOf <- BothCalls
  Authenticating = {n1}  KeyStored = FALSE  Faults = {}
  f1 = f1  f2 = f2  File = {f1}  Length = 1  Process = {p1}  Concurrency = 1  MaxTurns = 0  Runs = 1  Mishaps = 0
  Run = {r1}  Client = {b1}  Cap = 1
  Op = {o1}  Newer = 1  Horizon = 1  Fact = {1}  PageSize = 1
  Doc = {1}  DocsAPage = 1  Edits = 1  Syncs = 1
  MaxFacts = 1  Secret = {"s1"}  Bundles = 1  Crashes = 0
  Dir = {d1}  OwnHooks = {}  Lookalike = {}  ByHand = 0  Installs = 0
INVARIANTS NoStartAfterKill
CHECK_DEADLOCK FALSE
