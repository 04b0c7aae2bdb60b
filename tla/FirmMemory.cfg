\* Each component with the bounds it is checked with.
SPECIFICATION PartSpec
CONSTANTS
  n1 = n1  n2 = n2  s1 = s1  s2 = s2  c1 = c1  c2 = c2  c3 = c3
  Node = {n1, n2}  Session = {s1, s2}  Call = {c1, c2, c3}
  NodeOf <- EachOnItsNode  SessionOf <- TwoAndOne
  Authenticating = {n1}  KeyStored = TRUE  Faults = {"append", "crash"}
  f1 = f1  f2 = f2  File = {f1, f2}  Length = 2  Process = {p1, p2}  Concurrency = 2  MaxTurns = 0  Runs = 2  Mishaps = 1
  Run = {r1}  Client = {b1, b2}  Cap = 2
  Op = {o1, o2, o3}  Newer = 2  Horizon = 2  Fact = {1, 2, 3}  PageSize = 2
  Doc = {1, 2}  DocsAPage = 1  Edits = 4  Syncs = 3
  MaxFacts = 1  Secret = {"s1"}  Bundles = 2  Crashes = 1
  Dir = {d1}  OwnHooks = {h1}  Lookalike = {h2}  ByHand = 1  Installs = 2
SYMMETRY Symmetry
INVARIANTS WithdrawnNeverRuns RowsTellWhatRan MarksAreCovered ScreensTellWhatIs HooksAreLeftWhole
CHECK_DEADLOCK FALSE
