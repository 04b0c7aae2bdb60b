\* Each component with the bounds it is checked with.
SPECIFICATION PartSpec
CONSTANTS
  Lines = 4  Weights = {0, 2}  Names = {1}  Symbols = 3  MaxWeight = 2  MaxLines = 3
  Scores = {0, 1}  Hits = 3  Gap = 1
  File = {1, 2, 3, 4}  Unsupported = {4}  Depths = {1, 9}
  Named = {2, 3}  Tests = {1}  Scopes = {{1, 2, 3, 4}, {2, 3}}  Few = 1  Many = 2  Strategies = 2
  Caller = {c1, c2}  Servers = 2  Resolvers = 2  Edits = 1
  Call = {q1, q2, q3}  Role = {"coder"}  Made = 2
  Amounts = {0, 2, 7}  Calls = 3
  Count = 2  Version = {2, 3}  Changes = 1  Runs = 2
  Rows = 3  Columns = 2  Cells = 4  Limits = {0, 1}
  MaxLogs = 2  Now = 100  DayLength = 5  Given = {0, 1, 3}  Opener = {o1, o2}  NewColumns = 2  MostTold = 2  MaxRows = 3
  Operator = {1, 2}  Session = {1}  MaxEvents = 3  MaxClock = 1
  Latency = {0, 3}  TrackWindow = 1  MaxTime = 3  MaxSamples = 3
  Drafts = {3}  Commits = 2  MaxNotes = 2  MaxIssues = 1
  Size = 3  Capability = {"read"}  RowLimits = {1, 2}
  Nodes = 5  Targets = {0, 1, 2, 3, 5}  Iterations = 4
SYMMETRY Symmetry
INVARIANTS CodeIsCutWhole AnswersAreWhole NothingIsLeftBehind
CHECK_DEADLOCK FALSE
