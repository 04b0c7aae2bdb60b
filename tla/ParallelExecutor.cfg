\* Two slots in all, one for the llm tag, which its request rate sets.
SPECIFICATION FairSpec
CONSTANTS
  llm = llm  io = io
  N = 7
  Deps <- MCDeps
  Tag = {llm, io}  NoTag = NoTag
  TagOf <- MCTags
  Automatic = Automatic  Unset = Unset
  Concurrency = Automatic
  ConcurrencyByTag <- AutoLlm
  LlmTag = llm
  CpuConcurrency = 2
  SonnetRpm = 15
INVARIANTS SchedulerInStep NoLostWakeup
PROPERTIES ImplementsDagRun
\* run() returns, and the plan is over.
CHECK_DEADLOCK FALSE
