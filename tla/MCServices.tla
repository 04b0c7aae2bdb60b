------------------------------ MODULE MCServices ------------------------------
(***************************************************************************)
(* Components that have no state in common, checked side by side in one    *)
(* run: `part` says which of them moves, the others stay as they began.    *)
(***************************************************************************)
EXTENDS RateLimiter

VARIABLES
    part,
    pool, pools, run, record, executions, ticking, timer, lifecycle, walked, contested,
    process, started, alive, exiting, pipe, buffer, initialized, requestId, pending, inbox,
    at, id, to, wide,
    status, current, proc, timedOut, destroying, destroyed, slipped, shared,
    clock, nodes, nextPrune, routed, gone,
    rows, table, vectors, step, entry, hits, snapshot, wanted, result, unsteady,
    log, redactions, redacting, seen, asked, request, original,
    tasks, events, command, job, left, given, past, raced, unlogged,
    section, enabled, card, queue, link, own, orphans, total, done, banner, rounds, refused, lost,
    instant, began, ledger, tail, lastTs, shown, polled, updatedAt, pages, more, steady,
    received, page, question, rowsShown, canGoBack, canGoOn, queries, answers, stale, overtaken, hasty,
    data, stored, writes

workflowVars  == <<pool, pools, run, record, executions, ticking, timer, lifecycle, walked, contested>>
lspVars       == <<process, started, alive, exiting, pipe, buffer, initialized, requestId, pending,
                   inbox, at, id, to, wide>>
sandboxVars   == <<status, current, proc, timedOut, destroying, destroyed, slipped, shared>>
marketVars    == <<clock, nodes, nextPrune, routed, gone>>
memoryVars    == <<rows, table, vectors, step, entry, hits, snapshot, wanted, result, unsteady>>
redactionVars == <<log, redactions, redacting, seen, asked, request, original>>
taskVars      == <<tasks, events, command, job, left, given, past, raced, unlogged>>
setupVars     == <<section, enabled, card, queue, link, own, orphans, total, done, banner, rounds, refused, lost>>
auditVars     == <<began, ledger, tail, lastTs, shown, polled, received>>
browserVars   == <<updatedAt, pages, more, steady, page, question, rowsShown, canGoBack, canGoOn, queries,
                   answers, stale, overtaken, hasty>>
cockpitVars   == <<instant, auditVars, browserVars>>
factVars      == <<data, stored, writes>>

CONSTANTS
    Exec, WorkflowOf, Role, NoExec,         \* workflows
    Calls, Servers, Split,                  \* lsp
    Jobs, NoJob, Destroys,                  \* sandbox
    Node, Price, Stale, Every, Past, Hours,       \* market
    Uses, Entries, Matches, Limits, Found, Listed, Queries, Puts,   \* memory, facts
    Process, Args, Marked, Requests,        \* redaction
    Commands, Task, Subject, Detail, Status, Faults,\* tasks
    Source, Stub, DefaultOn, Rounds,        \* setup
    Op, Newer, Fact, PageSize, Kept, Question, Asks, LastPage     \* cockpit

\* Two reviews that may overlap, one of which makes checkpoints, and an analysis on its own.
RunOf == [e1 |-> "codeReview", e2 |-> "codeReview", e3 |-> "parallelAnalysis"]

\* Facts whose words, tags and dates differ, and what is asked of them.
Facts == {f \in [title : {{"a"}, {"b"}}, body : {{}, {"a"}}, tags : {{}, {"a"}}, kind : {1, 2}, created : {0, 7}] :
              f.kind = 1 \/ (f.created = 0 /\ f.body = {})}
Filters == [tags : {{}, {"a"}}, kind : {0, 1}, limit : {{}, {0}, {1}}]

Workflows == INSTANCE Orchestrator
Lsp       == INSTANCE LspClient
Sandbox   == INSTANCE ProcessSandbox WITH Job <- Jobs
Market    == INSTANCE Marketplace WITH now <- clock, Horizon <- Hours
Memory    == INSTANCE MemoryStore WITH at <- step, Call <- Uses, Entry <- Entries,
                                       Ids <- {1, 2}, Fact <- Facts, now <- writes
Tasks     == INSTANCE TaskLog WITH at <- command, contested <- raced, Entry <- Entries
Pages     == INSTANCE WebPages WITH step <- section, clock <- instant, Horizon <- 2, entries <- received,
                                    asked <- queries

\* The processes that redact and the commands of the task list are alike.
TLC == INSTANCE TLC
Symmetry == TLC!Permutations(Process)

PartInit ==
    /\ part \in {"limiter", "reviews", "analysis", "lsp", "sandbox", "market", "memory", "redaction", "tasks",
                "setup", "audit", "browser", "facts"}
    /\ Pages!SetupInit /\ Pages!PageInit
    /\ Init /\ Workflows!Init /\ Lsp!Init /\ Sandbox!Init /\ Market!Init
    /\ Memory!Init /\ Memory!FactsInit /\ Tasks!RedactionInit /\ Tasks!Init
    /\ part # "limiter" => from = 0
    /\ part # "market" => DOMAIN nodes = {}

Still(ps, v) == IF part \in ps THEN TRUE ELSE UNCHANGED v

PartNext ==
    /\ UNCHANGED part
    /\ \/ part = "limiter"   /\ Next
       \/ part = "reviews"   /\ Workflows!Next /\ UNCHANGED <<run["e3"], pool["analyst"], record["e2"].marks>>
       \/ part = "analysis"  /\ Workflows!Next /\ UNCHANGED <<run["e1"], run["e2"]>>
       \/ part = "lsp"       /\ Lsp!Next
       \/ part = "sandbox"   /\ Sandbox!Next
       \/ part = "market"    /\ Market!Next
       \/ part = "memory"    /\ Memory!Next
       \/ part = "redaction" /\ Tasks!RedactionNext
       \/ part = "tasks"     /\ Tasks!Next
       \/ part = "setup"     /\ Pages!SetupNext
       \/ part = "facts"     /\ Memory!FactsNext
       \/ part = "audit"     /\ Pages!PageNext /\ UNCHANGED browserVars
       \/ part = "browser"   /\ Pages!PageNext /\ UNCHANGED auditVars
    /\ Still({"limiter"}, vars)       /\ Still({"reviews", "analysis"}, workflowVars)
    /\ Still({"lsp"}, lspVars)        /\ Still({"sandbox"}, sandboxVars)
    /\ Still({"market"}, marketVars)    /\ Still({"memory"}, memoryVars)
    /\ Still({"redaction"}, redactionVars) /\ Still({"tasks"}, taskVars)
    /\ Still({"setup"}, setupVars)
    /\ Still({"audit", "browser"}, cockpitVars)   /\ Still({"facts"}, factVars)

PartSpec ==
    PartInit /\ [][PartNext]_<<part, vars, workflowVars, lspVars, sandboxVars, marketVars,
                               memoryVars, redactionVars, taskVars, setupVars, cockpitVars, factVars>>

\* What each module states, for its part.
WorkflowsKeepOrder     == part \in {"reviews", "analysis"} => Workflows!WorkflowsKeepOrder
AnswersReachTheirCalls == part = "lsp" => Lsp!AnswersAreOwn /\ Lsp!FramesInStep
NothingRunsOn          == part = "sandbox" => Sandbox!NothingRunsOn
RoutesToLive           == part = "market" => Market!RoutesToLive
MemoryIsWhole ==
    /\ part = "memory" => Memory!VectorsFollowRows /\ Memory!SearchIsWhole
    /\ part = "facts" => Memory!BackendsAgree
TombstoneTellsOriginal == part = "redaction" => Tasks!TombstoneTellsOriginal
TaskLogIsTrue          == part = "tasks" => Tasks!TaskLogIsTrue
PagesTellWhatIs ==
    /\ part = "setup" => Pages!BannerTellsTheEnd
    /\ part \in {"audit", "browser"} => Pages!PageTellsWhatWasAsked
===============================================================================
