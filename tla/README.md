# A TLA+ model of batiste

batiste is a set of TypeScript packages for running software agents under
control: a pool of agents with task queues and workflows over it (`core`), an
executor for plans of operations (`parallel`), nodes that expose tools over MCP
behind layers of auditing, authentication and scope (`aidk`, `audit`, `auth`,
`scope`), an HTTP gateway with sessions and rate limits (`transport`), a
marketplace of nodes (`marketplace`), tools that read, index, edit and validate a
code base and keep its tasks (`code`, `graph`, `memory`, `gvs`, `connectors`),
Atrium, which takes sessions and documents into firm memory and shows them
(`atrium`), and the scripts that gate and release the repository itself.

This directory models the parts in which something can go wrong between two
steps. Everything runs on one JavaScript event loop per process: **code runs
without interruption up to its next `await`**, events are delivered inside the
stretch that emits them, and what shares state otherwise are several processes
over the same files. So an action of these modules is one uninterrupted stretch of
code, with every listener it triggers; an `await`, a timer, a separate SQLite
statement or a separate file operation is what separates two actions.

Contents: 1 inventory, 2 modules and their correspondence to the code, 3 runs,
4 bounds, 5 fairness, 6 proofs, 7 where code and documents disagree, 8 what is not
modelled, 9 what is left to do.

## 1. Inventory

Paths are under `src/packages/` unless they begin with `scripts/`. Sources and
status of each component are in `PROJECT.json` under "components", and the hazards,
each at its line, under "hazards".

| component | state it keeps | operations | what makes it correct | module |
|---|---|---|---|---|
| Agent pool `core/src/agents/AgentPool.ts`, `Agent.ts` | the Map of agents, queue, `inFlight`, retry timers, history, dead letters | submit, dispatch, result, retry, start, stop, terminate, update, autoscale | no task lost or doubled; outcomes final; most urgent first; no idle agent beside a queue | `AgentPool` |
| Orchestrator `core/src/agents/Orchestrator.ts` | pools, executions, one checkpoint timer | the stages of the templates, veto, checkpoint, shutdown | stages in order; no timer without a run | `Orchestrator` |
| Process sandbox `core/src/sandbox/ProcessSandbox.ts` | the current process, a status | execute with timeout, stop, destroy | a status that says stopped is true | `ProcessSandbox` |
| Context budget `core/src/context` | tokens by category | record, ask, configure | what is told adds up | `Records` |
| Parallel executor `parallel/src/executor.ts` | ready list, counters, results, lineage | the scheduler loop, `runOp`, `cascadeSkip` | order, caps, failure and return rules of a plan | `ParallelExecutor`, `DagRun` |
| Secure gateway `transport/src/secure-gateway.ts`, `session-manager.ts` | MCP sessions, session records | the request handler, eviction, `close` | a session limit that means something; `close` resolves | `SecureGateway` |
| Rate limiter `transport/src/rate-limiter.ts` | a bucket per client | `consume` | burst and rate hold over every window | `RateLimiter` |
| Performance tracker `transport` | samples of a window | record, percentiles, reliability | what is told is of the window | `Records` |
| Node call path `aidk`, `audit/src/middleware.ts`, `kill-switch.ts`, `auth`, `scope` | kill switch, ledger, tokens | a tool call through four layers, kill, pause, revoke, close | killed and revoked means stopped; rows tell what ran | `NodeChain` |
| Ledger, event log, kill switch of a session `audit/src/ledger.ts`, `event-log.ts`, `cli` | rows with columns of several versions; one file per session | open, append, query; create, trigger, check | processes read alike; a halt is kept | `Records` |
| Redaction `audit/src/redaction.ts` | tombstones over the ledger | redact | the hash is of the original | `TaskLog` |
| Task log `audit/src/task-log.ts` | rows and their events | create, update, delete, each over two files | rows keep patches; events tell the course of a task | `TaskLog` |
| Task board `code/src/mcp/handler.ts`, `task-*.ts` | tasks in a tree, keys, notes | create, update, close, archive, renew, merge, triage, clear | a tree stays a tree; one open task per key; no note lost | `TaskBoard`, `TaskSimilarity` |
| Task reconciler `core/src/tasks/TaskReconciler.ts` | board, marker, audit log | read commits, close tasks, audit, move the marker | no claim skipped; running it again closes nothing that was closed | `TaskReconciler` |
| Tool handler `code/src/mcp/handler.ts` | stores, logs and orchestrators made on first use | calls, clear, shutdown, close | what is opened is owned and closed | `ToolHandler`, `SymbolFinder` |
| Edit guard, autofix, diff tracker, TDD cycle `code/src/validation`, `autofix` | snapshots by path; a loop of fixes; the cycles of a session | read, check, write, record; validate, fix; red, green, refactor | no edit over what nobody read; sound lines survive; the least is told; a cycle tells what its tests said | `EditGuard`, `AutoFix` |
| File index and watcher `code/src/indexer` | state of the last run; pending events | crawl, git diff, plan, record; debounce | no change is missed or forgotten | `FileIndex` |
| Chunks, imports, summary, parsers `code/src/retrieval`, `graph`, `parsers` | caches by hash | cut, walk, parse, summarize | files cut whole; walks whole; paths shortest; parsed as read | `CodeReading` |
| LSP client `code/src/lsp/client.ts` | pending requests, a buffer | request, frame, timeout, exit | an answer reaches the call it is for | `LspClient` |
| Knowledge graph `graph` | nodes, edges, clusters | build, traverse, retrieve, overlay, label, search | told alike from every side | `KnowledgeGraph`, `GraphUse` |
| Memory `memory` | rows and vectors in two stores; facts in two implementations | put, delete, search | rows and vectors agree; implementations agree | `MemoryStore` |
| Marketplace `marketplace` | nodes and their heartbeats | register, beat, prune, route | routes to nodes that live | `Marketplace` |
| Atrium `atrium/src/commands`, `utils`, `ui` | checkpoints, marks, bundles, runs, pages | ingest, sync, push, restore, stream, browse, install hooks | what a mark says was taken in was; screens tell what is; hooks left whole | `Ingest`, `Mirror` (with the runs of the wizard), `Cockpit`, `WebPages`, `HookFiles` |
| Gates and release `tasklog-hygiene`, `deploy-*`, `repo-hygiene`, `scripts/publish-npm.mjs` | registers, stamps | check, pre, post, prove, publish | a gate asks for nothing that undoes itself; a proof is true | `TaskHygiene`, `DeployGate`, `RepoScripts` |
| Governance vault `gvs` | notes | load, validate, index | each rule told where it is broken | `RepoScripts` |
| CSV connector, token report `connectors`, `scripts` | none | read, filter, sum | read back what was written; sums add up | `Records` |

How they interact: a client's HTTP request passes the gateway's validator and the
rate limiter, then the gateway finds or opens an MCP session, whose server was made
by `createNode`: its tool calls go through the node call path. A tool may use the
`code` handler, which runs the board actions and the reconciler over one task
database, the orchestrator over pools of agents, and a language server that the
symbol finder starts. The CLI's commands are processes of their own over the task
log, the ledger and the kill switch file. Atrium's ingestions write firm memory
through `withAudit()` and a plan of the executor; its wizard starts them as child
processes, its cockpit reads memory and ledger while they write, and its hooks make
Claude Code ask the memory. Gates run at the end of a session over the task log and
the tree.

What is hard in this code: state that is read before an `await` and used after it
(kill switch, task snapshots, session limit, autoscaling, first use of a store);
listeners that re-enter the function that triggered them; failures between two
writes to two files; two tables kept in step by ids that are not the same; wakeup
promises and counters that are updated on several paths; processes that overlap on
one file; checkpoints saved while what they count goes on growing; streams cut
anywhere; answers that arrive out of order; caches by hash or by path.

## 2. Modules

A module has the state of one component as VARIABLES, an action per stretch of
code, and the properties of that component at its end. Definitions and the lines each
stands for are listed in `PROJECT.json` under "map". Definitions whose name ends in
`_Something` and that carry the comment "Mutant" are not part of a model: each is a
plausible bug in the definition after it, listed under "mutants" with the property
that catches it.

**Side by side.** Components that share no state are checked in one run: an MC
module EXTENDS one of them and INSTANCEs the others over variables of its own.
`part` says which one moves; a part that does not move stands in one of its initial
states, so that the state space is the sum of theirs and not the product. A property
of such a run is `part = "x" => ...` over the properties of the module.

| MC module | parts |
|---|---|
| `MCServices` | limiter (`RateLimiter`), reviews and analysis (`Orchestrator`), lsp (`LspClient`), sandbox (`ProcessSandbox`), market (`Marketplace`), memory and facts (`MemoryStore`), redaction and tasks (`TaskLog`), setup, audit and browser (`WebPages`) |
| `MCWorkspace` | board (`TaskBoard`), guard (`EditGuard`), fixer, diff and tdd (`AutoFix`), index and watch (`FileIndex`), similar (`TaskSimilarity`), graph (`KnowledgeGraph`), gate (`TaskHygiene`), deploy (`DeployGate`) |
| `MCFirmMemory` | calls and open (`NodeChain`, a node that authenticates and one that does not), ingest and drive (`Ingest`), mirror and wizard (`Mirror`), cockpit (`Cockpit`), hooks (`HookFiles`) |
| `MCCodebase` | chunks, imports, summary, parser (`CodeReading`), finder (`SymbolFinder`), board and agents (`ToolHandler`), npm, hygiene, copies, vault (`RepoScripts`), budget, csv, tokens, ledger, halts, latency (`Records`), graph and search (`GraphUse`) |
| `MCSettling` | reconciler (`TaskReconciler`), gateway (`SecureGateway`), both under fairness |
| `MCAgentPool`, `MCParallelExecutor` | constants of `AgentPool` and `ParallelExecutor` |

### Agents and plans

**AgentPool.** `queue`, `inFlight`, `history`, `deadLetters` are the fields of the
class; a retry timer that has not fired is `backoff`; an agent that has sent a result
and not yet run its `finally` is in `settled`. `spawnAgent()`, `terminateAgent()` and
`stop()` each change the Map after an await, so the agents in between are counted by
`starting`, `spawning`, `leaving` and `clearing`. `setState()` notifies the pool
synchronously: turning idle (`GoIdle`) therefore runs `checkAutoscaling()` and
`dispatchNext()` in the same action, through `ScaledUp`, `ScaledDown` and
`DispatchNext`. `ScaledDown` states the effect of `checkAutoscaling()` re-entering
itself: it terminates every idle agent. The sort after a push is part of `Enqueued`.
A task that no agent is capable of is put back at the head and holds up the rest. A
task id is submitted once, as the orchestrator does.

**Orchestrator.** Executions interleave at their awaits: the 100 ms after each task of
a sequential stage, the join of a parallel one, the review of a veto. There is one
timer field for all executions (`timer`), so each start forgets the one before:
`TimersEndWithRuns` holds of executions that did not overlap (`contested`).

**ParallelExecutor and DagRun.** The scan of the ready list has no await, so no
operation finishes during it (`loop # "scan"` guards `Succeed`, `Fail`, `Reap`); one
that throws before its first await fails inside it (`DispatchThrows`). The wakeup
promise is the `loop` value: waiting, woken. `DagRun` is the abstract specification:
an operation begins only after all its dependencies succeeded and within the caps, a
failure skips exactly what is downstream, and the run returns when nothing owes an
end. `ImplementsDagRun` maps sets of the executor to the state of each operation,
`OpState`.

**ProcessSandbox.** The close event of a process comes any time after it ended, when
the sandbox may already be at work on another: `proc` has every process, `current`
the field of the class. `destroy()` is two actions with anything in between; what is begun
there is in the history variable `slipped`.

### Requests and calls

**RateLimiter.** Tokens are counted in units that make refills whole numbers (the
code's fractions are multiples of `requestsPerMinute / 60000`). The start of the
window a client's grants are counted in, `from`, is chosen at the beginning and then
fixed, so that the invariant is about every window.

**SecureGateway.** Two tables with different ids: `sessions` (by the id the transport
makes) and `records` (by the id `SessionManager` makes). `Touch` and `Deleted` use the
id the code uses, and so seldom find a record. A request is in `body` while its body
is read, `connecting` while its server is connected, `handling` while the transport
has it, `streaming` when it is a GET that was let in: that ends when its transport closes
or its client leaves. `kept` counts the idle connections that are left once the server
has stopped listening; what comes over one of them is still served.

**NodeChain.** A call has three awaits: verification of its token, the tool, and the
usage resolved before its row is written; `at` is where it waits. `Record` is the
`finally` block of the audit layer, in which a throwing `append()` replaces the tool's
answer. `unsent`, `unstarted` and `revoked` are history variables: which calls had
still to come, or to start, at the moment of a kill or a revocation. `kill_all` and
`pause` set the same flag and are one action. A node that `createNode` builds has no
key store, so that revocation does not reach it; `KeyStored` says which kind a node is.

**Marketplace.** Handlers await the body of their request and then run in one go; a
stale node stays routed to until `pruneStale()` looks, so `RoutesToLive` bounds the
age of a heartbeat by staleness *plus* the interval, and from the first pruning on: the
gateway may open a database whose nodes, still online in it, are long dead.

**LspClient.** A frame comes through the pipe in chunks cut anywhere; a server may exit
and be replaced while its last answers are under way. `AnswersAreOwn` is of every
server, `FramesInStep` of one that writes ASCII (see 7).

### Tasks

**TaskLog.** Each SQLite statement is a transaction of its own: `Read`, `Write`,
`Emit`. `given` is what a task would be if every patch were applied in the order
written; `contested` the tasks on which two commands were at work at the same time,
`unlogged` those with a lost event. An event has a part of the row (`Told`). The redaction of a ledger row is in the same module:
a copy of the original, a hash, an update of the row and a tombstone.

**TaskBoard.** An action reads and decides on what it read; it then has a list of
patches, each of which reads the row again and stores all of it. The parents of the
tasks stay a forest, a `dedupeKey` has one open task, no note is lost
(`BoardStaysSound`); `CommandsKeepTheBoard` says which steps may take a task out of a
terminal state, and that a merge leaves no child behind. The code keeps this up to a
point, and three history variables say up to which: `contested` has the tasks two
commands have worked on at the same time, `crossed` the children that were to be moved while another merge was moving some;
`doubtful` the keys of creations that overlapped, and of tasks that were opened again.
The last two are what larger boards than those of the run have shown to be needed: with
six tasks, two merges with no task in common each hang a task below one the other is
moving, and the parents lead round in a circle; with three commands, a keyed task fails,
another is created with its key, and the failed one is run again.

**TaskReconciler.** A run reads the marker, reads git, takes a snapshot of the board,
and then for every claim (a trailer of a commit) decides on the snapshot, fetches,
saves and audits, each a separate step; it moves the marker last. A claim is its place,
`<<commit, index>>`; `todo` is the set of those still to be looked at, and `Claim(r)`
the oldest of them. A trailer is the set of tasks it names. `save()` is an upsert, and
the model says so. `seen` is a history variable: which tasks a run found open when it
took its snapshot.

**TaskSimilarity.** Clusters, merge targets, hosts and triage as the pure functions
they are, over every board of a set; likeness of texts is a constant, and so is which
product names are short for which.

**TaskHygiene.** Two rules of the gate pick the survivor of a group differently: the
oldest copy, the most advanced. `OneIsKept` says that following its commands in any
order, while agents go on, leaves one task of a group; `SilenceEnds` that a
task nobody moves is named in the end, whatever notes it gets.

### Code and workspace

**EditGuard**, **AutoFix**, **FileIndex**, **HookFiles** each put a user, or other
agents, beside the component, writing to the same files between its steps.
`PlannedOnTheFile` says that an edit that was let through was planned on what the file
held at the check, unless another agent's record had taken the place of the editor's;
`SoundLinesSurvive` that a line nothing was wrong with is still there after the fixes,
unless the user wrote between validation and fix, or two fixes were for one line;
`IndexFollowsTree` that a run nobody disturbs leaves an entry for every file that is
there, and the right one for what began in step with the last commit, of names that git
does not quote: in the root of a repository (`rooted`) or without one, since below the
root the names of a diff are those of other files, and any diff may come (`Elsewhere`);
`NoChangeForgotten` that an event with a name is told or pending with a timer, whether
the watch fails or not; `ForeignHooksSurvive` that an operator's hooks outlive
installation and removal over either settings file, but for a file that was cut short by
a kill while it was filled, or typed in between a read and a write (`spoilt`), and for a
command that has the marker of Atrium's; `NoDanglingHook` that settings name no
script that is gone, unless an uninstall over another file took it (`orphaned`); `CyclesTellTests`, of the TDD engine in `AutoFix`, that a cycle that
had the files for itself and is told complete leaves its hypothesis there, with a test
that accepts its code.

**CodeReading.** Chunks, walks and paths are functions of their input and are checked
on every input within bounds: each line in one chunk, chunks in order, an oversized
chunk only where it cannot be cut; the walk against reachability, paths against
shortest ones. The parser keeps results under a hash of the text, while files,
strategies and the cache change under calls that wait for the disk.

**SymbolFinder**, **ToolHandler.** First uses make a server, a store, a log or an
orchestrator across awaits; `ServersAreOwned`, `StoresAreOwned`, `PoolsAreOwned` say
that none is left behind, except where two first uses, or a close, overlapped.

**KnowledgeGraph**, **GraphUse**, **MemoryStore**, **Records**, **RepoScripts** are described in their headers. In `Records` the halts part has
operators that create, trigger and check the kill switch of a session as the read, the
truncation and the write of one file, and an event after it; the latency part has a
clock that may be set back.

### Atrium

**Ingest.** Facts are known by file and line. `CheckpointIsCovered`: what is before a
saved checkpoint is stored, whatever is killed, and however two ingestions and growing
sessions overlap. The Drive part of the module and **Mirror** have the same promise for
the mark of a folder and for a bundle: `MarkIsCovered`, `MarkIsStored`. The latter is of
a root that was restored, if at all, from a bundle whose checkpoints were read while
nobody was at the root and it was whole (`quiet`, `torn`), and during whose push nothing
was restored (`Overtaken`): with two bundles, the second may be packed half before and
half after the first is restored, and has the mark of one root and the rows of another.

The second component of **Mirror**, the wizard's runs, and **Cockpit** are the server,
**WebPages** the pages: `FeedsAreWhole`
(every line once and in order to every listener), `TailInOrder`, `WalkSeesAll` (a walk
over pages misses no fact that was there all along, unless facts were updated
meanwhile), `BannerTellsTheEnd`, `PageTellsWhatWasAsked`. Requests of the memory browser are
answered in any order, with an error, or not at all; `stale` and `overtaken` are which answers
came late, and `hasty` that the pager of another page was used.

### Release

**DeployGate**: `ProvedIsTrue` (what status and the hygiene gate say is on the air is,
in every file that `post` compares, if nothing was uploaded since), `WaitingIsTold` (a
file that waits outside the commit for longer than the limit makes status fail). The look of
status counts commits, stages the HEAD there is by then and asks the host, in three steps. **RepoScripts**:
`EndTellsTheRegistry`, `LatestIsStable`, `HygieneTells`.

## 3. Runs

| run | properties | shows |
|---|---|---|
| `pool_work` | `NoIdleAgentWhileQueued` `MostUrgentFirst` `WorkEnds` | an owner who starts, uses and stops the pool: the most urgent waiting task goes first, no agent idles beside a queue, tasks settle unless the pool stops, and `stop()` ends although retries are dispatched while it drains |
| `pool_lifecycle` | `JobsAccounted` `DeadLetterAfterLastTry` `OutcomeFinal` | every public operation in every order, restarts included, with autoscaling, a retried task, and an assignment the schemas reject |
| `executor` | `SchedulerInStep` `NoLostWakeup` `ImplementsDagRun` | every outcome of every operation in every order, and liveness: the run returns |
| `settling` | `RerunsCloseNothing` `NoClaimSkipped` `BegunPerTimeout` `ClaimsLand` `CloseEnds` | two runs of the reconciler at a time, one crash, a failing audit sink, a user who deletes tasks; a gateway whose records outlive its sessions and that closes while sessions are opened, with connections kept alive and streams that stay |
| `services` | `WindowBound` `WorkflowsKeepOrder` `AnswersReachTheirCalls` `NothingRunsOn` `RoutesToLive` `MemoryIsWhole` `TombstoneTellsOriginal` `TaskLogIsTrue` `PagesTellWhatIs` | the parts of `MCServices`, one property each; memory has entries with vectors and the two implementations of facts beside each other |
| `workspace` | `BoardStaysSound` `CommandsKeepTheBoard` `EditsAreSafe` `LeastIsTold` `NoChangeIsMissed` `ClustersAreComponents` `GraphTellsItsEdges` `GateIsFair` `ReleasesAreTold` | the parts of `MCWorkspace` |
| `firm_memory` | `WithdrawnNeverRuns` `RowsTellWhatRan` `MarksAreCovered` `ScreensTellWhatIs` `HooksAreLeftWhole` | the parts of `MCFirmMemory` |
| `codebase` | `CodeIsCutWhole` `AnswersAreWhole` `NothingIsLeftBehind` | the parts of `MCCodebase` |
| `pool_overshoot` (violation) | `NeverAboveMaxReplicas` | three submissions in one burst |
| `gateway_refused` (violation) | `RefusedOnlyWhenFull` | a record that outlives its session |
| `node_verifying` (violation) | `NoStartAfterKill` | a kill during verification, `CallsSpec` of `MCFirmMemory` |
| `recon_race` (violation) | `OnlyOpenTasksAreClosed` | a user during a run, `RaceSpec` of `MCSettling` |

A run marked (violation) checks one sentence of a document or of the code itself
against the code, see 7.

## 4. Bounds

All bounds are constants in the `.cfg` files or sets in the MC modules.

- *Pool.* Two agents let one be terminated, stopped or shrunk away while the other
  takes its work; a third changes no interaction, for an agent touches another only
  through the queue. Two tasks with retries meet in every place a task can be;
  priorities need three (`pool_work`). `MaxStops` is one (overlapping `stop()` calls are
  not exercised) and `MaxSpawning` two, or three in `pool_lifecycle`, where new replicas
  reach the loop of `start()`. `NoIdleAgentWhileQueued` is checked for a pool that is used after `start()` and not grown: an agent that is added to a running pool
  turns idle before the pool listens to it, and waits beside a queued task until the
  next event. Agents are symmetric in `pool_lifecycle`, which checks no liveness.
- *Executor.* Seven operations: a diamond whose join repeats a dependency (`pending`
  must count it twice), a second source whose downstream meets the first one's, so
  that failures meet; three operations of a tag with one slot and two slots in all, so
  that both caps bind.
- *Gateway.* One session at a time and enough requests for one to open, one to be
  refused or to use the session, one to overlap with `close()`. The clock runs to twice
  the idle timeout, the least in which a record expires under a session in use.
- *Limiter.* A burst of two, a token every one and a half ticks, so that refills leave
  fractions; the horizon lets a bucket empty and fill up again.
- *Node.* Calls meet only in the kill switch, in the token of a session and in the phase
  of a node. Two calls of one session on a node that authenticates and one call on a
  node that does not, one node at a time, show each of these against each place of a call.
- *Reconciler.* Two commits with three claims over two tasks of one label: a label may
  name two open tasks, one, or none when it is looked at. One crash. The user deletes
  tasks there; failing and completing them as well passes what TLC can do in five minutes,
  and is in `recon_race` and, with starting and reopening, in the proofs, of which
  `RunningAgainIsSafe` leaves out reopening (see 6).
- *Task log.* Three commands on one task: a creation and two updates. *Board*: two processes with two actions each
  over four tasks, three of them in a line, on three boards: as it is; with the first closed and the
  keyed one failed, to be run again; with the first archived while its child and the copy are open.
- *Workflows, sandbox, market, memory, redaction*: two executions with the two patterns
  that differ most; three processes (one at work, one ended and not yet closed, one
  new); two nodes that a database may hold over seven hours, more than staleness and interval twice; three uses of two entries, a search of
  one or of two (so that its limit cuts; the limit of `list()` is no fewer than the entries there
  are, and the theorem covers every value of both); two processes and three requests.
- *Language server.* Two servers, three calls, frames cut at two places, one of them
  inside the header and one before a body.
- *Editing and indexing.* Two agents and one file (agents meet only in one file); three
  lines with every combination of flaws; every pair of files of up to four lines of two
  kinds; two TDD cycles that may share their files, with one test and two
  implementations of which it accepts one; one path, two contents and four changes over tree, index
  and commits, and below the root of a repository any diff of that path. One change to the
  hooks by hand and two commands, over either file; boards of the gate move once in four days.
- *Ingestion, Drive, mirror*: two session files, of which the second gets one line at
  most, two processes, two operations at a time, one kill; two documents on pages of one and four edits over three runs, a page being any
  oldest-first part of what is left to list; one fact, two bundles (with one, no bundle is
  ever made of a root that was restored badly), one crash.
- *Pages and panels*: three rows or facts on pages of one or two, with a newer row that
  comes in between; the browser may turn to a page past the last one, and two of its requests are
  under way at most. Facts are added and updated, and none is taken away.
- *Functions of their input* (chunks, walks, clusters, CSV, reports, vault, graph) are
  evaluated on every input up to the size where each branch is taken: four lines, four
  files with every import relation, three hits, three rows and notes that differ from a
  plain one in each thing a rule looks at. Depths are one step and more than any walk has;
  of the two versions one is a prerelease.
- *Symmetry* is used for callers, calls, processes and agents that are interchangeable,
  and never in a run with a liveness property.
- *Kill switch, latency*: two operators on one session and three events; a clock of four
  values that may be set back, and three samples.

Deadlock checking is off where a system may stop: a pool nobody uses, requests that
have all been answered, a plan that is over, commands that are all done.

## 5. Fairness

Liveness is checked under weak fairness of what the runtime does of itself:

- promise continuations, retry timers and the scan loop run, since the event loop does
  not drop a callback (`AgentPool!Fairness`, `ParallelExecutor!Fairness`);
- an agent's `executeTask()` and an operation's `fn` return or throw. For the pool and
  the executor this is an assumption on the code they are given: neither has a timeout
  for it;
- request bodies arrive or fail and transports answer (a POST or a DELETE; a GET may stay
  a stream); a gateway that closes goes on closing, and `node:http` ends idle connections
  after `keepAliveTimeout` (`MCSettling!Fairness`). No client has to leave its stream;
- a reconcile run goes on, and its callers start it again, which they do on every
  session start and on request. Nothing obliges users, and a crash is bounded.

No fairness is assumed of owners, users, clients, kills or crashes, and none for the
drain deadline of `stop()`.

## 6. Proofs

Checked by TLAPS for every value of the constants that the named assumptions admit.

| module | theorem | states | hypotheses beside the assumption of the module |
|---|---|---|---|
| `AgentPoolProofs` | `TypeCorrect` | `[]TypeOK` | |
| | `JobsAreAccountedFor` | `[]JobsAccounted` | |
| | `OutcomesAreFinal` | `OutcomeFinal` | |
| | `DeadLettersAreLastTries` | `[]DeadLetterAfterLastTry` | |
| | `UrgentTasksGoFirst` | `MostUrgentFirst` | |
| | `AgentsAreKeptBusy` | `[]NoIdleAgentWhileQueued` | `FixedPool` |
| `ParallelExecutorProofs` | `SchedulerStaysInStep` | `[]SchedulerInStep` | |
| | `LoopNeverSleepsThrough` | `[]NoLostWakeup` | |
| | `RunImplementsDagRun` | `Promise!Safe`, the safety part of `DagRun` | |
| `SettlingProofs` | `TypeCorrect` | `[]TypeOK` of the reconciler | |
| | `MarkerPassesOverNothing` | `[]NoClaimSkipped` | |
| | `RunningAgainIsSafe` | `[]RerunsCloseNothing` | `"reopen" \notin UserOps` |
| | `GatewayIsBounded` | `[]BegunPerTimeout` | `GatewayBounds` |
| `TaskLog` | `LogIsTrue` | `[]TaskLogIsTrue` | `Commands \in Nat` |
| | `RedactionsTellOriginals` | `[]TombstoneTellsOriginal` | `Blank \notin Args \cup Marked` |
| `TaskBoardProofs` | `BoardIsSound` | `[]` of `TreeStaysATree`, `OneOpenPerKey`, `NoNoteLost` | |
| | `BoardIsKept` | `CommandsKeepTheBoard` | |
| `ServicesProofs` | `RateIsBounded` | `[]WindowBound` | |
| | `WorkflowsInOrder` | `[]WorkflowsKeepOrder` | `WorkflowOf \in [Exec -> Templates]` |
| | `SandboxLeavesNothing` | `[]NothingRunsOn` | |
| | `RoutesAreLive` | `[]RoutesToLive` | `MarketBounds` |
| | `TaskLogTellsTheTruth`, `TombstonesTellOriginals` | the two of `TaskLog`, of the parts of `MCServices` | as there |
| | `AnswersReachTheCalls` | `[]AnswersReachTheirCalls` | `LspBounds` |
| | `BannerTellsOfTheRuns` | `[]BannerTellsTheEnd` of the setup page | `SetupBounds` |
| | `MemoryAgrees` | `[]` of `VectorsFollowRows`, `SearchIsWhole` | `0 \notin Entries` |
| `WorkspaceProofs` | `BoardPartIsSound` | `[]BoardStaysSound` | |
| | `ChangesReachTheIndex` | `[]NoChangeIsMissed` | `Debounce \in Nat \ {0}` |
| | `GatesTellOfReleases` | `[]ReleasesAreTold` | `DeployBounds` |
| | `EditsArePlannedOnTheFile` | `[]PlannedOnTheFile` | |
| | `CyclesTellTheirTests` | `[]CyclesTellTests` | |
| `FirmMemoryProofs` | `WithdrawnCallsNeverRun` | `[]WithdrawnNeverRuns` | |
| | `RowsAreTrue` | `[]RowsTellWhatRan` | |
| | `MarksHold` | `[]MarksAreCovered` | |

The assumptions (`PoolAssumption`, `PlanAssumption`, `OptionAssumption`, `NodeAssumption`,
`ReconcilerAssumption`, `LimitAssumption`, and of the board `TasksAreFinite`,
`NoneIsNothing`, `OpsAreKnown`, `BoardsAreTrees`) say what kind of thing each constant is,
that a plan names only operations issued before (which is how plans are made), that the
limits are positive, and that the boards to begin with are forests with one open task of a
key, which is how `manage_task` leaves them. TLC evaluates them in every run of the
module. The hypotheses in the table are of components that an MC module instantiates:
`GatewayBounds` and `MarketBounds` say that times, limits and counts are natural numbers
and that the prices are a finite set of integers, `LspBounds` that calls, servers and the
places where a chunk may end are numbered, `SetupBounds` that the wizard lists finitely many
sources, `DeployBounds` that there are finitely
many files, at least one content to put into them, and an age in hours.

**From a part to its run.** The components of `ServicesProofs`, `WorkspaceProofs`,
`FirmMemoryProofs` and the gateway are proved by themselves, over the variables the MC module gives
them, and their theorems then carried over to the run: a part that does not move stands
still, so that a behaviour of the run is one of each component
(`PartsAreTheirOwn`, `PartsOfTheWorkspace`), whatever the others do.

**AgentPool.** `JobsAccounted` has three parts: an accepted task is in exactly one place
(`OnePlace`), `inFlight` and executing agents name each other (`FlightMatchesJob`), an
agent that says it is idle has no job (`IdleHasNoJob`). They are inductive only
together, with `Strengthening` (`IInv`). `OnePlace` needs `FlightMatchesJob`: a result
takes its own task out of `inFlight` only if the agent that sends it is the one the
task was given to. That needs `IdleHasNoJob`, for a task is given to any agent that
says it is idle, and terminated agents come back to idle when their task ends. And
that needs an agent in `settled` to have a job, and rejected assignments never to
become one: `Strengthening`. The proof has a lemma for what dispatching does to the
two halves of the invariant (`DispatchKeepsPlaces`, `DispatchKeepsPairing`), used by
the three actions that dispatch, and one lemma per other action that touches tasks;
actions on the fleet alone go through `FleetStep`.

The dead letters rest on `Tries`: no task has more retries behind it than it is allowed,
one that waits for its timer has one left, and the dead letter queue has one entry for
each task whose outcome is failure. That the entry of a last failure is the first one of
its task comes from `OnePlace`: a task in flight has no outcome.
`MostUrgentFirst` needs the queue to be sorted (`Ordered`) whatever was pushed behind
it: `Insertion` says position by position what push and sort make of a queue, and a task
that nobody takes goes back to the head it came from.

`NoIdleAgentWhileQueued` does not hold of every pool. `FixedPool` is what it takes: no
autoscaling, no second start and no `updateSpec` (an agent that joins a running pool
turns idle before the pool listens to it), no assignment the schemas reject (it leaves
its agent idle and the task with nobody), and agents that can run every task (the head
of the queue holds up the rest). Under it a dispatch per event is enough: an event makes
one agent idle, or adds one task (`OneDispatchIsEnough`), and before that no agent is
idle or nothing waits.

**ParallelExecutor.** What the loop waits for is right only if its counters are
(`SchedulerInStep`), the counters only if each is changed once for each settled operation
(`PendingAgree`: `pending` counts the places of a dependency list that still wait), and
that only if a failure reaches everything downstream at once and nothing of it has begun
(`Order`). `cascadeSkip()` is the least set closed under "depends on", so facts about it
come from closed sets: whatever is closed contains it. A scan that has dispatched nothing
leaves everything it looked at blocked (`Scanning`). At the end of such a scan something
runs, or everything has settled: the least unsettled operation, which exists because
operations are numbered (`LeastMember`, from the well-founded order of initial segments),
has settled dependencies, none of which failed, and so is ready; with nothing running the
caps have room. `RunImplementsDagRun` maps each step to the step of `DagRun` named in
`StepImplements`, or to a stutter. Only the safety part of `DagRun` is proved; that the
run returns, and that nothing owes an end then, under fairness, is the run's.

**NodeChain.** `WithdrawnNeverRuns` says nothing of a call that has not started yet.
`Withdrawn` adds what keeps it from starting: its session stays killed, its token stays
revoked. `RowsTellWhatRan` says nothing of a call on its way; `Stages` adds what each
stage has established, so that the `finally` block writes a row that is true.

**TaskReconciler.** A marker that another run has moved, or that a run moves back, is
harmless only if everything up to where each run *started* has been inspected
(`Covered`): by itself, by one that died, or by one that overlaps. `RerunsCloseNothing`
is about what a run saw, while the board has moved on; `NoneReopened` says that what a
snapshot holds to be closed still is, which is why users who reopen tasks are left out:
with one, a run after a crash closes the task again by the claim that closed it before
(see 7).

**SecureGateway.** The count of `create()` is over records, and what is to be bounded is
sessions. They meet in `RecordsStay`: while the gateway is open, a session that was begun
within the timeout still has its record; and in `IdsApart`: a record is made with an id
that no session has, so that what is touched or deleted by the id of a session is never
the record of another. The bound then says what the code does, not more: it counts
sessions begun or used within one timeout, and not those that are open.

**TaskLog.** Between the three statements of an update its row has been read, or written,
or told of, and the event that is under way is true only as long as nobody else writes.
`Overlaps` says that two commands at work on one task have made it contested, `Knows`
that what an uncontested command has read is the row until it writes it, and what it has
written is the row after; `Continues` that the last event of a task tells the status and
subject that its command has read, which is what makes the kinds of events follow each other.
For redaction the copy that was read is the original or a tombstone, and only the first
is ever written.

**TaskBoard.** The invariant (`BoardInv`) is about one command at a time, seen from the
board: `Fits` says that what it has read of tasks nobody else works on still stands, and
that each patch it has still to write is right for the row it will meet. Two commands
meet only in contested tasks, so that a step of one leaves what the others know as it was:
the frame argument (`OthersFit`), which every action uses, is one half of the proof; the
other half is what a step makes of its own command and of the board. Two things need more.
A merge has tested on a snapshot that its target is not below its source, and moves the
children one by one, while others move theirs: what stays of its test is a set of tasks
that leads upward from the target, closed under parents, which has none of the children
that it is to move (`Leads`); moving a child below the target makes no circle then
(`NoCircleIsMade`). Two such merges destroy each other's sets, hence `crossed`. And a creation
keeps the key for a row that stands without it at first: `KeyIsFree` says that no open
task has it meanwhile, `Beside` that two creations with one key have made it doubtful.
`Halfway` says of a merge that the source's notes are with the target or in its first patch, and that
every child that is left is among its patches: that is what `CommandsKeepTheBoard` is proved from.

**Workflows, sandbox, market, memory.** An execution that walks says with its status and its
place where the walk has got (`Walks`), and the timer of a run that nobody overlapped is its own
(`Timers`). As long as no call overlaps with a process, one process is open at most, the one
that runs is the current one, and while `destroy()` awaits, or has returned, it is one that
slipped in (`Alone`). An online node gave a sign of life within the timeout before
the last pruning, and pruning was at most an interval ago; the best of the candidates
is there because a finite set of prices has a least and a greatest member (`ExtremeMember`).
On an entry that no two calls touched at the same time, a call that is at work knows what
the vectors are (`Progress`), and when none is, they follow the row (`Follows`); a search
answers from its own snapshot, cut where `list()` stops and then to its own limit (`Best`).

**LSP client.** Ids are given once, and what a server has written is in answer to a request that
it no longer has to answer (`Written`): whatever of it `handleData()` takes, and however it
was cut up, settles calls whose request is answered (`Asked`), for any number of servers. With
one server that writes ASCII, the buffer and the pipe together are one whole answer
after the other, and less than one of them is in the buffer (`InStep`). The loop of
`handleData()` is a recursive function over its turns. That there is such a function, and
what it has taken after so many turns (`TurnByTurn`, `HandleTakes`, `HandleInThrees`), is by
induction over the turns of one call; they are bounded by the length of the text, so that the
induction can be stated of a set of numbers (`ReachesAll`), which the provers can use, and
needs no operator.

**Setup page.** The banner is shown by a comparison of counters that does not look at the
queue. `Counts` relates them: what is done and what is queued make up the total, unless the
server refused a run of this round, after which they fall short of it. `Cards` says that the head of the queue is
the run that is followed, `Links` that its process has the link of the page, unless one was lost.

**Index, guard, TDD, deploys.** `FollowInv` says what each step of an indexing run has
established of the tree, as long as nobody disturbs it; `ToldOfOne` says what git tells of
one path in the root of a repository, and `PlanFollows` what is planned for it. Of the watcher, that what is
pending is what is owed, and has a timer. `OwnRecord`: the snapshot of a file holds what
an agent read, unless another's has taken its place. `CycleInv`: what each stage of a
cycle has put on the disk, while the cycle has the files for itself (`Apart`). What
`status` says of production is proved of commits that have gone on since: no record is of
a later commit than the deploy it comes from began with (`Sending`), the files that were
compared are on the air (`Compared`), and between the commit on record and HEAD one is on
the air (`Shipped`, `LookedAt`).

**Marks.** What a mark promises is false of half-done work unless the work itself keeps
the promise: an ingest has planned every turn after the last one it took (`Planned`,
`Settled`), overlapping ones each for itself (`Own`), and facts are never taken back; a
folder is listed oldest first, so that whatever is between the mark and some entry has an
entry (`Listed`), and is stored in that order (`Stored`); a bundle is good because the mark
is packed before the rows (`Packing`), and a root because nobody is at it while a good
bundle is written over it (`Restoring`). Nothing is assumed of the constants.

**RateLimiter.** The bound is not inductive: it says nothing of tokens that were saved
up. `Account` bounds what was granted *plus what is still in the bucket* by the burst and
by what has come back since the window began, and is: a refill moves what it adds from
the one side to the other, a grant moves a token, a denied request changes nothing.

**Only model-checked.** Liveness (`WorkEnds`, `CloseEnds`, `ClaimsLand`, the fairness part
of `ImplementsDagRun`) and anything with ENABLED are beyond the proof system. So is what a
fold, a filter or a sort of a sequence computes for every input, since that needs induction
over data (of the bounded loop of the LSP client the induction could be stated of a set; sequences
of any length have no such bound): the lines a fix leaves (`SoundLinesSurvive`, the half of `EditsAreSafe` that
`EditsArePlannedOnTheFile` does not prove), the diff (`LeastIsTold`), clusters of tasks
(`ClustersAreComponents`), the graph that is built (`GraphTellsItsEdges`), hook settings
(`HooksAreLeftWhole`), the gate's groups (`GateIsFair`), lines cut from pipes and pages of
a listing (`ScreensTellWhatIs`, and the cockpit's half of `PagesTellWhatIs`, whose listing is
sorted by an operator of the `TLC` module that the prover cannot look into; the
wizard's half is proved), and that the
two implementations of facts answer alike (the rest of `MemoryIsWhole`). The properties
of `codebase` are about chunks, walks and parsers that are written with RECURSIVE operators;
no module with theorems uses those. All of these are checked by TLC on bounded inputs. The
violations in section 3 are counterexamples, and need no proof.

## 7. Where code and documents disagree

Each of the first four is a run whose counterexample is the evidence; the exact
quotations are in `PROJECT.json` under "findings".

- `pool_overshoot`: scale-ups under way are not counted against `maxReplicas`.
- `gateway_refused`: the record of a session is made before the transport accepts the
  first request and is removed by another id than it was made with; until it times out
  a client is told that the maximum of sessions is reached.
- `node_verifying`: the kill switch is asked before the token is verified, and not
  again after that await.
- `recon_race`: whether a task is open is decided on a snapshot, and `save()` is an
  upsert, so a task that was closed meanwhile is closed over, and one that was deleted
  comes back.

The models say the rest by what they have to leave out of their properties. Met while
modelling, and not made a run of their own:

*Agents, calls, logs*
- Scaling down re-enters itself and terminates every idle agent (`AgentPool.ts:453`); an
  agent added to a running pool waits beside a queue until the next event; a task at
  the head that nobody is capable of holds up the rest (`AgentPool.ts:257`).
- `createNode` gives the auth layer no key store, so that a revoked token is good until
  it expires (`create-node.ts:166`); the row of an allowed call is written after its
  tool has run, and a call that outlives the closing of the ledger leaves none.
- A record of a session in use expires, so that the limit bounds the sessions begun per
  timeout and not those open; a request that is still being read when `close()` has gone
  through the sessions opens one that nobody closes, although the loop is to "Close all
  transports and servers" (`secure-gateway.ts:301`): a client that then opens its stream
  over the same connection keeps `close()` from resolving for as long as it stays, which
  is why `CloseEnds` speaks of `Held`.
- Two merges at the same time, of tasks that have nothing to do with each other, can lead
  parents round in a circle though each refuses one (`task-merge.ts:67`); a failed task that
  is run again is a second open task of its `dedupeKey`, if one was created meanwhile
  (`handler.ts:364`, `task-actions.ts:355`).
- `task-log.ts:5` says that the state of a task can be reconstructed from its events: they have
  its status, subject, session and stream, and neither description, parent nor metadata (`:250`).
  Two overlapping updates of one task lose a patch, and its last event need not tell of the
  row that is stored; a closure whose run dies before its audit record is never audited; a task that
  a user reopens after such a run is closed again by the claim that closed it.
- A sandbox that was destroyed is not stopped for good: what is executed while `destroy()`
  awaits `stop()` runs on in it, and an error event that comes late makes it usable again
  (`ProcessSandbox.ts:102`, `123`).
- `ledger.ts:72` calls each ALTER idempotent; two processes that open an old ledger
  together both find a column missing, and one fails. `count` ignores tool and result,
  and `query` stops at 1000 rows unless told otherwise.
- `audit-killswitch.ts:16` says the audit trail records a halt; it does where commands
  neither overlap nor break off, and a create over a file that is being written, or was
  torn, loses a halt.
- Percentiles are of the window only while the clock is not set back.
- Overlapping first uses of the tool handler open two task stores, or start two language
  servers; a shutdown that ends late takes the newer orchestrator away; `createPool`
  replaces a pool of the same name without stopping it; task ids are `Date.now()`.

*Code and workspace*
- `EditConcurrencyGuard.ts:20` says "Snapshots are per-agent"; they are kept by path alone,
  so that one agent's read stands for another's.
- `git-aware-indexer.ts:4` promises the files changed since the last index; a path that is
  deleted in one of the three diffs and added in another is on both lists, and is lost. The
  diffs are run in `projectRoot` without `--relative` (`git-tracker.ts:283`, `343`, `351`): below
  the root of a repository a changed file is taken for another or for none, and a removed file
  elsewhere of the same name takes its entry away. A name that git quotes is read with its
  quotes (`:295`, `:384`), so that a change to that file is missed once it has an entry.
- A watch that fails is told, and `isWatching()` stays true; `start()` then does nothing
  (`file-watcher.ts:45`, `60`). An event without a name is dropped (`:54`). Nothing in the
  repository starts a `FileWatcher`; the package exports it.
- The client counts characters where `Content-Length` counts bytes: one character that
  is not ASCII puts it out of step, as does what a former server left in its buffer.
- `symbol-resolver.ts:157` tells whether a definition is known by a line that counts from
  zero among lines that count from one; the parse cache of the scan is never cleared.
- A block that is merged from several keeps the weight limit and not `maxLines`, the
  "hard ceiling on lines" (`cast-chunker.ts:46`).
- A depth-limited walk that is depth-first misses files a shorter path would have
  reached; `tools.ts:191` says the default depth is 50, which an undefined `maxDepth`
  overrides.
- A summary loses its entry points where it starts again from the first 50 files; a
  scope "src" takes in "src2"; an index with nothing in scope answers "No source files"
  without a look at the disk; `withinBudget` is computed before the graph layer is added.
- `TreeSitterAdapter.ts:64-66` says a strategy that is registered later wins; for a file
  that was parsed it does once the file changes. Hashes of 32 bits may collide.
- `clusterSummary` is cut to 25 before it is filtered; `cluster-acl.ts:92` tells of a verdict,
  abstain, that is never returned; `file-matcher.ts:14-16` tells operators to allow a path
  on the secret list explicitly, and deny always wins. `types.ts:159` and `:308` of the graph
  give a limit a default; a limit of 0 is not treated alike.
- The stores of facts differ: `created_at` of an entry that is put again, a limit of 0,
  the limit before or after the tag filter; a limit of an in-memory search also
  restricts its candidates. SQLite always has a limit, 1000 to list and 20 to search, where
  memory has none unless one is given.
- `configure` of the context budget forgets what was used. `CsvEtl.ts:4` and quoted line
  ends: a field with one is cut. `--days 0` of the token report becomes 7.
- `validator.ts:12` states rule 7 of links; the code sees links by title, not by file name.

*Atrium*
- `audit-wrap.ts:4` says an operation is ledgered before it commits; `withAudit()` appends
  once, in `finally`, when it has run. `--max-turns` caps "total turns processed"
  (`ingest-cc-sessions.ts:171`); the cap is asked before the awaits of a turn and counted
  after them, so that files taken in side by side go over it, by one turn each. The help
  of its concurrency (`:174`) speaks of turns within a file, while it is files that run
  side by side.
- `ui/server.ts:718` closes children "so we don't orphan ingestion runs"; one that starts
  while the wizard closes, or ignores SIGTERM, goes on. `:461` says the panel renders
  again if the ledger appears later; only heartbeats come.
- `install-hooks.ts:237`: the next installation without the flag "disables tool mapping",
  and the entries stay. `atrium-user-prompt.sh:15` is disabled by a configuration that the
  next installation overwrites. Once `settings.local.json` exists, or with `--settings-path`,
  an uninstall leaves the hooks of the other file pointing at scripts that are gone. `hook-config.ts:163` would
  "rather fail loudly than silently overwrite": the settings are written in place (`:188`), and a
  kill between the two halves of that leaves nothing, which the next command takes for `{}`, or half of
  them, which every command refuses. Any command with `atrium-` in it is taken for one of ours
  (`:145`), an operator's own as well.
- `app.js:220` runs sources one after the other because "parallel runs would thrash"; a
  stream that breaks lets the next begin beside the old one, and counts as done.
  `cockpit.js:185` keeps 200 rows; the page shows the answer that came last, which need not be to the
  last question, and its pager, which stays as it was when a fetch fails, can lead past the end, to
  "No entries yet" without a way back; an error of the server is shown as that, too (`:251`, `:262`).

*Gates and release*
- A renewal lasts 45 days by one rule and 46 by the way dates are compared; the gate
  advises merges the board refuses as circles, and follows the last report only.
- `status --prod` says `✓` of HEAD and proves one route; a public file that was deleted
  never ages.
- `publish-npm.mjs:5` calls a run idempotent and its end may say "Nothing published."
  after a failure in the middle; `repo-hygiene` allows a copy by the name of its first
  path alone.

## 8. Not modelled

- *External programs and cryptography*: JWT and TLS are a verdict; git is a list of
  commits, a tree and an index; language servers, `rg`, `npm`, model calls, Louvain and
  sandboxed processes answer anything they may.
- *Grammars, patterns and wording*: what a parser finds, what a glob matches, what a
  report says. Their callers, and what is kept of their results, are modelled.
- *Without state of their own, or one value*: specialised agents, prompt registry, token
  issuing, access policies over paths, transport factory, DPA guard (whose list of
  sub-processors nothing compares), model router, row-level security (nothing calls
  it), PDF and MCP connectors, PDF signing, the remaining repository gates
  (`pitch-integrity`, `secret-scan`, `ui-geometry`, ...), site and examples.
- *Parts of modelled components*: named in the note of each component in `PROJECT.json`:
  messages between agents; `toposort` on a plan mutated after `add()`; malformed JSON in
  the gateway; explicit lower bounds, rewritten history and the 200-commit window of the
  reconciler; `reset()` of the kill switch and of the limiter (no caller in the system).
- *Machine measurements* in `parallel/src/limits.ts` appear as constants.

## 9. What is left to do

1. Compositions: the limiter inside the gateway's handler; the gateway's `close()` above
   the ledgers of its nodes; the pool under the orchestrator as what it is proved to be.
2. Proofs: `HooksAreLeftWhole` and `OneIsKept` of the gate for a fixed number of entries, where no
   induction over them is needed; the cockpit's half of `PagesTellWhatIs`, with a
   listing that is said to be sorted and not how.
3. Plans: `toposort` and levels against reachability, over every plan of four operations.
