------------------------------ MODULE ToolHandler ------------------------------
(***************************************************************************)
(* What the tool handler of packages/code keeps between its calls          *)
(* (mcp/handler.ts): the store of the tasks, the audit log and the         *)
(* orchestrator, each made by the first call that needs it, while calls    *)
(* run at the same time and close() may come at any of them.  What the     *)
(* calls do to the tasks is in TaskBoard, what workflows do in             *)
(* Orchestrator.                                                           *)
(***************************************************************************)
EXTENDS Naturals, FiniteSets

CONSTANTS
    Call,       \* calls that may be under way
    Role,
    Kind,       \* what is called: "use", "clear", "pool", "shutdown" or "close"
    Made        \* bound: stores, orchestrators and pools made, of each

VARIABLES
    at,         \* [Call -> where it is]
    kind,       \* [Call -> what it is]
    uses,       \* [Call -> the store of its manager, or its orchestrator]
    rest,       \* [Call -> pools it has yet to stop]
    outcome,    \* [Call -> "ok" or "failed"]
    stores,     \* how many stores were made
    openStores,
    store,      \* the handler's store, 0 for none; its manager has it too
    log,        \* the audit log is open
    hasLog,     \* the handler has an audit log
    orchestrators, \* how many were made
    orchestrator,  \* the handler's, 0 for none
    pools,      \* [orchestrator -> [Role -> its pool, 0 for none]]
    started,    \* how many pools were made
    running,    \* pools that run
    crowded,    \* history: stores made by a call while another made one, or close() came
    closedUnder,\* history: calls under which close() came
    strays,     \* history: pools replaced, or started in an orchestrator that stops or
                \* was dropped
    uncovered   \* history: a clear that made no backup

boardVars == <<stores, openStores, store, log, hasLog, crowded, closedUnder, uncovered>>
orchVars  == <<orchestrators, orchestrator, pools, started, running, strays>>
callVars  == <<at, kind, uses, rest, outcome>>
vars == <<boardVars, orchVars, callVars>>

Init ==
    /\ at = [c \in Call |-> "idle"] /\ kind = [c \in Call |-> "use"]
    /\ uses = [c \in Call |-> 0] /\ rest = [c \in Call |-> {}] /\ outcome = [c \in Call |-> "ok"]
    /\ stores = 0 /\ openStores = {} /\ store = 0 /\ log = FALSE /\ hasLog = FALSE
    /\ orchestrators = 0 /\ orchestrator = 0 /\ started = 0 /\ running = {}
    /\ pools = [o \in 1..Made |-> [r \in Role |-> 0]]
    /\ crowded = {} /\ closedUnder = {} /\ strays = {} /\ uncovered = FALSE

Go(c, k, to) == at' = [at EXCEPT ![c] = to] /\ kind' = [kind EXCEPT ![c] = k]
Ends(c, how) == at' = [at EXCEPT ![c] = "done"] /\ outcome' = [outcome EXCEPT ![c] = how]

\* getTaskManager(): a manager there is is taken, else the directory is made first.
Begin(c) ==
    /\ at[c] = "idle"
    /\ \E k \in Kind \cap {"use", "clear"} :
          /\ Go(c, k, IF store = 0 THEN "making" ELSE k)
          /\ uses' = [uses EXCEPT ![c] = store]
    /\ UNCHANGED <<rest, outcome, boardVars, orchVars>>

Open(c) ==
    /\ at[c] = "making" /\ stores < Made
    /\ stores' = stores + 1 /\ openStores' = openStores \cup {stores + 1} /\ store' = stores + 1
    /\ at' = [at EXCEPT ![c] = kind[c]] /\ uses' = [uses EXCEPT ![c] = stores + 1]
    /\ crowded' = IF c \in closedUnder \/ (\E d \in Call \ {c} : at[d] = "making") \/ store # 0
                  THEN crowded \cup {stores + 1, store} ELSE crowded
    /\ UNCHANGED <<kind, rest, outcome, log, hasLog, closedUnder, uncovered, orchVars>>

\* A call reads and writes with the manager it has, and then notes an event:
\* the audit log is opened by whoever needs it.
Use(c) ==
    /\ at[c] = "use"
    /\ IF uses[c] \in openStores
       THEN Ends(c, "ok") /\ log' = TRUE /\ hasLog' = TRUE
       ELSE Ends(c, "failed") /\ UNCHANGED <<log, hasLog>>
    /\ UNCHANGED <<kind, uses, rest, stores, openStores, store, crowded, closedUnder, uncovered, orchVars>>

\* clear: counted with the manager it has, and confirmed ...
Confirm(c) ==
    /\ at[c] = "clear"
    /\ IF uses[c] \in openStores
       THEN at' = [at EXCEPT ![c] = "cleared"] /\ UNCHANGED outcome
       ELSE Ends(c, "failed")
    /\ UNCHANGED <<kind, uses, rest, boardVars, orchVars>>

\* ... and after the directory is there, backed up from the handler's store, if it has one.
Clear(c) ==
    /\ at[c] = "cleared"
    /\ IF uses[c] \in openStores
       THEN /\ Ends(c, "ok") /\ log' = TRUE /\ hasLog' = TRUE
            /\ uncovered' = (uncovered \/ store = 0)
       ELSE Ends(c, "failed") /\ UNCHANGED <<log, hasLog, uncovered>>
    /\ UNCHANGED <<kind, uses, rest, stores, openStores, store, crowded, closedUnder, orchVars>>

-----------------------------------------------------------------------------
\* getOrchestrator() and create_pool: started first, then in the map of its role.
BeginPool(c) ==
    /\ at[c] = "idle" /\ "pool" \in Kind /\ started < Made
    /\ IF orchestrator = 0
       THEN /\ orchestrators < Made
            /\ orchestrators' = orchestrators + 1 /\ orchestrator' = orchestrators + 1
       ELSE UNCHANGED <<orchestrators, orchestrator>>
    /\ Go(c, "pool", "starting") /\ uses' = [uses EXCEPT ![c] = orchestrator']
    /\ started' = started + 1 /\ running' = running \cup {started + 1}
    /\ rest' = [rest EXCEPT ![c] = {started + 1}]
    /\ UNCHANGED <<outcome, pools, strays, boardVars>>

Stops(o) == \E d \in Call : at[d] = "stopping" /\ uses[d] = o

SetPool(c) ==
    /\ at[c] = "starting"
    /\ \E r \in Role, p \in rest[c] :
          /\ pools' = [pools EXCEPT ![uses[c]][r] = p]
          /\ strays' = strays \cup ({pools[uses[c]][r]} \ {0})
                              \cup (IF orchestrator = uses[c] /\ ~ Stops(uses[c]) THEN {} ELSE {p})
    /\ Ends(c, "ok") /\ rest' = [rest EXCEPT ![c] = {}]
    /\ UNCHANGED <<kind, uses, orchestrators, orchestrator, started, running, boardVars>>

PoolsOf(o) == {pools[o][r] : r \in Role} \ {0}

\* "shutdown", which makes an orchestrator where there is none.
BeginShutdown(c) ==
    /\ at[c] = "idle" /\ "shutdown" \in Kind /\ orchestrator # 0
    /\ Go(c, "shutdown", "stopping")
    /\ uses' = [uses EXCEPT ![c] = orchestrator]
    /\ rest' = [rest EXCEPT ![c] = PoolsOf(orchestrator)]
    /\ UNCHANGED <<outcome, boardVars, orchVars>>

\* shutdown() of the orchestrator: pool by pool, those that came meanwhile too.
StopPool(c) ==
    /\ at[c] = "stopping"
    /\ \E p \in rest[c] :
          /\ running' = running \ {p}
          /\ rest' = [rest EXCEPT ![c] = @ \ {p}]
    /\ UNCHANGED <<at, kind, uses, outcome, orchestrators, orchestrator, pools, started, strays, boardVars>>

\* Then nothing is known of its pools, and the handler has no orchestrator, whichever it had.
Drop(c) == orchestrator' = 0
Drop_Others(c) == UNCHANGED orchestrator
Forget(c) ==
    /\ at[c] = "stopping" /\ rest[c] = {}
    /\ IF uses[c] # 0 /\ PoolsOf(uses[c]) \cap running # {}
       THEN rest' = [rest EXCEPT ![c] = PoolsOf(uses[c]) \cap running]
            /\ UNCHANGED <<at, outcome, pools, orchestrator, strays>>
       ELSE /\ Ends(c, "ok")
            /\ pools' = IF uses[c] = 0 THEN pools ELSE [pools EXCEPT ![uses[c]] = [r \in Role |-> 0]]
            /\ IF uses[c] = 0 THEN UNCHANGED orchestrator ELSE Drop(c)
            /\ strays' = strays \cup (IF uses[c] \in {0, orchestrator} \/ orchestrator = 0 THEN {}
                                     ELSE PoolsOf(orchestrator))
            /\ UNCHANGED rest
    /\ UNCHANGED <<kind, uses, orchestrators, started, running, boardVars>>

-----------------------------------------------------------------------------
\* close(): store, marker and log at once, the orchestrator after them.
Close_Manager(c) == openStores' = openStores \ {store} /\ UNCHANGED store
Close_Store(c) == openStores' = openStores \ {store} /\ store' = 0
Close(c) ==
    /\ at[c] = "idle" /\ "close" \in Kind
    /\ Close_Store(c)
    /\ log' = (log /\ ~ hasLog) /\ hasLog' = FALSE
    /\ Go(c, "close", "stopping")
    /\ uses' = [uses EXCEPT ![c] = orchestrator]
    /\ rest' = [rest EXCEPT ![c] = IF orchestrator = 0 THEN {} ELSE PoolsOf(orchestrator)]
    /\ closedUnder' = closedUnder \cup {d \in Call \ {c} : at[d] \notin {"idle", "done"}}
    /\ UNCHANGED <<outcome, stores, crowded, uncovered, orchVars>>

Leave(c) ==
    /\ at[c] = "done"
    /\ at' = [at EXCEPT ![c] = "idle"] /\ uses' = [uses EXCEPT ![c] = 0]
    /\ outcome' = [outcome EXCEPT ![c] = "ok"] /\ kind' = [kind EXCEPT ![c] = "use"]
    /\ closedUnder' = closedUnder \ {c}
    /\ UNCHANGED <<rest, stores, openStores, store, log, hasLog, crowded, uncovered, orchVars>>

Next == \E c \in Call :
    \/ Begin(c) \/ Open(c) \/ Use(c) \/ Confirm(c) \/ Clear(c) \/ Leave(c)
    \/ BeginPool(c) \/ SetPool(c) \/ BeginShutdown(c) \/ StopPool(c) \/ Forget(c) \/ Close(c)

Spec == Init /\ [][Next]_vars

-----------------------------------------------------------------------------
\* A store that is open is the handler's, and one clears no tasks without a backup,
\* unless first calls came together or close() came while one made its store; a
\* call fails only where close() came under it (getTaskManager, close).
StoresAreOwned ==
    /\ openStores \ crowded \subseteq {store} \ {0}
    /\ store # 0 => store \in openStores
    /\ uncovered => crowded # {}
    /\ \A c \in Call : outcome[c] = "failed" => c \in closedUnder \/ crowded # {}

\* A pool that runs is one of the handler's orchestrator, of one that is being shut
\* down, or of a call that still starts it, unless another took its place or it
\* was started where its orchestrator stops or a late shutdown took the newer
\* orchestrator from the handler (orchestrateAgents, close).
PoolsAreOwned ==
    running \ strays \subseteq
        (IF orchestrator = 0 THEN {} ELSE PoolsOf(orchestrator))
        \cup UNION {rest[c] : c \in Call}
================================================================================
