--------------------------- MODULE ParallelExecutor ---------------------------
(***************************************************************************)
(* Executor.run() of packages/parallel (executor.ts) on one plan.          *)
(*                                                                         *)
(* run() is one asynchronous function and starts one asynchronous runOp()  *)
(* per operation.  Its scheduler loop scans the ready list without an      *)
(* await, so nothing else runs while it scans: an operation can finish     *)
(* only while the loop waits for its wakeup promise, or has been woken but *)
(* not resumed.  An operation that throws before its first await fails     *)
(* inside the scan.                                                        *)
(*                                                                         *)
(* The ready list is a set and is scanned in any order: the order decides  *)
(* only which of several ready operations gets the last free slot.         *)
(* Operations are the numbers 1..N in the order of Plan.add(), which       *)
(* accepts as dependencies only operations it has already issued; that is  *)
(* PlanAssumption, and it makes toposort() succeed.                        *)
(***************************************************************************)
EXTENDS Naturals, Sequences, FiniteSets

CONSTANTS
    N, Deps, Tag, NoTag, TagOf,
    Automatic, Unset,   \* option values: 'auto', and no value / no limit
    Concurrency,        \* opts.concurrency
    ConcurrencyByTag,   \* opts.concurrencyByTag
    LlmTag,             \* the tag 'llm-bound'
    CpuConcurrency,     \* getCpuConcurrency() on this machine
    SonnetRpm           \* getRpmLimit('sonnet'), Unset for an unthrottled tier

Op == 1..N
DepSet(o) == {Deps[o][i] : i \in 1..Len(Deps[o])}

ASSUME PlanAssumption ==
    /\ N \in Nat
    /\ Deps \in [Op -> Seq(Op)]
    /\ \A o \in Op : \A d \in DepSet(o) : d < o

ASSUME OptionAssumption ==
    /\ NoTag \notin Tag
    /\ TagOf \in [Op -> Tag \cup {NoTag}]
    /\ Automatic \notin Nat /\ Unset \notin Nat /\ Automatic # Unset
    /\ Concurrency \in Nat \cup {Automatic, Unset}
    /\ ConcurrencyByTag \in [Tag -> Nat \cup {Automatic, Unset}]
    /\ CpuConcurrency \in Nat \ {0}
    /\ SonnetRpm \in Nat \cup {Unset}

\* resolveGlobalCap()
GlobalCap ==
    IF Concurrency \in {Automatic, Unset} THEN CpuConcurrency
    ELSE IF Concurrency = 0 THEN 1 ELSE Concurrency

\* rpmToConcurrency() at its default latency of four seconds.
RpmCap(rpm) ==
    IF rpm = Unset THEN Unset
    ELSE IF (rpm * 4) \div 60 = 0 THEN 1 ELSE (rpm * 4) \div 60

\* resolveTagCaps(): a value below one sets no cap.
TagCap ==
    [t \in Tag |->
        IF ConcurrencyByTag[t] = Automatic THEN IF t = LlmTag THEN RpmCap(SonnetRpm) ELSE CpuConcurrency
        ELSE IF ConcurrencyByTag[t] = 0 THEN Unset
        ELSE ConcurrencyByTag[t]]

VARIABLES
    pending,       \* pending: dependencies an operation still waits for
    ready,         \* ready list
    values,        \* keys of resultById
    errored,       \* keys of failureReason
    failed,        \* failed: errored or skipped
    running,       \* operations inside op.fn
    starts, ends,  \* start and end entries of each operation in the lineage
    globalInFlight, tagInFlight, pendingCount,
    inFlight,      \* promises of runOp() calls, removed after they settle
    loop,          \* where run() is
    unscanned,     \* what the scan of the ready list has not looked at yet
    dispatched

opVars     == <<pending, ready, values, errored, failed, running, starts, ends>>
countVars  == <<globalInFlight, tagInFlight, pendingCount>>
loopVars   == <<loop, unscanned, dispatched>>
vars       == <<opVars, countVars, inFlight, loopVars>>

TypeOK ==
    /\ pending \in [Op -> Nat]
    /\ ready \subseteq Op /\ values \subseteq Op /\ errored \subseteq Op
    /\ failed \subseteq Op /\ running \subseteq Op /\ inFlight \subseteq Op
    /\ starts \in [Op -> Nat] /\ ends \in [Op -> Nat]
    /\ globalInFlight \in Nat /\ tagInFlight \in [Tag -> Nat] /\ pendingCount \in Nat
    /\ loop \in {"scan", "waiting", "woken", "draining", "returned"}
    /\ unscanned \subseteq Op
    /\ dispatched \in BOOLEAN

\* Operations without dependencies are ready at once; an empty plan skips the loop.
Init ==
    /\ pending = [o \in Op |-> Len(Deps[o])]
    /\ ready = {o \in Op : Len(Deps[o]) = 0}
    /\ values = {} /\ errored = {} /\ failed = {} /\ running = {} /\ inFlight = {}
    /\ starts = [o \in Op |-> 0] /\ ends = [o \in Op |-> 0]
    /\ globalInFlight = 0 /\ tagInFlight = [t \in Tag |-> 0] /\ pendingCount = N
    /\ loop = IF N > 0 THEN "scan" ELSE "draining"
    /\ unscanned = ready
    /\ dispatched = FALSE

-----------------------------------------------------------------------------
\* Mutant: <= for < in the test of the global cap.
CanDispatch_OffByOne(o) ==
    /\ globalInFlight <= GlobalCap
    /\ \A t \in Tag : TagOf[o] = t /\ TagCap[t] # Unset => tagInFlight[t] < TagCap[t]

\* canDispatch()
CanDispatch(o) ==
    /\ globalInFlight < GlobalCap
    /\ \A t \in Tag : TagOf[o] = t /\ TagCap[t] # Unset => tagInFlight[t] < TagCap[t]

\* cascadeSkip(): what the walk from o over dependents reaches without
\* passing through operations that have already failed.
Skipped(o) ==
    LET Closed == {S \in SUBSET Op :
                      \A c \in Op \ failed : o \in DepSet(c) \/ DepSet(c) \cap S # {} => c \in S}
    IN  {x \in Op : \A S \in Closed : x \in S}

\* How often an operation lists another as a dependency.
Occurrences(o, d) == Cardinality({i \in 1..Len(Deps[o]) : Deps[o][i] = d})

\* Mutant: the new promise is made without resolving the old one.
Wake_Lost == UNCHANGED loop

\* wake(): resolves the promise the loop awaits; nobody awaits it otherwise.
Wake == loop' = IF loop = "waiting" THEN "woken" ELSE loop

\* Mutant: the finally gives back the global slot only.
LeaveFlight_TagForgotten(o) ==
    /\ running' = running \ {o}
    /\ globalInFlight' = globalInFlight - 1
    /\ UNCHANGED tagInFlight

LeaveFlight(o) ==
    /\ running' = running \ {o}
    /\ globalInFlight' = globalInFlight - 1
    /\ tagInFlight' = [t \in Tag |-> IF t = TagOf[o] THEN tagInFlight[t] - 1 ELSE tagInFlight[t]]

\* Recording the failure of o and the skips it causes.
RecordFailure(o) ==
    LET gone == {o} \cup Skipped(o)
    IN  /\ errored' = errored \cup {o}
        /\ failed' = failed \cup gone
        /\ ends' = [x \in Op |-> IF x \in gone THEN ends[x] + 1 ELSE ends[x]]
        /\ pendingCount' = pendingCount - Cardinality(gone)

-----------------------------------------------------------------------------
(***************************************************************************)
(* runOp() of an operation the scan has picked, to its first await, or to  *)
(* its end if the operation throws at once.  That an operation in the      *)
(* ready list has a failed dependency, the case runOp() begins with, does  *)
(* not happen: see ReadyMeansReady.                                        *)
(***************************************************************************)
Pick(o) ==
    /\ loop = "scan" /\ o \in unscanned
    /\ o \notin failed /\ CanDispatch(o)
    /\ ready' = ready \ {o}
    /\ unscanned' = unscanned \ {o}
    /\ dispatched' = TRUE
    /\ inFlight' = inFlight \cup {o}
    /\ starts' = [starts EXCEPT ![o] = @ + 1]

Dispatch(o) ==
    /\ Pick(o)
    /\ running' = running \cup {o}
    /\ globalInFlight' = globalInFlight + 1
    /\ tagInFlight' = [t \in Tag |-> IF t = TagOf[o] THEN tagInFlight[t] + 1 ELSE tagInFlight[t]]
    /\ UNCHANGED <<pending, values, errored, failed, ends, pendingCount, loop>>

DispatchThrows(o) ==
    /\ Pick(o)
    /\ RecordFailure(o)
    /\ UNCHANGED <<pending, values, running, globalInFlight, tagInFlight, loop>>

\* The scan passes over operations without room, and would drop a failed one.
PassOver(o) ==
    /\ loop = "scan" /\ o \in unscanned
    /\ o \in failed \/ ~ CanDispatch(o)
    /\ ready' = ready \ ({o} \cap failed)
    /\ unscanned' = unscanned \ {o}
    /\ UNCHANGED <<pending, values, errored, failed, running, starts, ends, countVars, inFlight,
                   loop, dispatched>>

\* The end of a scan: scan again if something was dispatched, give up if
\* nothing is ready or in flight, else wait.
EndScan ==
    /\ loop = "scan" /\ unscanned = {}
    /\ loop' = CASE pendingCount = 0 -> "draining"
                 [] pendingCount > 0 /\ dispatched -> "scan"
                 [] pendingCount > 0 /\ ~ dispatched /\ inFlight = {} /\ ready = {} -> "draining"
                 [] OTHER -> "waiting"
    /\ unscanned' = ready
    /\ dispatched' = FALSE
    /\ UNCHANGED <<opVars, countVars, inFlight>>

\* The loop resumes after its wakeup promise resolved.
Resume ==
    /\ loop = "woken"
    /\ loop' = IF pendingCount > 0 THEN "scan" ELSE "draining"
    /\ unscanned' = ready
    /\ UNCHANGED <<opVars, countVars, inFlight, dispatched>>

\* await Promise.all(inFlight)
Return ==
    /\ loop = "draining" /\ inFlight \cap running = {}
    /\ loop' = "returned"
    /\ UNCHANGED <<opVars, countVars, inFlight, unscanned, dispatched>>

-----------------------------------------------------------------------------
\* op.fn has resolved: record the value and release the dependents.
Succeed(o) ==
    LET left == [c \in Op |-> pending[c] - Occurrences(c, o)]
    IN  /\ o \in running /\ loop # "scan"
        /\ values' = values \cup {o}
        /\ pending' = left
        /\ ready' = ready \cup {c \in Op \ failed : o \in DepSet(c) /\ left[c] = 0}
        /\ ends' = [ends EXCEPT ![o] = @ + 1]
        /\ pendingCount' = pendingCount - 1
        /\ LeaveFlight(o)
        /\ Wake
        /\ UNCHANGED <<errored, failed, starts, inFlight, unscanned, dispatched>>

\* op.fn has rejected: record the failure and skip what is downstream.
Fail(o) ==
    /\ o \in running /\ loop # "scan"
    /\ RecordFailure(o)
    /\ LeaveFlight(o)
    /\ Wake
    /\ UNCHANGED <<pending, ready, values, starts, inFlight, unscanned, dispatched>>

\* The finally of the runOp() promise takes it off the list.
Reap(o) ==
    /\ o \in inFlight \ running /\ loop # "scan"
    /\ inFlight' = inFlight \ {o}
    /\ UNCHANGED <<opVars, countVars, loopVars>>

Scan(o) == Dispatch(o) \/ DispatchThrows(o) \/ PassOver(o)

Next ==
    \/ \E o \in Op : Scan(o) \/ Succeed(o) \/ Fail(o) \/ Reap(o)
    \/ EndScan \/ Resume \/ Return

Spec == Init /\ [][Next]_vars

\* The scheduler and the microtask queue run, and every op.fn settles.
Fairness ==
    /\ WF_vars(\E o \in Op : Scan(o)) /\ WF_vars(EndScan) /\ WF_vars(Resume) /\ WF_vars(Return)
    /\ \A o \in Op : WF_vars(Succeed(o) \/ Fail(o)) /\ WF_vars(Reap(o))

FairSpec == Spec /\ Fairness

-----------------------------------------------------------------------------
(***************************************************************************)
(* Properties.                                                             *)
(***************************************************************************)
Unsettled == Op \ (values \cup failed)

(***************************************************************************)
(* The ready list holds exactly the operations nobody has started yet      *)
(* whose dependencies have all succeeded, duplicates in a dependency list  *)
(* included.  It shows two defensive branches of the code to be dead: the  *)
(* failed operation in the ready list, and runOp()'s failed dependency.    *)
(***************************************************************************)
ReadyMeansReady ==
    \A o \in Op : o \in ready <=> starts[o] = 0 /\ o \notin failed /\ DepSet(o) \subseteq values

(***************************************************************************)
(* The counters the scheduler decides by are the truth: they are updated   *)
(* in six places, on three paths (success, failure, failure at once).      *)
(***************************************************************************)
CountersAgree ==
    /\ globalInFlight = Cardinality(running)
    /\ \A t \in Tag : tagInFlight[t] = Cardinality({o \in running : TagOf[o] = t})
    /\ pendingCount = Cardinality(Unsettled)
    /\ globalInFlight <= GlobalCap
    /\ \A t \in Tag : TagCap[t] = Unset \/ tagInFlight[t] <= TagCap[t]

(***************************************************************************)
(* The loop never waits for a wakeup nobody will send, and never gives up  *)
(* while an operation still owes an end state (its bail-out is dead code). *)
(***************************************************************************)
NoLostWakeup ==
    /\ loop = "waiting" => running # {}
    /\ loop \in {"draining", "returned"} => Unsettled = {}

(***************************************************************************)
(* Each operation starts at most once and gets one end entry in the        *)
(* lineage, exactly when it is settled: an operation downstream of two     *)
(* failures is skipped once.                                               *)
(***************************************************************************)
OneEndEntryEach ==
    \A o \in Op :
        /\ starts[o] <= 1
        /\ ends[o] = IF o \in Unsettled THEN 0 ELSE 1
        /\ starts[o] = 1 <=> o \in running \cup values \cup errored

(***************************************************************************)
(* The sets, the counters and the lineage tell the same story.             *)
(***************************************************************************)
SchedulerInStep == TypeOK /\ ReadyMeansReady /\ CountersAgree /\ OneEndEntryEach

(***************************************************************************)
(* run() implements DagRun: the order, cap, failure and return rules of    *)
(* the promise, and that it returns.                                       *)
(***************************************************************************)
OpState ==
    [o \in Op |-> CASE o \in running -> "running"
                    [] o \in values  -> "success"
                    [] o \in errored -> "error"
                    [] o \in failed \ errored -> "skipped"
                    [] OTHER -> "waiting"]

Promise == INSTANCE DagRun WITH st <- OpState, returned <- (loop = "returned"), Uncapped <- Unset

ImplementsDagRun == Promise!Spec
=============================================================================
