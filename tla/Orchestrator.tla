------------------------------ MODULE Orchestrator ------------------------------
(***************************************************************************)
(* Workflows over agent pools (Orchestrator.ts of packages/core).          *)
(*                                                                         *)
(* The calls of executeWorkflow() interleave at their awaits: the 100 ms a *)
(* sequential stage waits after each task, the join of a parallel one, the *)
(* review of a veto.  Of a pool (see AgentPool) only matters whether it    *)
(* takes tasks: one that drains throws.  A role gets one pool in its life. *)
(* checkVeto() always approves, so that the retries and the escalation     *)
(* after a veto cannot be reached and are left out.                        *)
(***************************************************************************)
EXTENDS Naturals, Sequences, FiniteSets, SequencesExt

CONSTANTS
    Exec,       \* the executions of the workflow
    WorkflowOf, \* the template each of them runs
    Role,
    NoExec

VARIABLES
    pool,       \* what a pool does
    pools,      \* Map of the pools, by role
    run,        \* where a call of executeWorkflow is
    record,     \* the WorkflowExecution of a call, with the phases of its checkpoints
    executions, \* Map of the executions
    ticking,    \* executions with an interval that has not been cleared
    timer,      \* checkpointTimer
    lifecycle,
    walked,     \* history: the stages an execution has started
    contested   \* history: executions overlapped, or one overlapped shutdown()

vars == <<pool, pools, run, record, executions, ticking, timer, lifecycle, walked, contested>>

Stage(roles, pattern, veto, next) ==
    [roles |-> roles, pattern |-> pattern, veto |-> veto, next |-> next]

\* WORKFLOW_TEMPLATES; a terminal stage has no next one.
Stages(e) ==
    CASE WorkflowOf[e] = "codeReview" ->
            [implement |-> Stage(<<"coder">>, "sequential", FALSE, "review"),
             review    |-> Stage(<<"reviewer">>, "sequential", TRUE, "end")]
      [] WorkflowOf[e] = "tddCycle" ->
            [test      |-> Stage(<<"tester">>, "sequential", FALSE, "implement"),
             implement |-> Stage(<<"coder">>, "sequential", FALSE, "refactor"),
             refactor  |-> Stage(<<"coder", "reviewer">>, "council", TRUE, "end")]
      [] WorkflowOf[e] = "parallelAnalysis" ->
            [analyze    |-> Stage(<<"analyst", "coder", "reviewer">>, "parallel", FALSE, "synthesize"),
             synthesize |-> Stage(<<"analyst">>, "sequential", FALSE, "end")]

Entry(e) ==
    CASE WorkflowOf[e] = "codeReview"       -> "implement"
      [] WorkflowOf[e] = "tddCycle"         -> "test"
      [] WorkflowOf[e] = "parallelAnalysis" -> "analyze"

Idle(e) == [at |-> "idle", stage |-> Entry(e), i |-> 0]
Running(e) == run[e].at \notin {"idle", "done"}

Init ==
    /\ pool = [r \in Role |-> "absent"] /\ pools = {}
    /\ run = [e \in Exec |-> Idle(e)]
    /\ record = [e \in Exec |-> [status |-> "none", stage |-> Entry(e), marks |-> {}]]
    /\ executions = {} /\ ticking = {} /\ timer = NoExec
    /\ lifecycle = "up"
    /\ walked = [e \in Exec |-> <<>>] /\ contested = FALSE

poolVars == <<pool, pools>>

--------------------------------------------------------------------------------
\* createPool, once the pool has started; removePool, which drains it first.
CreatePool(r) ==
    /\ pool[r] = "absent"
    /\ pool' = [pool EXCEPT ![r] = "open"] /\ pools' = pools \cup {r}
    /\ UNCHANGED <<run, record, executions, ticking, timer, lifecycle, walked, contested>>

BeginRemove(r) ==
    /\ r \in pools /\ pool[r] = "open"
    /\ pool' = [pool EXCEPT ![r] = "draining"]
    /\ UNCHANGED <<pools, run, record, executions, ticking, timer, lifecycle, walked, contested>>

\* The pool has stopped: it takes tasks again, which nobody will run.
RemovePool(r) ==
    /\ r \in pools /\ pool[r] = "draining" /\ lifecycle # "stopping"
    /\ pool' = [pool EXCEPT ![r] = "stopped"] /\ pools' = pools \ {r}
    /\ UNCHANGED <<run, record, executions, ticking, timer, lifecycle, walked, contested>>

--------------------------------------------------------------------------------
\* Mutant: the timer of a workflow that fails is left running.
Ends_Leak(e, status, stage) ==
    /\ run' = [run EXCEPT ![e].at = "done"]
    /\ record' = [record EXCEPT ![e].status = status, ![e].stage = stage]
    /\ IF status = "completed"
       THEN ticking' = ticking \ {timer} /\ timer' = NoExec
       ELSE UNCHANGED <<ticking, timer>>

\* The end of executeWorkflow(): it clears the timer there is, whoever started it.
Ends(e, status, stage) ==
    /\ run' = [run EXCEPT ![e].at = "done"]
    /\ record' = [record EXCEPT ![e].status = status, ![e].stage = stage]
    /\ ticking' = ticking \ {timer} /\ timer' = NoExec

\* A stage takes its pools from the Map, and fails if one is missing or drains.
\* beats: the intervals, with that of this call when it has just begun.
Enter(e, s, beats, own) ==
    LET stage == Stages(e)[s]
        first == IF stage.pattern = "sequential" THEN {stage.roles[1]} ELSE Range(stage.roles)
        ready == /\ Range(stage.roles) \subseteq pools
                 /\ \A r \in first : pool[r] # "draining"
    IN  /\ walked' = [walked EXCEPT ![e] = Append(@, s)]
        /\ IF ready
           THEN /\ run' = [run EXCEPT ![e] = [at |-> stage.pattern, stage |-> s, i |-> 1]]
                /\ record' = [record EXCEPT ![e].status = IF own # timer THEN "running" ELSE @,
                                            ![e].stage = s]
                /\ ticking' = beats /\ timer' = own
           ELSE /\ run' = [run EXCEPT ![e].at = "done"]
                /\ record' = [record EXCEPT ![e].status = "failed", ![e].stage = s]
                /\ ticking' = beats \ {own} /\ timer' = NoExec

Execute(e) ==
    /\ run[e].at = "idle" /\ lifecycle # "crashed"
    /\ executions' = executions \cup {e}
    /\ contested' = (contested \/ lifecycle = "stopping" \/ \E f \in Exec : Running(f))
    /\ Enter(e, Entry(e), ticking \cup {e}, e)
    /\ UNCHANGED <<poolVars, lifecycle>>

\* Mutant: the way on is looked up from the stage on the record.
Leave_FromRecord(e) ==
    LET s == record[e].stage
        next == Stages(e)[s].next
    IN  IF next = "end" THEN Ends(e, "completed", s) /\ UNCHANGED walked
        ELSE Enter(e, next, ticking, timer)

\* On to the stage that follows the one this call is in.
Leave(e) ==
    LET s == run[e].stage
        next == Stages(e)[s].next
    IN  IF next = "end" THEN Ends(e, "completed", record[e].stage) /\ UNCHANGED walked
        ELSE Enter(e, next, ticking, timer)

\* The result of a stage is there: a veto stage asks the reviewers, if there are any.
Judge(e) ==
    IF ~Stages(e)[run[e].stage].veto \/ "reviewer" \notin pools THEN Leave(e)
    ELSE IF pool["reviewer"] = "draining"
    THEN Ends(e, "failed", record[e].stage) /\ UNCHANGED walked
    ELSE /\ run' = [run EXCEPT ![e].at = "review"]
         /\ UNCHANGED <<record, ticking, timer, walked>>

\* executeSequential: 100 ms after a task was submitted comes the next one.
Sequential(e) ==
    LET roles == Stages(e)[run[e].stage].roles
        i == run[e].i
    IN  /\ run[e].at = "sequential" /\ lifecycle # "crashed"
        /\ IF i = Len(roles) THEN Judge(e)
           ELSE IF pool[roles[i + 1]] = "draining"
           THEN Ends(e, "failed", record[e].stage) /\ UNCHANGED walked
           ELSE /\ run' = [run EXCEPT ![e].i = i + 1]
                /\ UNCHANGED <<record, ticking, timer, walked>>
        /\ UNCHANGED <<poolVars, executions, lifecycle, contested>>

\* executeParallel, executeCouncil: every task is submitted, and that is the result.
Joined(e) ==
    /\ run[e].at \in {"parallel", "council"} /\ lifecycle # "crashed"
    /\ Judge(e)
    /\ UNCHANGED <<poolVars, executions, lifecycle, contested>>

\* checkVeto() approves 100 ms after the review was submitted.
Reviewed(e) ==
    /\ run[e].at = "review" /\ lifecycle # "crashed"
    /\ Leave(e)
    /\ UNCHANGED <<poolVars, executions, lifecycle, contested>>

--------------------------------------------------------------------------------
\* createCheckpoint, by a caller or by an interval: for an execution that is no
\* longer in the Map it throws, and in an interval nobody catches that.
Checkpoint(e) ==
    /\ lifecycle # "crashed" /\ e \in executions
    /\ record' = [record EXCEPT ![e].marks = @ \cup {record[e].stage}]
    /\ UNCHANGED <<poolVars, run, executions, ticking, timer, lifecycle, walked, contested>>

Tick(e) ==
    /\ e \in ticking \ executions /\ lifecycle # "crashed"
    /\ lifecycle' = "crashed"
    /\ UNCHANGED <<poolVars, run, record, executions, ticking, timer, walked, contested>>

\* restoreFromCheckpoint: changes the record, and nothing runs again.
Restore(e) ==
    /\ lifecycle # "crashed" /\ e \in executions
    /\ \E s \in record[e].marks :
           record' = [record EXCEPT ![e].stage = s, ![e].status = "running"]
    /\ UNCHANGED <<poolVars, run, executions, ticking, timer, lifecycle, walked, contested>>

\* shutdown() clears the timer, drains one pool after the other and then forgets all.
Shutdown ==
    /\ lifecycle = "up"
    /\ lifecycle' = "stopping"
    /\ ticking' = ticking \ {timer} /\ timer' = NoExec
    /\ UNCHANGED <<poolVars, run, record, executions, walked, contested>>

StopPool(r) ==
    /\ lifecycle = "stopping" /\ r \in pools
    /\ \/ pool[r] = "open" /\ pool' = [pool EXCEPT ![r] = "draining"]
       \/ pool[r] = "draining" /\ pool' = [pool EXCEPT ![r] = "stopped"]
    /\ UNCHANGED <<pools, run, record, executions, ticking, timer, lifecycle, walked, contested>>

Forget ==
    /\ lifecycle = "stopping" /\ \A r \in pools : pool[r] = "stopped"
    /\ lifecycle' = "down" /\ pools' = {} /\ executions' = {}
    /\ UNCHANGED <<pool, run, record, ticking, timer, walked, contested>>

Next ==
    \/ \E r \in Role : CreatePool(r) \/ BeginRemove(r) \/ RemovePool(r) \/ StopPool(r)
    \/ \E e \in Exec : Execute(e) \/ Sequential(e) \/ Joined(e) \/ Reviewed(e)
                       \/ Checkpoint(e) \/ Tick(e) \/ Restore(e)
    \/ Shutdown \/ Forget

Spec == Init /\ [][Next]_vars

--------------------------------------------------------------------------------
\* Whatever checkpoints are restored while it runs, an execution starts the stages
\* of its workflow once each and in order, and has completed only after the last;
\* a checkpoint names a stage that was started.
WalksInOrder ==
    \A e \in Exec :
        LET walk == walked[e] IN
        /\ walk # <<>> => walk[1] = Entry(e)
        /\ \A i \in 1..Len(walk) : walk[i] \in DOMAIN Stages(e)
        /\ \A i \in 2..Len(walk) : walk[i] = Stages(e)[walk[i - 1]].next
        /\ record[e].status = "completed" => walk # <<>> /\ Stages(e)[walk[Len(walk)]].next = "end"
        /\ record[e].marks \subseteq Range(walk)

\* A checkpoint timer never outlives its workflow, and never brings the process
\* down, as long as no workflow overlaps another one or a shutdown: there is one
\* handle for all timers, and an overlap loses one of them.
TimersEndWithRuns ==
    contested \/ (ticking \subseteq {e \in Exec : Running(e)} /\ lifecycle # "crashed")

WorkflowsKeepOrder == WalksInOrder /\ TimersEndWithRuns
================================================================================
