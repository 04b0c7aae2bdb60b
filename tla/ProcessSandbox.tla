----------------------------- MODULE ProcessSandbox -----------------------------
(***************************************************************************)
(* One sandbox of ProcessSandbox.ts (packages/core) and the processes it   *)
(* starts.  Nothing keeps execute() from being called while a process      *)
(* runs, or while destroy() awaits stop(), or initialize() at any time.  A *)
(* process ends by itself, killed by its own timeout, or killed by stop(); *)
(* its close event comes later, in any order.                              *)
(***************************************************************************)
EXTENDS Naturals, FiniteSets

CONSTANTS
    Job, NoJob,     \* the calls of execute()
    Destroys        \* bound of the calls of destroy() under way at a time

VARIABLES
    status, current,    \* _status, currentProcess
    proc,               \* the process of a job: none, running, dying (killed), ended, failed, closed
    timedOut,           \* of a job
    destroying,         \* calls of destroy() that await stop()
    destroyed,          \* history: destroy() has returned, and nothing made the sandbox usable again
    slipped,            \* history: jobs begun while a call of destroy() awaited
    shared              \* history: two processes at a time, or initialize() beside one

vars == <<status, current, proc, timedOut, destroying, destroyed, slipped, shared>>

Init ==
    /\ status = "idle" /\ current = NoJob
    /\ proc = [j \in Job |-> "none"]
    /\ timedOut = [j \in Job |-> FALSE]
    /\ destroying = 0 /\ destroyed = FALSE /\ slipped = {} /\ shared = FALSE

Open(j) == proc[j] \in {"running", "dying", "ended", "failed"}
InUse   == \E j \in Job : Open(j)

\* initialize(): whatever the sandbox was, also one that was destroyed.
Initialize ==
    /\ status' = "idle"
    /\ destroyed' = FALSE /\ shared' = (shared \/ InUse)
    /\ UNCHANGED <<current, proc, timedOut, destroying, slipped>>

Execute(j) ==
    /\ proc[j] = "none" /\ status # "stopped"
    /\ status' = "running" /\ current' = j
    /\ proc' = [proc EXCEPT ![j] = "running"]
    /\ slipped' = IF destroying > 0 THEN slipped \cup {j} ELSE slipped
    /\ shared' = (shared \/ InUse)
    /\ UNCHANGED <<timedOut, destroying, destroyed>>

\* on('error') when there is no process after all, with or without a close event
\* to come.  A sandbox that was destroyed meanwhile is usable again.
SpawnError(j) ==
    /\ proc[j] \in {"running", "dying"}
    /\ \E to \in {"failed", "closed"} : proc' = [proc EXCEPT ![j] = to]
    /\ status' = "error" /\ current' = NoJob /\ destroyed' = FALSE
    /\ UNCHANGED <<timedOut, destroying, slipped, shared>>

\* The process ends by itself or is dead.
End(j) ==
    /\ proc[j] \in {"running", "dying"}
    /\ proc' = [proc EXCEPT ![j] = "ended"]
    /\ UNCHANGED <<status, current, timedOut, destroying, destroyed, slipped, shared>>

\* The timer of execute(), which also fires when the process has ended and is not
\* closed yet.
Fire(j) ==
    /\ Open(j) /\ proc[j] # "failed" /\ ~timedOut[j]
    /\ timedOut' = [timedOut EXCEPT ![j] = TRUE]
    /\ proc' = [proc EXCEPT ![j] = IF @ = "running" THEN "dying" ELSE @]
    /\ UNCHANGED <<status, current, destroying, destroyed, slipped, shared>>

\* Mutant: a sandbox that was destroyed goes back to idle.
Close_Idle(j) ==
    /\ proc[j] \in {"ended", "failed"}
    /\ proc' = [proc EXCEPT ![j] = "closed"]
    /\ current' = NoJob /\ status' = "idle"
    /\ UNCHANGED <<timedOut, destroying, destroyed, slipped, shared>>

\* on('close'): whichever process it is, there is no current one now.
Close(j) ==
    /\ proc[j] \in {"ended", "failed"}
    /\ proc' = [proc EXCEPT ![j] = "closed"]
    /\ current' = NoJob
    /\ status' = IF status = "stopped" THEN "stopped" ELSE "idle"
    /\ UNCHANGED <<timedOut, destroying, destroyed, slipped, shared>>

KillCurrent ==
    /\ proc' = [j \in Job |-> IF j = current /\ proc[j] = "running" THEN "dying" ELSE proc[j]]
    /\ current' = NoJob

Stop ==
    /\ KillCurrent
    /\ UNCHANGED <<status, timedOut, destroying, destroyed, slipped, shared>>

\* destroy() up to its await of stop(), and from there.
Destroy ==
    /\ destroying < Destroys /\ destroying' = destroying + 1
    /\ KillCurrent
    /\ UNCHANGED <<status, timedOut, destroyed, slipped, shared>>

DestroyEnd ==
    /\ destroying > 0 /\ destroying' = destroying - 1
    /\ status' = "stopped" /\ destroyed' = TRUE
    /\ UNCHANGED <<current, proc, timedOut, slipped, shared>>

Next ==
    \/ Initialize \/ Stop \/ Destroy \/ DestroyEnd
    \/ \E j \in Job : Execute(j) \/ SpawnError(j) \/ End(j) \/ Fire(j) \/ Close(j)

Spec == Init /\ [][Next]_vars

--------------------------------------------------------------------------------
(***************************************************************************)
(* Nothing runs on in a sandbox that is idle; and what runs in a sandbox   *)
(* after destroy() slipped in while destroy() awaited stop(), however the  *)
(* events of its processes come, then or later: unless calls of execute()  *)
(* or initialize() overlapped with a process, which loses track of it.     *)
(***************************************************************************)
NothingRunsOn ==
    ~shared => /\ status = "idle" => ~InUse
               /\ destroyed => \A j \in Job : proc[j] = "running" => j \in slipped
================================================================================
