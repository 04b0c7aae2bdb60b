----------------------------- MODULE TaskReconciler -----------------------------
(***************************************************************************)
(* The reconciler of packages/core (TaskReconciler.ts): it reads the       *)
(* commits made since its marker, closes the tasks their Task-done         *)
(* trailers name, and moves the marker.  The marker, the board and the     *)
(* audit log are three files, which users and other runs change meanwhile. *)
(*                                                                         *)
(* A commit is its trailers; commits are numbered in the order they reach  *)
(* HEAD.  History is never rewritten and shorter than the window read when *)
(* there is no marker.  A trailer names a set of tasks: one by its id,     *)
(* those with its id prefix, or those with its label.                      *)
(***************************************************************************)
EXTENDS Naturals, Sequences, FiniteSets

CONSTANTS
    Reconciler,     \* runs under way at the same time
    Task,
    Trailer,
    Names,          \* the tasks a trailer names, while they are on the board
    Commits,        \* the trailers of every commit there will be
    UserOps,        \* among "start", "fail", "complete", "reopen" and "delete"
    Concurrent,     \* whether users change the board during a run
    AuditFails,     \* whether the audit sink may throw
    MaxCrashes      \* bound of the number of crashes

ASSUME ReconcilerAssumption ==
    /\ Names \in [Trailer -> SUBSET Task] /\ Commits \in Seq(Seq(Trailer))
    /\ UserOps \subseteq {"start", "fail", "complete", "reopen", "delete"}
    /\ Concurrent \in BOOLEAN /\ AuditFails \in BOOLEAN /\ MaxCrashes \in Nat

Commit == 1..Len(Commits)
\* A claim is the place of a trailer: its commit, and which of the commit's it is.
Claims == UNION {{<<c, i>> : i \in DOMAIN Commits[c]} : c \in Commit}
Named(claim) == Names[Commits[claim[1]][claim[2]]]

Status == {"pending", "running", "failed", "completed", "absent"}
Open == {"pending", "running", "failed"}

VARIABLES
    head,       \* commits made so far
    marker,     \* the stored marker, 0 when there is none
    board,      \* the stored tasks
    evidence,   \* reconciledFromCommit of a task, 0 when there is none
    audited,    \* closures in the audit log
    at,         \* where a run is
    run,        \* what it holds: the commits it has read, those after since; the claims
                \* still to go through; the board as it read it, and changed it; history:
                \* those of its claims that were closed when it read the board
    crashes,    \* runs that died so far
    closures,   \* history: the claim and the task of every closure
    inspected   \* history: claims some run has gone through

vars == <<head, marker, board, evidence, audited, at, run, crashes, closures, inspected>>

Run == [since : 0..Len(Commits), upto : 0..Len(Commits), todo : SUBSET Claims,
        snap : [Task -> Status], seen : SUBSET (Claims \X Task)]

TypeOK ==
    /\ head \in 0..Len(Commits) /\ marker \in 0..head
    /\ board \in [Task -> Status] /\ evidence \in [Task -> 0..head]
    /\ \A t \in Task : evidence[t] > 0 =>
            \E claim \in Claims : claim[1] = evidence[t] /\ t \in Named(claim)
    /\ audited \subseteq Task \X (1..head)
    /\ at \in [Reconciler -> {"idle", "git", "read", "closing", "saving", "auditing"}]
    /\ run \in [Reconciler -> Run]
    /\ \A r \in Reconciler : run[r].upto <= head /\ (at[r] \in {"saving", "auditing"} => run[r].todo # {})
    /\ crashes \in 0..MaxCrashes
    /\ closures \subseteq Claims \X Task /\ inspected \subseteq Claims

NoRun == [since |-> 0, upto |-> 0, todo |-> {}, snap |-> [t \in Task |-> "absent"], seen |-> {}]

Init ==
    /\ head = 0 /\ marker = 0 /\ audited = {} /\ closures = {} /\ inspected = {}
    /\ board = [t \in Task |-> "pending"] /\ evidence = [t \in Task |-> 0]
    /\ at = [r \in Reconciler |-> "idle"] /\ run = [r \in Reconciler |-> NoRun]
    /\ crashes = 0

--------------------------------------------------------------------------------
Goes(r, from, to) == at[r] = from /\ at' = [at EXCEPT ![r] = to]

\* A run ends, and what it held is gone.
Ends(r) == at' = [at EXCEPT ![r] = "idle"] /\ run' = [run EXCEPT ![r] = NoRun]

Begin(r) ==
    /\ Goes(r, "idle", "git")
    /\ run' = [run EXCEPT ![r].since = marker]
    /\ UNCHANGED <<head, marker, board, evidence, audited, closures, inspected, crashes>>

\* readCommits(): git log since..HEAD.
ReadLog(r) ==
    /\ Goes(r, "git", "read")
    /\ run' = [run EXCEPT ![r].upto = head,
                                ![r].todo = {claim \in Claims : claim[1] \in (run[r].since + 1)..head}]
    /\ UNCHANGED <<head, marker, board, evidence, audited, closures, inspected, crashes>>

\* The newest commit read becomes the marker, when there is one.
Marked(r) == marker' = IF run[r].since < run[r].upto THEN run[r].upto ELSE marker

\* Closures of some of the claims.
Closed(claims) == {x \in closures : x[1] \in claims}

\* Mutant: the marker is moved before the tasks are closed.
Snapshot_MarksFirst(r) ==
    /\ Goes(r, "read", "closing") /\ run' = [run EXCEPT ![r].snap = board, ![r].seen = Closed(run[r].todo)]
    /\ Marked(r)
    /\ UNCHANGED <<head, board, evidence, audited, closures, inspected, crashes>>

\* recoverState().
Snapshot(r) ==
    /\ Goes(r, "read", "closing") /\ run' = [run EXCEPT ![r].snap = board, ![r].seen = Closed(run[r].todo)]
    /\ UNCHANGED <<head, marker, board, evidence, audited, closures, inspected, crashes>>

OpenNamed(r, claim) == {t \in Named(claim) : run[r].snap[t] \in Open}

Before(x, y) == x[1] < y[1] \/ (x[1] = y[1] /\ x[2] <= y[2])

\* Claims are gone through from the oldest commit on.
Claim(r) == CHOOSE x \in run[r].todo : \A y \in run[r].todo : Before(x, y)

\* Mutant: of several open tasks the first one is closed.
Match_First(r) ==
    LET open == OpenNamed(r, Claim(r)) IN IF open = {} THEN {} ELSE {CHOOSE t \in open : TRUE}

\* resolveMatch() and the check after it: the one open task the trailer names in the
\* snapshot.  None when it names no task, several open ones, or only closed ones.
Match(r) == {t \in OpenNamed(r, Claim(r)) : OpenNamed(r, Claim(r)) = {t}}

\* A claim that closes nothing.
Skip(r) ==
    /\ at[r] = "closing" /\ run[r].todo # {} /\ Match(r) = {}
    /\ run' = [run EXCEPT ![r].todo = @ \ {Claim(r)}] /\ inspected' = inspected \cup {Claim(r)}
    /\ UNCHANGED <<head, marker, board, evidence, audited, at, closures, crashes>>

\* updateStatus(): get() finds the task, or the run fails.
Fetch(r) ==
    /\ at[r] = "closing" /\ run[r].todo # {}
    /\ \E t \in Match(r) :
          \/ board[t] # "absent" /\ Goes(r, "closing", "saving") /\ UNCHANGED run
          \/ board[t] = "absent" /\ Ends(r)
    /\ UNCHANGED <<head, marker, board, evidence, audited, closures, inspected, crashes>>

\* updateStatus(): save() inserts or overwrites the task, with its evidence.
Save(r) ==
    /\ Goes(r, "saving", "auditing")
    /\ \E t \in Match(r) :
          /\ board' = [board EXCEPT ![t] = "completed"]
          /\ evidence' = [evidence EXCEPT ![t] = Claim(r)[1]]
          /\ closures' = closures \cup {<<Claim(r), t>>}
    /\ inspected' = inspected \cup {Claim(r)}
    /\ UNCHANGED <<head, marker, audited, run, crashes>>

\* The closure enters the result, and the audit log.  When the sink throws the
\* run fails.
Audit(r) ==
    /\ at[r] = "auditing"
    /\ \/ \E t \in Match(r) :
             /\ Goes(r, "auditing", "closing")
             /\ run' = [run EXCEPT ![r].todo = @ \ {Claim(r)}, ![r].snap[t] = "completed"]
             /\ audited' = audited \cup {<<t, Claim(r)[1]>>}
       \/ AuditFails /\ Ends(r) /\ UNCHANGED audited
    /\ UNCHANGED <<head, marker, board, evidence, closures, inspected, crashes>>

\* Mutant: the marker is moved to HEAD as it is by now.
Mark_Head(r) ==
    /\ at[r] = "closing" /\ run[r].todo = {} /\ Ends(r)
    /\ marker' = IF run[r].since < run[r].upto THEN head ELSE marker
    /\ UNCHANGED <<head, board, evidence, audited, closures, inspected, crashes>>

Mark(r) ==
    /\ at[r] = "closing" /\ run[r].todo = {} /\ Ends(r)
    /\ Marked(r)
    /\ UNCHANGED <<head, board, evidence, audited, closures, inspected, crashes>>

Crash(r) ==
    /\ at[r] # "idle" /\ Ends(r)
    /\ crashes < MaxCrashes /\ crashes' = crashes + 1
    /\ UNCHANGED <<head, marker, board, evidence, audited, closures, inspected>>

--------------------------------------------------------------------------------
\* Users commit, and change the board through TaskManager.
MakeCommit ==
    /\ head < Len(Commits) /\ head' = head + 1
    /\ UNCHANGED <<marker, board, evidence, audited, at, run, closures, inspected, crashes>>

Becomes(op, status) ==
    CASE op = "start"    -> status \in {"pending", "failed"}
      [] op = "fail"     -> status \in {"pending", "running"}
      [] op = "complete" -> status \in Open
      [] op = "reopen"   -> status = "completed"
      [] op = "delete"   -> status # "absent"

ResultOf == [start |-> "running", fail |-> "failed", complete |-> "completed", reopen |-> "pending", delete |-> "absent"]

Change(t, op) ==
    /\ Concurrent \/ \A r \in Reconciler : at[r] = "idle"
    /\ Becomes(op, board[t]) /\ board' = [board EXCEPT ![t] = ResultOf[op]]
    /\ UNCHANGED <<head, marker, evidence, audited, at, run, closures, inspected, crashes>>

Goes_On(r) == ReadLog(r) \/ Snapshot(r) \/ Skip(r) \/ Fetch(r) \/ Save(r) \/ Audit(r) \/ Mark(r)

Next ==
    \/ \E r \in Reconciler : Begin(r) \/ Goes_On(r) \/ Crash(r)
    \/ MakeCommit
    \/ \E t \in Task, op \in UserOps : Change(t, op)

Spec == Init /\ [][Next]_vars

\* A run goes on, and its callers start it again whatever became of the last one.
FairSpec == Spec /\ \A r \in Reconciler : WF_vars(Begin(r)) /\ WF_vars(Goes_On(r))
--------------------------------------------------------------------------------
\* The reconciler closes tasks that are open, and nothing else: neither a task
\* that is completed already, nor one that was deleted.  Does not hold: users
\* change the board between the snapshot and the save.
OnlyOpenTasksAreClosed ==
    [][\A r \in Reconciler, t \in Task :
            Save(r) /\ t \in Match(r) => board[t] \in Open]_vars

\* Running again is idempotent: a run that finds a claim closed, by one that died or
\* by one still under way, closes nothing by it, although the tasks it names, and so
\* the ambiguous ones among them, have become fewer.  Users who reopen what a claim
\* closed make it open again.
RerunsCloseNothing ==
    \A r \in Reconciler : at[r] = "saving" => \A t \in Task : <<Claim(r), t>> \notin run[r].seen

\* The next run starts after the marker; no claim at or before it may have been
\* passed over, by a run that failed or that overlapped with another one.
NoClaimSkipped == \A claim \in Claims : claim[1] <= marker => claim \in inspected

\* A commit that names one task, and nothing else, gets it closed in the end.
ClaimsLand ==
    \A claim \in Claims, t \in Task :
        Named(claim) = {t} =>
            (claim[1] <= head /\ board[t] \in Open) ~> board[t] \notin Open
================================================================================
