------------------------------- MODULE TaskBoard -------------------------------
(***************************************************************************)
(* manage_task of packages/code: the actions of handler.ts over the rows of *)
(* TaskManager and SQLiteTaskStore.  Several callers work on one database: *)
(* calls of one server between its awaits, and the processes of the CLI.   *)
(*                                                                         *)
(* An action of the tool reads first and decides on what it read.  It then *)
(* has a list of patches to apply, each of which reads the row again and   *)
(* stores all of it (patchTask).  Reads and stores are the steps here.     *)
(***************************************************************************)
EXTENDS Naturals, FiniteSets, Sequences, SequencesExt, TLC

CONSTANTS
    Process,
    Commands,    \* bound of the number of commands
    Task,        \* ids, some of them not yet used
    Label,
    Topic,       \* [Label -> ...]: labels of one topic score as the same task
    Key,         \* dedupeKeys
    Boards,      \* the boards to begin with
    Ops          \* among the actions on one task, below

None == "none"
Statuses == {"pending", "running", "completed", "failed"}
Notes == 0..Commands    \* a note has the number of the command that brought it, or 0

Row == [status : Statuses, parent : Task \cup {None}, label : Label, key : Key \cup {None},
        notes : SUBSET Notes, closed : BOOLEAN, obsolete : BOOLEAN, mergedInto : Task \cup {None}]

VARIABLES
    board,      \* the stored rows
    at,         \* where the command of a process is
    job,        \* what it knows
    left,       \* commands still to come
    fresh,      \* ids crypto.randomUUID() has not made yet
    given,      \* history: the notes a task was given, itself or through a merge
    contested,  \* history: tasks two commands have worked on at the same time
    crossed,    \* history: tasks that were to be moved while another merge was moving some
    doubtful    \* history: keys whose creations overlapped, or of a task that was opened again

vars == <<board, at, job, left, fresh, given, contested, crossed, doubtful>>

Operations == {"note", "run", "finish", "fail", "reopen", "close", "archive", "renew"}

ASSUME TasksAreFinite == IsFiniteSet(Task)
ASSUME NoneIsNothing == None \notin Task
ASSUME OpsAreKnown == Ops \subseteq Operations

NewRow(label, parent) ==
    [status |-> "pending", parent |-> parent, label |-> label, key |-> None, notes |-> {},
     closed |-> FALSE, obsolete |-> FALSE, mergedInto |-> None]

IsOpen(row) == row.status \in {"pending", "running"}
Archived(row) == row.status = "failed" /\ row.obsolete
Terminal(row) == row.status = "completed" \/ Archived(row)

NoJob == [op |-> "none", foot |-> {}, n |-> 0, writes |-> <<>>, batch |-> <<>>, task |-> None,
          target |-> None, label |-> None, parent |-> None, key |-> None, reread |-> FALSE,
          seen |-> <<>>, other |-> <<>>, row |-> <<>>, all |-> <<>>]

\* patchTask: status, label and the keys of metadata that are given.
Patched(row, patch) ==
    [f \in DOMAIN row |-> IF f \in DOMAIN patch THEN patch[f] ELSE row[f]]

\* save(): an upsert of the whole row.
Stored(t, row) == [u \in DOMAIN board \cup {t} |-> IF u = t THEN row ELSE board[u]]

Busy(p) == at[p] # "idle"

Init ==
    /\ board \in Boards /\ fresh = Task \ DOMAIN board
    /\ at = [p \in Process |-> "idle"] /\ job = [p \in Process |-> NoJob]
    /\ left = Commands
    /\ given = [t \in Task |-> IF t \in DOMAIN board THEN board[t].notes ELSE {}]
    /\ contested = {} /\ crossed = {} /\ doubtful = {}

\* Tasks some other command works on become contested.
Touch(p, ts) ==
    contested' = contested \cup
        {t \in ts : \E q \in Process \ {p} : Busy(q) /\ t \in job[q].foot}

Starts(p, j, next) ==
    /\ ~Busy(p) /\ left > 0 /\ left' = left - 1
    /\ Touch(p, j.foot)
    /\ job' = [job EXCEPT ![p] = [j EXCEPT !.n = Commands - left + 1]]
    /\ at' = [at EXCEPT ![p] = next]
    /\ UNCHANGED <<board, fresh, given, crossed>>

Learns(p, j, next) ==
    /\ job' = [job EXCEPT ![p] = j]
    /\ at' = [at EXCEPT ![p] = next]

Write(t, patch) == [task |-> t, patch |-> patch]
ArchivePatch == [status |-> "failed", obsolete |-> TRUE]
MergedPatch(target) == [status |-> "failed", obsolete |-> TRUE, mergedInto |-> target]

\* After its last write a command ends, or, in a batch of triage, goes on to the
\* next candidate: an archived one is patched at once, a merge reads the board again.
Goes(p, writes) ==
    LET j == job[p]
        next == Head(j.batch)
    IN  IF writes # <<>> THEN Learns(p, [j EXCEPT !.writes = writes], "writing")
        ELSE IF j.batch = <<>> THEN Learns(p, NoJob, "idle")
        ELSE IF next.target = None THEN
            Learns(p, [j EXCEPT !.op = "archive", !.batch = Tail(@), !.task = next.task,
                                !.writes = <<Write(next.task, ArchivePatch)>>], "writing")
        ELSE Learns(p, [j EXCEPT !.op = "merge", !.batch = Tail(@), !.task = next.task,
                                 !.target = next.target, !.writes = <<>>, !.reread = TRUE], "all")

--------------------------------------------------------------------------------
\* need(): the first read.  A task that is not there is an error.
Begin(p, op, t) ==
    /\ t \in DOMAIN board
    /\ Starts(p, [NoJob EXCEPT !.op = op, !.foot = {t}, !.task = t, !.seen = board[t]], "read")
    /\ UNCHANGED doubtful

\* Mutant: a transition out of a terminal status is not checked.
Allowed_Any(op, row) ==
    CASE op = "renew" -> IsOpen(row)
      [] op \in {"close", "archive"} -> row.status # "completed"
      [] OTHER -> TRUE

\* checkTransition() and what the actions refuse by themselves.
Allowed(op, row) ==
    CASE op \in {"note", "reopen"} -> TRUE
      [] op = "run" -> ~Terminal(row)
      [] op = "finish" -> ~Archived(row)
      [] op = "fail" -> row.status # "completed"
      [] op = "close" -> ~Terminal(row)
      [] op = "archive" -> row.status # "completed"
      [] op = "renew" -> IsOpen(row)

\* The patch is made of the row that was read first: notes are appended to those.
PatchOf(op, row, n) ==
    CASE op = "note" -> [notes |-> row.notes \cup {n}]
      [] op = "run" -> [status |-> "running"]
      [] op = "finish" -> IF row.status = "completed" THEN [status |-> "completed"]
                          ELSE [status |-> "completed", closed |-> TRUE]
      [] op = "fail" -> [status |-> "failed"]
      [] op = "reopen" -> IF Terminal(row) THEN [status |-> "pending", obsolete |-> FALSE]
                          ELSE [status |-> "pending"]
      [] op = "close" -> [status |-> "completed", closed |-> TRUE]
      [] op = "archive" -> ArchivePatch
      [] op = "renew" -> <<>>

\* update, close, archive, renew: decided on the row read first.
Decide(p) ==
    LET j == job[p] IN
    /\ at[p] = "read" /\ j.op \in Ops
    /\ Goes(p, IF Allowed(j.op, j.seen) THEN <<Write(j.task, PatchOf(j.op, j.seen, j.n))>> ELSE <<>>)
    /\ UNCHANGED <<board, left, fresh, given, contested, crossed, doubtful>>

--------------------------------------------------------------------------------
\* merge: reads the source, the target, then everything.
BeginMerge(p, s, t) ==
    /\ s # t /\ s \in DOMAIN board
    /\ Starts(p, [NoJob EXCEPT !.op = "merge", !.foot = {s, t}, !.task = s, !.target = t,
                               !.seen = board[s]], "target")
    /\ UNCHANGED doubtful

ReadTarget(p) ==
    /\ at[p] = "target"
    /\ IF job[p].target \in DOMAIN board
       THEN Learns(p, [job[p] EXCEPT !.other = board[job[p].target]], "all")
       ELSE Goes(p, <<>>)
    /\ UNCHANGED <<board, left, fresh, given, contested, crossed, doubtful>>

Children(all, s) == {c \in DOMAIN all : all[c].parent = s}

\* A merge that knows what it is to move, and is not done.
Merging(q) == job[q].op = "merge" /\ at[q] \in {"plan", "writing", "fetched"}

\* recoverState().  In a batch both rows come from it, and a candidate that is
\* gone or no longer open is left out.
ReadAll(p) ==
    LET j == job[p]
        children == Children(board, j.task)
        both == {j.task, j.target} \subseteq DOMAIN board
        known == [j EXCEPT !.all = board, !.foot = @ \cup children]
    IN  /\ at[p] = "all"
        /\ Touch(p, j.foot \cup children)
        /\ crossed' = crossed \cup IF \E q \in Process \ {p} : Merging(q) THEN children ELSE {}
        /\ IF ~j.reread THEN Learns(p, known, "plan")
           ELSE IF both /\ IsOpen(board[j.task]) /\ IsOpen(board[j.target])
           THEN Learns(p, [known EXCEPT !.seen = board[j.task], !.other = board[j.target]], "plan")
           ELSE Goes(p, <<>>)
        /\ UNCHANGED <<board, left, fresh, given, doubtful>>

\* The tasks above one in a board, up to a parent that is not there: those of every set
\* that has the task and, with a task, its parent.
Upward(all, S) == \A c \in S \cap DOMAIN all : all[c].parent \in S

Above(all, t) ==
    LET closed == {S \in SUBSET (Task \cup {None}) : t \in S /\ Upward(all, S)}
    IN {u \in (Task \cup {None}) \ {t} : \A S \in closed : u \in S}

\* The boards to begin with are such as manage_task leaves them: trees of tasks, with
\* one open task of a dedupeKey.
ASSUME BoardsAreTrees ==
    \A b \in Boards :
        /\ DOMAIN b \subseteq Task
        /\ \A t \in DOMAIN b :
               /\ b[t] \in Row /\ b[t].parent \in DOMAIN b \cup {None}
               /\ t \notin {b[t].parent} \cup Above(b, b[t].parent)
        /\ \A t, u \in DOMAIN b :
               t # u /\ IsOpen(b[t]) /\ IsOpen(b[u]) /\ b[t].key = b[u].key => b[t].key = None

\* Mutant: only a child of the source is refused as its target.
MergeAllowed_Child(j) == IsOpen(j.seen) /\ IsOpen(j.other) /\ j.other.parent # j.task

MergeAllowed(j) ==
    /\ IsOpen(j.seen) /\ IsOpen(j.other)
    /\ j.task \notin {j.other.parent} \cup Above(j.all, j.other.parent)

\* Mutant: the notes the target has give way to those of the source.
MergeWrites_Overwrite(j) ==
    <<Write(j.target, [notes |-> j.seen.notes])>>
    \o <<Write(j.task, MergedPatch(j.target))>>

\* Mutant: the children keep the source for a parent.
MergeWrites_NoReparent(j) ==
    <<Write(j.target, [notes |-> j.other.notes \cup j.seen.notes]),
      Write(j.task, MergedPatch(j.target))>>

\* planMerge(), applyMerge(): the target takes the notes, the children of the
\* source get the target for a parent, and the source is archived last.
MergeWrites(j) ==
    LET children == SetToSeq(Children(j.all, j.task) \ {j.target}) IN
    <<Write(j.target, [notes |-> j.other.notes \cup j.seen.notes])>>
    \o [i \in DOMAIN children |-> Write(children[i], [parent |-> j.target])]
    \o <<Write(j.task, MergedPatch(j.target))>>

Plan(p) ==
    LET j == job[p] IN
    /\ at[p] = "plan" /\ j.op = "merge"
    /\ Goes(p, IF MergeAllowed(j) THEN MergeWrites(j) ELSE <<>>)
    /\ UNCHANGED <<board, left, fresh, given, contested, crossed, doubtful>>

\* triage with apply: candidates are open tasks, each to be archived or to be
\* merged into one of its topic.  What makes a candidate (age, words, the size
\* of a group) is left open.
Candidate ==
    [task : {t \in DOMAIN board : IsOpen(board[t])}, target : Task \cup {None}]

BeginTriage(p) ==
    \E b \in Candidate, c \in Candidate :
        /\ b.task # c.task
        /\ \A x \in {b, c} : x.target # None =>
               /\ x.target \in DOMAIN board \ {x.task} /\ IsOpen(board[x.target])
               /\ Topic[board[x.target].label] = Topic[board[x.task].label]
        /\ Starts(p, [NoJob EXCEPT !.op = "triage", !.batch = <<b, c>>,
                                   !.foot = {b.task, b.target, c.task, c.target} \ {None}], "plan")
        /\ UNCHANGED doubtful

Triage(p) ==
    /\ at[p] = "plan" /\ job[p].op = "triage" /\ Goes(p, <<>>)
    /\ UNCHANGED <<board, left, fresh, given, contested, crossed, doubtful>>

--------------------------------------------------------------------------------
Alike(all, label) ==
    {t \in DOMAIN all : IsOpen(all[t]) /\ Topic[all[t].label] = Topic[label]}

\* create: reads everything first.
BeginCreate(p, label, parent, key) ==
    /\ Starts(p, [NoJob EXCEPT !.op = "create", !.foot = Alike(board, label) \cup ({parent} \ {None}),
                               !.label = label, !.parent = parent, !.key = key, !.all = board], "plan")
    /\ doubtful' = doubtful \cup {k \in {key} \ {None} :
           \E q \in Process : Busy(q) /\ job[q].op = "create" /\ job[q].key = k}

\* Mutant: a dedupeKey is looked for among the tasks with the same label only.
Existing_SameLabel(j) ==
    {t \in DOMAIN j.all : /\ IsOpen(j.all[t]) /\ j.all[t].label = j.label
                          /\ j.key # None => j.all[t].key = j.key}

\* The open task a create finds in its own place.
Existing(j) ==
    {t \in DOMAIN j.all : /\ IsOpen(j.all[t])
                          /\ IF j.key # None THEN j.all[t].key = j.key
                             ELSE j.all[t].label = j.label}

Hosts(j) == Alike(j.all, j.label) \ ({j.parent} \cup Above(j.all, j.parent))

\* Nothing is created beside an open task with the key, or the label; one on the
\* same topic gets the note, unless a key was given.
Create(p) ==
    LET j == job[p] IN
    /\ at[p] = "plan" /\ j.op = "create"
    /\ IF Existing(j) # {} THEN Goes(p, <<>>)
       ELSE IF j.key = None /\ Hosts(j) # {}
       THEN \E h \in Hosts(j) : Goes(p, <<Write(h, [notes |-> j.all[h].notes \cup {j.n}])>>)
       ELSE IF j.parent # None /\ j.parent \notin DOMAIN board THEN Goes(p, <<>>)
       ELSE Learns(p, j, "insert")
    /\ UNCHANGED <<board, left, fresh, given, contested, crossed, doubtful>>

\* The row is stored first, its key and note with the patch after it.
Insert(p) ==
    LET j == job[p]
        meta == IF j.key = None THEN [notes |-> {j.n}] ELSE [key |-> j.key]
    IN  /\ at[p] = "insert"
        /\ \E t \in fresh :
               /\ fresh' = fresh \ {t} /\ Touch(p, {t})
               /\ board' = Stored(t, NewRow(j.label, j.parent))
               /\ Learns(p, [j EXCEPT !.foot = @ \cup {t}, !.task = t,
                                      !.writes = <<Write(t, meta)>>], "writing")
        /\ UNCHANGED <<left, given, crossed, doubtful>>

--------------------------------------------------------------------------------
\* patchTask: the row is read again.  A task that is gone is an error, which ends a
\* command, or a merge of a batch; a child that is gone is left out.
Fetch(p) ==
    LET j == job[p]
        w == Head(j.writes)
    IN  /\ at[p] = "writing"
        /\ IF w.task \in DOMAIN board THEN Learns(p, [j EXCEPT !.row = board[w.task]], "fetched")
           ELSE IF "parent" \in DOMAIN w.patch THEN Goes(p, Tail(j.writes))
           ELSE IF j.op = "merge" THEN Goes(p, <<>>)
           ELSE Learns(p, NoJob, "idle")
        /\ UNCHANGED <<board, left, fresh, given, contested, crossed, doubtful>>

\* What a write adds to the notes a task is known to have been given.
Given(j, w) ==
    LET t == IF "mergedInto" \in DOMAIN w.patch THEN w.patch.mergedInto ELSE w.task
        n == IF "mergedInto" \in DOMAIN w.patch THEN given[w.task]
             ELSE IF "notes" \in DOMAIN w.patch /\ j.op # "merge" THEN {j.n} ELSE {}
    IN  [given EXCEPT ![t] = @ \cup IF w.task \in contested THEN {} ELSE n]

Save(p) ==
    LET j == job[p]
        w == Head(j.writes)
        row == Patched(j.row, w.patch)
    IN  /\ at[p] = "fetched"
        /\ board' = Stored(w.task, row)
        /\ given' = Given(j, w)
        /\ doubtful' = doubtful \cup IF IsOpen(row) /\ ~IsOpen(j.row) THEN {row.key} \ {None} ELSE {}
        /\ Goes(p, Tail(j.writes))
        /\ UNCHANGED <<left, fresh, contested, crossed>>

\* clear: confirmed by the number of tasks, backed up, then deleted.
BeginClear(p) ==
    /\ Starts(p, [NoJob EXCEPT !.op = "clear", !.foot = Task], "clearing")
    /\ UNCHANGED doubtful

Clear(p) ==
    /\ at[p] = "clearing"
    /\ board' = <<>> /\ given' = [t \in Task |-> {}]
    /\ Goes(p, <<>>)
    /\ UNCHANGED <<left, fresh, contested, crossed, doubtful>>

Crash(p) ==
    /\ Busy(p)
    /\ Learns(p, NoJob, "idle")
    /\ UNCHANGED <<board, left, fresh, given, contested, crossed, doubtful>>

Next ==
    \E p \in Process :
       \/ \E op \in Ops, t \in Task : Begin(p, op, t)
       \/ \E s, t \in Task : BeginMerge(p, s, t)
       \/ \E l \in Label, t \in DOMAIN board \cup {None}, k \in Key \cup {None} :
              BeginCreate(p, l, t, k)
       \/ BeginTriage(p) \/ BeginClear(p)
       \/ Decide(p) \/ ReadTarget(p) \/ ReadAll(p) \/ Plan(p) \/ Triage(p)
       \/ Create(p) \/ Insert(p) \/ Fetch(p) \/ Save(p) \/ Clear(p) \/ Crash(p)

Spec == Init /\ [][Next]_vars

--------------------------------------------------------------------------------
\* A note is never lost: a task has the notes it was given, and after a merge
\* those of its source, unless commands overlapped on it.
NoNoteLost ==
    \A t \in DOMAIN board \ contested : given[t] \subseteq board[t].notes

\* Parents never lead round in a circle, which would drop tasks out of the tree:
\* merges refuse a target below their source.  Two merges at the same time, of tasks
\* that have nothing to do with each other, can: each moves what the other stands on.
TreeStaysATree ==
    LET calm == [t \in DOMAIN board \ (contested \cup crossed) |-> board[t]]
    IN  \A t \in DOMAIN calm : t \notin Above(calm, calm[t].parent) \cup {calm[t].parent}

\* A dedupeKey has one open task: creations that do not overlap find the one that
\* is there, although a new row stands without its key for a while.  Nobody looks for
\* another when a task is opened again, be it reopened or a failed one that is run.
OneOpenPerKey ==
    \A t, u \in DOMAIN board \ contested :
        /\ t # u /\ IsOpen(board[t]) /\ IsOpen(board[u])
        /\ board[t].key = board[u].key
        => board[t].key \in {None} \cup doubtful

\* Completed and archived are terminal: an update that leaves them is a reopening;
\* and a merge leaves no child with the source it archives.
CommandsKeepTheBoard ==
    [][\A t \in (DOMAIN board \cap DOMAIN board') \ contested :
          /\ Terminal(board[t]) /\ board'[t].status # board[t].status =>
                \E p \in Process : Busy(p) /\ job[p].op = "reopen" /\ job[p].task = t
          /\ board[t].mergedInto = None /\ board'[t].mergedInto # None =>
                Children(board', t) \ contested = {}]_vars
================================================================================
