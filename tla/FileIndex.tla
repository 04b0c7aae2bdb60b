------------ MODULE FileIndex ------------------------------------------------
(***************************************************************************)
(* How the code package knows which files changed: from events, and from   *)
(* git.                                                                    *)
(***************************************************************************)
EXTENDS Naturals

(***************************************************************************)
(* FileWatcher of packages/code/src/indexer: events of fs.watch, put       *)
(* together until none has come for debounceMs.  The file system may leave *)
(* events in its own queue when the watch is closed; an ignored path is    *)
(* one that counts for nothing, and so is an event that has no name.       *)
(* Whoever listens may stop the watcher.                                   *)
(***************************************************************************)
CONSTANTS
    Name,
    NoName,         \* of an event that does not say which file it is about
    Ignored,        \* the names that match ignorePatterns
    Debounce,       \* debounceMs
    Events          \* bound of the events

VARIABLES
    watching,       \* and the FSWatcher, which is there as long
    reports,        \* whether the FSWatcher still does
    pendingChanges,
    debounceTimer,  \* how long until it fires; 0 when there is none
    told,           \* the names of the last 'change'
    events,
    owed            \* history: events since the watch began that no 'change' has told

watchVars == <<watching, reports, pendingChanges, debounceTimer, told, events, owed>>

WatchInit ==
    /\ watching = FALSE /\ reports = FALSE /\ pendingChanges = {} /\ debounceTimer = 0
    /\ told = {} /\ events = 0 /\ owed = {}

StartWatching ==
    /\ ~ watching /\ watching' = TRUE /\ reports' = TRUE
    /\ UNCHANGED <<pendingChanges, debounceTimer, told, events, owed>>

Stop ==
    /\ watching' = FALSE /\ reports' = FALSE /\ debounceTimer' = 0 /\ pendingChanges' = {} /\ owed' = {}
    /\ UNCHANGED <<told, events>>

\* The timer that is there is left, and one that has fired is not set again.
scheduleFlush_Once == debounceTimer' = IF told = {} THEN Debounce ELSE debounceTimer

scheduleFlush == debounceTimer' = Debounce

handleChange(n) ==
    /\ reports /\ events < Events /\ events' = events + 1
    /\ IF n \in Ignored \cup {NoName} THEN UNCHANGED <<pendingChanges, debounceTimer, owed>>
       ELSE /\ pendingChanges' = pendingChanges \cup {n}
            /\ owed' = owed \cup {n}
            /\ scheduleFlush
    /\ UNCHANGED <<watching, reports, told>>

\* The error is told, and that is all: start() finds a watch that is there.
WatchFails ==
    /\ reports /\ reports' = FALSE
    /\ UNCHANGED <<watching, pendingChanges, debounceTimer, told, events, owed>>

Pass ==
    /\ debounceTimer > 1 /\ debounceTimer' = debounceTimer - 1
    /\ UNCHANGED <<watching, reports, pendingChanges, told, events, owed>>

Flush ==
    /\ debounceTimer = 1
    /\ IF pendingChanges = {} THEN UNCHANGED <<pendingChanges, told, owed>>
       ELSE /\ told' = pendingChanges /\ owed' = owed \ pendingChanges
            /\ pendingChanges' = {}
    /\ debounceTimer' = 0
    /\ UNCHANGED <<watching, reports, events>>

WatchNext ==
    \/ StartWatching \/ Stop \/ WatchFails \/ Pass \/ Flush
    \/ \E n \in Name \cup {NoName} : handleChange(n)

WatchSpec == WatchInit /\ [][WatchNext]_watchVars

--------------------------------------------------------------------------------

(* A change that was reported is told, or is pending with a timer that will     *)
(* tell it, also when the watch has failed since; a timer that runs without a   *)
(* watch would tell of nothing (scheduleFlush, flush, stop).                    *)
NoChangeForgotten ==
    /\ owed = pendingChanges
    /\ (pendingChanges # {}) <=> (debounceTimer > 0)

-----------------------------------------------------------------------------
(***************************************************************************)
(* index_codebase of packages/code: the incremental plan of GitAwareIndexer*)
(* over GitTracker, FileIndex and Crawler, carried out by handler.ts.      *)
(*                                                                         *)
(* A file is told by its content, and a commit by the contents it holds:   *)
(* git is external.  A rename is told here as the removal of one path and  *)
(* the addition of another, which is what a plan makes of it.  In a        *)
(* directory below the root of the repository a name that a diff has is    *)
(* that of another file than here, and a name that git quotes is of none.  *)
(* The user edits, stages and commits between the steps of a run; a run looks at    *)
(* git in one go.  Two files are written at the end of it, one after the   *)
(* other, and the process may die before either.                           *)
(***************************************************************************)
CONSTANTS
    Path,
    Content,
    NoFile,
    Edits           \* bound of what the user does

VARIABLES
    git,            \* whether there is a repository
    rooted,         \* whether projectRoot is where it begins
    quoted,         \* the paths that git writes with quotes
    head, staged, work,     \* path -> content: of HEAD, of git's index and of the directory
    fileIndex,      \* file-index.json: path -> hash
    state,          \* index-state.json: the tree of lastIndexedCommit, if any
    at,
    run,            \* of the run: mode, includeUncommitted, files crawled, index in memory
    edits,
    began, quiet    \* history: paths that were in step when the run began; nothing moved since

place == <<git, rooted, quoted>>
vars == <<place, head, staged, work, fileIndex, state, at, run, edits, began, quiet>>

Nothing == [p \in Path |-> NoFile]
NoCommit == [p \in {} |-> NoFile]
NoRun == [full |-> FALSE, uncommitted |-> TRUE, crawled |-> Nothing, index |-> Nothing, odd |-> {}]

Init ==
    /\ git \in BOOLEAN /\ rooted \in BOOLEAN /\ quoted \in SUBSET Path
    /\ ~ git => rooted
    /\ ~ git \/ ~ rooted => quoted = {}
    /\ head \in [Path -> Content \cup {NoFile}] /\ staged = head /\ work = head
    /\ fileIndex = Nothing /\ state = NoCommit
    /\ at = "rest" /\ run = NoRun
    /\ edits = 0 /\ began = {} /\ quiet = TRUE

--------------------------------------------------------------------------------

\* `git diff --name-status` of two trees.
Diff(a, b) ==
    [added    |-> {p \in Path : a[p] = NoFile /\ b[p] # NoFile},
     modified |-> {p \in Path : NoFile \notin {a[p], b[p]} /\ a[p] # b[p]},
     deleted  |-> {p \in Path : a[p] # NoFile /\ b[p] = NoFile}]

Empty == [added |-> {}, modified |-> {}, deleted |-> {}]

\* What git may answer besides: nothing, and in a directory below the root of the
\* repository anything, since the names of a diff are those of other files.
NoAnswer == NoFile
Elsewhere == IF rooted THEN {Empty}
             ELSE [added : SUBSET Path, modified : SUBSET Path, deleted : SUBSET Path]

Told(diff, elsewhere) ==
    IF elsewhere = NoAnswer THEN Empty
    ELSE IF rooted THEN [kind \in DOMAIN diff |-> diff[kind] \ quoted]
    ELSE elsewhere

\* getDiff(): an error of git is logged, and nothing has changed.
getDiff(a, b, elsewhere) == Told(Diff(a, b), elsewhere)

\* Of what is staged, of what is not, and of what git does not know: the last is listed
\* by its name in this directory.
getWorkingTreeChanges(elsewhere) ==
    LET s == Diff(head, staged)
        u == Diff([p \in Path |-> staged[p]], [p \in Path |-> IF staged[p] = NoFile THEN NoFile ELSE work[p]])
        d == Told([kind \in DOMAIN s |-> s[kind] \cup u[kind]], elsewhere)
        untracked == {p \in Path \ quoted : staged[p] = NoFile /\ work[p] # NoFile}
    IN  IF elsewhere = NoAnswer THEN Empty ELSE [d EXCEPT !.added = @ \cup untracked]

\* What is removed from the directory only is not told.
mergeGitDiffs_Keeps(t, s) ==
    LET added == t.added \cup (s.added \ t.modified)
    IN  [added |-> added, modified |-> t.modified \cup (s.modified \ added), deleted |-> t.deleted]

mergeGitDiffs(t, s) ==
    LET added == t.added \cup (s.added \ t.modified)
    IN  [added |-> added, modified |-> t.modified \cup (s.modified \ added),
         deleted |-> t.deleted \cup s.deleted]

InStep(p) == state # NoCommit /\ fileIndex[p] = state[p]

\* initialize(), and in full mode a state that knows of no commit is saved first.
Start(full, uncommitted) ==
    /\ at \in {"rest", "done"}
    /\ began' = {p \in Path : ~ git \/ (~ full /\ InStep(p) /\ rooted /\ p \notin quoted)}
    /\ state' = IF full THEN NoCommit ELSE state
    /\ run' = [NoRun EXCEPT !.full = full, !.uncommitted = uncommitted, !.index = fileIndex]
    /\ at' = "crawl" /\ quiet' = TRUE
    /\ UNCHANGED <<place, head, staged, work, fileIndex, edits>>

Crawl ==
    /\ at = "crawl"
    /\ run' = [run EXCEPT !.crawled = work] /\ at' = "plan"
    /\ UNCHANGED <<place, head, staged, work, fileIndex, state, edits, began, quiet>>

Files == {p \in Path : run.crawled[p] # NoFile}

planIncrementalIndex(past, present) ==
    LET diff == getDiff(state, head, past)
        d    == IF ~ run.uncommitted THEN diff
                ELSE mergeGitDiffs(diff, getWorkingTreeChanges(present))
    IN  [index  |-> ((d.added \cup d.modified) \cap Files) \cup {p \in Files : run.index[p] = NoFile},
         remove |-> d.deleted]

planWithoutGit ==
    [index |-> {p \in Files : run.index[p] # run.crawled[p]},
     remove |-> {p \in Path : run.index[p] # NoFile} \ Files]

createFullIndexPlan == [index |-> Files, remove |-> {}]

\* The entries are written, and then removed: what is in both sets is gone.
Carry(plan) ==
    [p \in Path |-> IF p \in plan.remove THEN NoFile
                    ELSE IF p \in plan.index THEN run.crawled[p] ELSE run.index[p]]

PlanFrom(past, present) ==
    /\ LET plan == IF ~ git THEN planWithoutGit
                   ELSE IF state = NoCommit THEN createFullIndexPlan
                   ELSE planIncrementalIndex(past, present)
       IN  run' = [run EXCEPT !.index = Carry(plan), !.odd = plan.index \cap plan.remove]
    /\ quiet' = (quiet /\ NoAnswer \notin {past, present})
    /\ at' = "save"
    /\ UNCHANGED <<place, head, staged, work, fileIndex, state, edits, began>>

Plan ==
    /\ at = "plan"
    /\ \E past, present \in Elsewhere \cup {NoAnswer} : PlanFrom(past, present)

saveFileIndex ==
    /\ at = "save"
    /\ fileIndex' = run.index /\ at' = "record"
    /\ UNCHANGED <<place, head, staged, work, state, run, edits, began, quiet>>

getHeadCommit == IF git THEN head ELSE NoCommit

\* HEAD is asked for once more, and may have moved on.
recordIndexSuccess ==
    /\ at = "record"
    /\ state' = getHeadCommit
    /\ at' = "done"
    /\ UNCHANGED <<place, head, staged, work, fileIndex, run, edits, began, quiet>>

Crash ==
    /\ at \in {"crawl", "plan", "save", "record"}
    /\ at' = "rest" /\ run' = NoRun
    /\ UNCHANGED <<place, head, staged, work, fileIndex, state, edits, began, quiet>>

--------------------------------------------------------------------------------

User ==
    /\ edits < Edits /\ edits' = edits + 1
    /\ quiet' = FALSE
    /\ UNCHANGED <<place, fileIndex, state, at, run, began>>

Store(p, c) ==
    /\ work[p] # c /\ work' = [work EXCEPT ![p] = c]
    /\ User /\ UNCHANGED <<head, staged>>

\* git add, and git rm --cached, which leaves the file where it is.
Stage(p, c) ==
    /\ git /\ staged[p] # c /\ c \in {work[p], NoFile}
    /\ staged' = [staged EXCEPT ![p] = c]
    /\ User /\ UNCHANGED <<head, work>>

Commit ==
    /\ git /\ staged # head /\ head' = staged
    /\ User /\ UNCHANGED <<staged, work>>

\* Another commit is checked out over a clean directory.
Checkout(t) ==
    /\ git /\ head = staged /\ work = head /\ t # head
    /\ head' = t /\ staged' = t /\ work' = t
    /\ User

Next ==
    \/ \E full, uncommitted \in BOOLEAN : Start(full, uncommitted)
    \/ Crawl \/ Plan \/ saveFileIndex \/ recordIndexSuccess \/ Crash
    \/ \E p \in Path, c \in Content \cup {NoFile} : Store(p, c) \/ Stage(p, c)
    \/ Commit
    \/ \E t \in [Path -> Content \cup {NoFile}] : Checkout(t)

Spec == Init /\ [][Next]_vars

--------------------------------------------------------------------------------

(* A run nothing disturbs that begins with an entry as the last commit had it   *)
(* ends with the entry as the directory has it, if the run takes in what is not *)
(* committed or there is nothing of it; where the repository begins, and of     *)
(* names that git does not quote.  Whatever its name and whatever the entries   *)
(* were, a file that is there has an entry, where the repository begins or there *)
(* is none.  Entries that are to be both written and removed are lost           *)
(* (planIncrementalIndex and handler.ts l.884-900).                             *)
IndexFollowsTree ==
    at = "done" /\ quiet => \A p \in Path \ run.odd :
        run.uncommitted \/ work[p] = head[p] =>
            /\ p \in began => fileIndex[p] = work[p]
            /\ rooted /\ work[p] # NoFile => fileIndex[p] # NoFile
===============================================================================
