---------------------------- MODULE WorkspaceProofs ----------------------------
(***************************************************************************)
(* Theorems about the components that MCWorkspace puts side by side, each  *)
(* by itself and for any values of its constants.                          *)
(***************************************************************************)
EXTENDS MCWorkspace, TaskBoardProofs, FiniteSetTheorems, WellFoundedInduction, SequenceTheorems, TLAPS

-----------------------------------------------------------------------------
(***************************************************************************)
(* FileWatcher: what is pending has a timer, and is all that is owed.      *)
(***************************************************************************)
WatchInv ==
    /\ debounceTimer \in Nat
    /\ owed = pendingChanges
    /\ (pendingChanges # {}) <=> (debounceTimer > 0)

(* A change that fs.watch reported is told or is pending with a timer, however    *)
(* often the watch is stopped and started and wherever it fails (scheduleFlush,   *)
(* flush, stop, the 'error' of the FSWatcher); of every debounceMs not zero.      *)
THEOREM ChangesAreNotForgotten ==
    ASSUME Debounce \in Nat \ {0} PROVE Indexer!WatchSpec => []Indexer!NoChangeForgotten
<1>1. Indexer!WatchInit => WatchInv
  BY DEF Indexer!WatchInit, WatchInv
<1>2. ASSUME WatchInv, [Indexer!WatchNext]_Indexer!watchVars PROVE WatchInv'
  <2> USE <1>2 DEF WatchInv
  <2>1. CASE Indexer!StartWatching
    BY <2>1 DEF Indexer!StartWatching
  <2>2. CASE Indexer!Stop
    BY <2>2 DEF Indexer!Stop
  <2>3. ASSUME NEW n \in Name \cup {NoName}, Indexer!handleChange(n) PROVE WatchInv'
    BY <2>3 DEF Indexer!handleChange, Indexer!scheduleFlush
  <2>4. CASE Indexer!Pass
    BY <2>4 DEF Indexer!Pass
  <2>5. CASE Indexer!Flush
    BY <2>5 DEF Indexer!Flush
  <2>6. CASE Indexer!WatchFails
    BY <2>6 DEF Indexer!WatchFails
  <2>7. CASE UNCHANGED Indexer!watchVars
    BY <2>7 DEF Indexer!watchVars
  <2> QED BY <2>1, <2>2, <2>3, <2>4, <2>5, <2>6, <2>7 DEF Indexer!WatchNext
<1>3. WatchInv => Indexer!NoChangeForgotten
  BY DEF WatchInv, Indexer!NoChangeForgotten
<1> QED BY <1>1, <1>2, <1>3, PTL DEF Indexer!WatchSpec

-----------------------------------------------------------------------------
(***************************************************************************)
(* GitAwareIndexer.  IndexFollowsTree is of a run that is done; FollowInv  *)
(* says what each step of it has established: what began in step is still  *)
(* as the last commit had it when the plan is made, the files that were    *)
(* crawled are those of the directory, and the index in memory, and then   *)
(* on the disk, is as the directory is.  That a file has an entry at all   *)
(* asks for nothing of the beginning: what the index lacks is planned, and *)
(* only a name of another file could have it removed.                      *)
(***************************************************************************)
Trees == [Path -> Body \cup {NoFile}]
IndexRun == [full : BOOLEAN, uncommitted : BOOLEAN, crawled : Trees, index : Trees, odd : SUBSET Path]

IndexTypes ==
    /\ git \in BOOLEAN /\ rooted \in BOOLEAN /\ (~ git => rooted)
    /\ work \in Trees /\ fileIndex \in Trees
    /\ indexing \in IndexRun
    /\ began \subseteq Path

Follows(index) ==
    \A p \in Path \ indexing.odd :
        indexing.uncommitted \/ work[p] = head[p] =>
            /\ p \in began => index[p] = work[p]
            /\ rooted /\ work[p] # NoFile => index[p] # NoFile

FollowInv ==
    /\ IndexTypes
    /\ step \in {"crawl", "plan"} =>
           /\ indexing.index = fileIndex
           /\ \A p \in began : git => /\ state # Indexer!NoCommit /\ fileIndex[p] = state[p]
                                      /\ rooted /\ p \notin quoted
    /\ step = "plan" /\ quiet => indexing.crawled = work
    /\ step = "save" /\ quiet => Follows(indexing.index)
    /\ step \in {"record", "done"} /\ quiet => Follows(fileIndex)

LEMMA FollowInitially == Indexer!Init => FollowInv
<1> SUFFICES ASSUME Indexer!Init PROVE FollowInv
  OBVIOUS
<1>1. Indexer!Nothing \in Trees
  BY DEF Indexer!Nothing, Trees
<1>2. Indexer!NoRun \in IndexRun
  BY <1>1 DEF Indexer!NoRun, IndexRun
<1> QED BY <1>1, <1>2 DEF Indexer!Init, FollowInv, IndexTypes, Trees

LEMMA StartFollows ==
    ASSUME FollowInv, NEW full \in BOOLEAN, NEW uncommitted \in BOOLEAN, Indexer!Start(full, uncommitted)
    PROVE  FollowInv'
<1>1. indexing' = [full |-> full, uncommitted |-> uncommitted, crawled |-> Indexer!Nothing,
                   index |-> fileIndex, odd |-> {}]
  BY DEF Indexer!Start, Indexer!NoRun
<1>2. indexing' \in IndexRun
  BY <1>1 DEF IndexRun, Indexer!Nothing, Trees, FollowInv, IndexTypes
<1>3. IndexTypes'
  BY <1>2 DEF FollowInv, IndexTypes, Indexer!Start, Indexer!place
<1> QED BY <1>1, <1>3 DEF FollowInv, Indexer!Start, Indexer!InStep, Indexer!place

LEMMA CrawlFollows == ASSUME FollowInv, Indexer!Crawl PROVE FollowInv'
<1>1. PICK r \in IndexRun : r = indexing
  BY DEF FollowInv, IndexTypes
<1>2. indexing' = [r EXCEPT !.crawled = work]
  BY <1>1 DEF Indexer!Crawl
<1>3. indexing' \in IndexRun /\ indexing'.crawled = work /\ indexing'.index = r.index
  BY <1>2 DEF IndexRun, FollowInv, IndexTypes
<1> QED BY <1>1, <1>3 DEF FollowInv, IndexTypes, Indexer!Crawl, Indexer!place

\* What git tells of one path where the repository begins.
LEMMA ToldOfOne ==
    ASSUME rooted, NEW p \in Path, NEW past \in Indexer!Elsewhere, past # Indexer!NoAnswer,
           NEW present \in Indexer!Elsewhere, present # Indexer!NoAnswer
    PROVE  LET diff == Indexer!getDiff(state, head, past)
               wtc  == Indexer!getWorkingTreeChanges(present)
           IN  /\ p \in diff.added <=> p \notin quoted /\ state[p] = NoFile /\ head[p] # NoFile
               /\ p \in diff.modified <=>
                      p \notin quoted /\ state[p] # NoFile /\ head[p] # NoFile /\ state[p] # head[p]
               /\ p \in diff.deleted <=> p \notin quoted /\ state[p] # NoFile /\ head[p] = NoFile
               /\ p \in wtc.added <=> p \notin quoted
                      /\ \/ head[p] = NoFile /\ staged[p] # NoFile
                         \/ staged[p] = NoFile /\ work[p] # NoFile
               /\ p \in wtc.modified <=> p \notin quoted
                      /\ \/ head[p] # NoFile /\ staged[p] # NoFile /\ head[p] # staged[p]
                         \/ staged[p] # NoFile /\ work[p] # NoFile /\ staged[p] # work[p]
               /\ p \in wtc.deleted <=> p \notin quoted
                      /\ \/ head[p] # NoFile /\ staged[p] = NoFile
                         \/ staged[p] # NoFile /\ work[p] = NoFile
<1> DEFINE known == [q \in Path |-> staged[q]]
           there == [q \in Path |-> IF staged[q] = NoFile THEN NoFile ELSE work[q]]
           o == Indexer!Diff(state, head)
           s == Indexer!Diff(head, staged)
           u == Indexer!Diff(known, there)
           diff == Indexer!getDiff(state, head, past)
           wtc == Indexer!getWorkingTreeChanges(present)
<1>1. diff = [added |-> o.added \ quoted, modified |-> o.modified \ quoted, deleted |-> o.deleted \ quoted]
  <2>1. diff = [kind \in DOMAIN o |-> o[kind] \ quoted]
    BY DEF Indexer!getDiff, Indexer!Told
  <2>2. DOMAIN o = {"added", "modified", "deleted"}
    BY DEF Indexer!Diff
  <2> HIDE DEF o, diff
  <2> QED BY <2>1, <2>2
<1>2. /\ p \in o.added <=> state[p] = NoFile /\ head[p] # NoFile
      /\ p \in o.modified <=> state[p] # NoFile /\ head[p] # NoFile /\ state[p] # head[p]
      /\ p \in o.deleted <=> state[p] # NoFile /\ head[p] = NoFile
  BY DEF Indexer!Diff
<1>3. /\ p \in s.added <=> head[p] = NoFile /\ staged[p] # NoFile
      /\ p \in s.modified <=> head[p] # NoFile /\ staged[p] # NoFile /\ head[p] # staged[p]
      /\ p \in s.deleted <=> head[p] # NoFile /\ staged[p] = NoFile
  BY DEF Indexer!Diff
<1>4. known[p] = staged[p] /\ there[p] = IF staged[p] = NoFile THEN NoFile ELSE work[p]
  OBVIOUS
<1>5. /\ p \in u.added <=> known[p] = NoFile /\ there[p] # NoFile
      /\ p \in u.modified <=> known[p] # NoFile /\ there[p] # NoFile /\ known[p] # there[p]
      /\ p \in u.deleted <=> known[p] # NoFile /\ there[p] = NoFile
  <2> HIDE DEF known, there
  <2> QED BY DEF Indexer!Diff
<1>6. wtc = [added |-> ((s.added \cup u.added) \ quoted) \cup {q \in Path \ quoted : staged[q] = NoFile /\ work[q] # NoFile},
             modified |-> (s.modified \cup u.modified) \ quoted, deleted |-> (s.deleted \cup u.deleted) \ quoted]
  <2> DEFINE both == [kind \in DOMAIN s |-> s[kind] \cup u[kind]]
             d == Indexer!Told(both, present)
             untracked == {q \in Path \ quoted : staged[q] = NoFile /\ work[q] # NoFile}
  <2>1. wtc = [d EXCEPT !.added = d.added \cup untracked]
    BY DEF Indexer!getWorkingTreeChanges
  <2>2. d = [kind \in DOMAIN both |-> both[kind] \ quoted]
    BY DEF Indexer!Told
  <2>3. DOMAIN s = {"added", "modified", "deleted"}
    BY DEF Indexer!Diff
  <2> HIDE DEF s, u, d, wtc, untracked
  <2>4. /\ DOMAIN both = {"added", "modified", "deleted"}
        /\ both.added = s.added \cup u.added /\ both.modified = s.modified \cup u.modified
        /\ both.deleted = s.deleted \cup u.deleted
    BY <2>3
  <2> HIDE DEF both
  <2>5. d = [added |-> both.added \ quoted, modified |-> both.modified \ quoted, deleted |-> both.deleted \ quoted]
    BY <2>2, <2>4
  <2> QED BY <2>1, <2>4, <2>5 DEF untracked
<1> HIDE DEF o, s, u, diff, wtc, known, there
<1>7. /\ p \in diff.added <=> p \in o.added /\ p \notin quoted
      /\ p \in diff.modified <=> p \in o.modified /\ p \notin quoted
      /\ p \in diff.deleted <=> p \in o.deleted /\ p \notin quoted
  BY <1>1
<1>8. /\ p \in wtc.added <=>
             p \notin quoted /\ (p \in s.added \/ p \in u.added \/ (staged[p] = NoFile /\ work[p] # NoFile))
      /\ p \in wtc.modified <=> p \notin quoted /\ (p \in s.modified \/ p \in u.modified)
      /\ p \in wtc.deleted <=> p \notin quoted /\ (p \in s.deleted \/ p \in u.deleted)
  BY <1>6
<1>9. /\ p \in wtc.added <=> p \notin quoted
                /\ \/ head[p] = NoFile /\ staged[p] # NoFile
                   \/ staged[p] = NoFile /\ work[p] # NoFile
      /\ p \in wtc.modified <=> p \notin quoted
                /\ \/ head[p] # NoFile /\ staged[p] # NoFile /\ head[p] # staged[p]
                   \/ staged[p] # NoFile /\ work[p] # NoFile /\ staged[p] # work[p]
      /\ p \in wtc.deleted <=> p \notin quoted
                /\ \/ head[p] # NoFile /\ staged[p] = NoFile
                   \/ staged[p] # NoFile /\ work[p] = NoFile
  BY <1>3, <1>4, <1>5, <1>8
<1> QED BY <1>2, <1>7, <1>9 DEF diff, wtc

\* What is planned for a path where the repository begins, from what git tells of it: an
\* entry if there is a file, and for what was in step with the last commit the right one.
LEMMA PlanFollows ==
    ASSUME FollowInv, step = "plan", quiet, git, state # Indexer!NoCommit, rooted,
           NEW past \in Indexer!Elsewhere, past # Indexer!NoAnswer,
           NEW present \in Indexer!Elsewhere, present # Indexer!NoAnswer,
           NEW p \in Path,
           p \notin Indexer!planIncrementalIndex(past, present).index
                        \cap Indexer!planIncrementalIndex(past, present).remove,
           indexing.uncommitted \/ work[p] = head[p]
    PROVE  LET index == Indexer!Carry(Indexer!planIncrementalIndex(past, present))
           IN  /\ p \in began => index[p] = work[p]
               /\ work[p] # NoFile => index[p] # NoFile
<1> DEFINE diff == Indexer!getDiff(state, head, past)
           wtc == Indexer!getWorkingTreeChanges(present)
           plan == Indexer!planIncrementalIndex(past, present)
<1>1. /\ indexing.crawled = work /\ indexing.index = fileIndex
      /\ p \in began => fileIndex[p] = state[p] /\ p \notin quoted
      /\ p \in Indexer!Files <=> work[p] # NoFile
  BY DEF FollowInv, IndexTypes, Indexer!Files
<1>2. /\ p \in diff.added <=> p \notin quoted /\ state[p] = NoFile /\ head[p] # NoFile
      /\ p \in diff.modified <=>
             p \notin quoted /\ state[p] # NoFile /\ head[p] # NoFile /\ state[p] # head[p]
      /\ p \in diff.deleted <=> p \notin quoted /\ state[p] # NoFile /\ head[p] = NoFile
  BY ToldOfOne
<1>3. /\ p \in wtc.added <=> p \notin quoted
                /\ \/ head[p] = NoFile /\ staged[p] # NoFile
                   \/ staged[p] = NoFile /\ work[p] # NoFile
      /\ p \in wtc.modified <=> p \notin quoted
                /\ \/ head[p] # NoFile /\ staged[p] # NoFile /\ head[p] # staged[p]
                   \/ staged[p] # NoFile /\ work[p] # NoFile /\ staged[p] # work[p]
      /\ p \in wtc.deleted <=> p \notin quoted
                /\ \/ head[p] # NoFile /\ staged[p] = NoFile
                   \/ staged[p] # NoFile /\ work[p] = NoFile
  BY ToldOfOne
<1>4. Indexer!Carry(plan)[p] = IF p \in plan.remove THEN NoFile
                               ELSE IF p \in plan.index THEN work[p] ELSE fileIndex[p]
  <2> HIDE DEF plan
  <2> QED BY <1>1 DEF Indexer!Carry
<1>5. CASE indexing.uncommitted
  <2> DEFINE d == Indexer!mergeGitDiffs(diff, wtc)
  <2>1. /\ p \in d.added <=> p \in diff.added \/ (p \in wtc.added /\ p \notin diff.modified)
        /\ p \in d.modified <=> p \in diff.modified \/ (p \in wtc.modified /\ p \notin d.added)
        /\ p \in d.deleted <=> p \in diff.deleted \/ p \in wtc.deleted
    <3> HIDE DEF diff, wtc
    <3> QED BY DEF Indexer!mergeGitDiffs
  <2>2. /\ p \in plan.index <=> ((p \in d.added \/ p \in d.modified) /\ p \in Indexer!Files)
               \/ (p \in Indexer!Files /\ indexing.index[p] = NoFile)
        /\ p \in plan.remove <=> p \in d.deleted
    <3>1. plan = [index |-> ((d.added \cup d.modified) \cap Indexer!Files)
                               \cup {q \in Indexer!Files : indexing.index[q] = NoFile},
                  remove |-> d.deleted]
      BY <1>5 DEF Indexer!planIncrementalIndex
    <3> HIDE DEF plan, d
    <3> QED BY <3>1
  <2>3. p \notin plan.index \/ p \notin plan.remove
    BY DEF plan
  <2> HIDE DEF plan, d, diff, wtc
  <2> QED
    BY <1>1, <1>2, <1>3, <1>4, <2>1, <2>2, <2>3 DEF plan
<1>6. CASE ~ indexing.uncommitted
  <2>1. /\ p \in plan.index <=> ((p \in diff.added \/ p \in diff.modified) /\ p \in Indexer!Files)
               \/ (p \in Indexer!Files /\ indexing.index[p] = NoFile)
        /\ p \in plan.remove <=> p \in diff.deleted
    <3>1. plan = [index |-> ((diff.added \cup diff.modified) \cap Indexer!Files)
                               \cup {q \in Indexer!Files : indexing.index[q] = NoFile},
                  remove |-> diff.deleted]
      BY <1>6 DEF Indexer!planIncrementalIndex
    <3> HIDE DEF plan, diff
    <3> QED BY <3>1
  <2> HIDE DEF plan, diff, wtc
  <2> QED
    BY <1>1, <1>2, <1>4, <1>6, <2>1 DEF plan
<1> QED BY <1>5, <1>6

LEMMA PlanKeeps == ASSUME FollowInv, Indexer!Plan PROVE FollowInv'
<1> PICK past \in Indexer!Elsewhere \cup {Indexer!NoAnswer}, present \in Indexer!Elsewhere \cup {Indexer!NoAnswer} :
        Indexer!PlanFrom(past, present)
  BY DEF Indexer!Plan
<1> step = "plan"
  BY DEF Indexer!Plan
<1> DEFINE plan == IF ~ git THEN Indexer!planWithoutGit
                   ELSE IF state = Indexer!NoCommit THEN Indexer!createFullIndexPlan
                   ELSE Indexer!planIncrementalIndex(past, present)
<1>1. PICK r \in IndexRun : r = indexing
  BY DEF FollowInv, IndexTypes
<1>2. indexing' = [r EXCEPT !.index = Indexer!Carry(plan), !.odd = plan.index \cap plan.remove]
  BY <1>1 DEF Indexer!PlanFrom
<1>3. Indexer!Carry(plan) \in Trees
  BY <1>1 DEF Indexer!Carry, Trees, IndexRun
<1>4. plan.index \subseteq Path
  BY DEF Indexer!planWithoutGit, Indexer!createFullIndexPlan, Indexer!planIncrementalIndex, Indexer!Files
<1> HIDE DEF plan
<1>5. /\ indexing' \in IndexRun
      /\ indexing'.index = Indexer!Carry(plan) /\ indexing'.odd = plan.index \cap plan.remove
      /\ indexing'.uncommitted = indexing.uncommitted
  BY <1>1, <1>2, <1>3, <1>4 DEF IndexRun
<1>6. /\ step' = "save" /\ work' = work /\ head' = head /\ began' = began
      /\ git' = git /\ rooted' = rooted /\ fileIndex' = fileIndex
  BY DEF Indexer!PlanFrom, Indexer!place
<1>7. IndexTypes'
  BY <1>5, <1>6 DEF FollowInv, IndexTypes
<1>8. ASSUME quiet', NEW p \in Path, p \notin plan.index \cap plan.remove,
             indexing.uncommitted \/ work[p] = head[p]
      PROVE  /\ p \in began => Indexer!Carry(plan)[p] = work[p]
             /\ rooted /\ work[p] # NoFile => Indexer!Carry(plan)[p] # NoFile
  <2>1. /\ step = "plan" /\ quiet /\ indexing.crawled = work /\ indexing.index = fileIndex
        /\ past # Indexer!NoAnswer /\ present # Indexer!NoAnswer
    BY <1>8 DEF Indexer!PlanFrom, FollowInv
  <2>2. CASE git /\ state # Indexer!NoCommit
    <3>1. plan = Indexer!planIncrementalIndex(past, present)
      BY <2>2 DEF plan
    <3>2. past \in Indexer!Elsewhere /\ present \in Indexer!Elsewhere
      BY <2>1
    <3>3. CASE rooted
      BY <1>8, <2>1, <2>2, <3>1, <3>2, <3>3, PlanFollows
    <3>4. CASE ~ rooted
      BY <2>1, <2>2, <3>4 DEF FollowInv
    <3> QED BY <3>3, <3>4
  <2>3. CASE git /\ state = Indexer!NoCommit
    <3>1. p \notin began
      BY <2>1, <2>3 DEF FollowInv
    <3> QED BY <2>1, <2>3, <3>1 DEF plan, Indexer!createFullIndexPlan, Indexer!Carry, Indexer!Files
  <2>4. CASE ~ git
    BY <2>1, <2>4 DEF plan, Indexer!planWithoutGit, Indexer!Carry, Indexer!Files
  <2> QED BY <2>2, <2>3, <2>4
<1> QED BY <1>5, <1>6, <1>7, <1>8 DEF FollowInv, Follows

\* What the user does ends the quiet, and leaves what the run has read alone.
LEMMA UserKeeps ==
    ASSUME FollowInv, Indexer!User, work' \in Trees PROVE FollowInv'
BY DEF FollowInv, IndexTypes, Indexer!User, Indexer!place, Follows

LEMMA FollowNext == ASSUME FollowInv, [Indexer!Next]_Indexer!vars PROVE FollowInv'
<1>1. ASSUME NEW full \in BOOLEAN, NEW uncommitted \in BOOLEAN, Indexer!Start(full, uncommitted)
      PROVE  FollowInv'
  BY <1>1, StartFollows
<1>2. CASE Indexer!Plan
  BY <1>2, PlanKeeps
<1>3. CASE Indexer!Crawl
  BY <1>3, CrawlFollows
<1>4. CASE Indexer!saveFileIndex
  BY <1>4 DEF FollowInv, IndexTypes, IndexRun, Follows, Indexer!saveFileIndex, Indexer!place
<1>5. CASE Indexer!recordIndexSuccess
  BY <1>5 DEF FollowInv, IndexTypes, Follows, Indexer!recordIndexSuccess, Indexer!place
<1>6. CASE Indexer!Crash
  <2>1. Indexer!NoRun \in IndexRun
    BY DEF Indexer!NoRun, Indexer!Nothing, IndexRun, Trees
  <2> QED BY <1>6, <2>1 DEF FollowInv, IndexTypes, Indexer!Crash, Indexer!place
<1>7. ASSUME NEW p \in Path, NEW c \in Body \cup {NoFile}, Indexer!Store(p, c) \/ Indexer!Stage(p, c)
      PROVE  FollowInv'
  <2>1. work' \in Trees /\ Indexer!User
    BY <1>7 DEF Indexer!Store, Indexer!Stage, FollowInv, IndexTypes, Trees
  <2> QED BY <2>1, UserKeeps
<1>8. CASE Indexer!Commit
  BY <1>8, UserKeeps DEF Indexer!Commit, FollowInv, IndexTypes
<1>9. ASSUME NEW t \in Trees, Indexer!Checkout(t) PROVE FollowInv'
  BY <1>9, UserKeeps DEF Indexer!Checkout
<1>10. CASE UNCHANGED Indexer!vars
  BY <1>10 DEF Indexer!vars, Indexer!place, FollowInv, IndexTypes, Follows
<1> QED
  BY <1>1, <1>2, <1>3, <1>4, <1>5, <1>6, <1>7, <1>8, <1>9, <1>10 DEF Indexer!Next, Trees

(* A run of the indexer that nothing disturbs leaves the index as the directory   *)
(* is, of what was in step when it began and is not planned both to be written    *)
(* and removed (planIncrementalIndex, mergeGitDiffs, recordIndexSuccess).         *)
THEOREM IndexKeepsUp == Indexer!Spec => []Indexer!IndexFollowsTree
<1>1. FollowInv => Indexer!IndexFollowsTree
  BY DEF FollowInv, Follows, Indexer!IndexFollowsTree
<1> QED BY <1>1, FollowInitially, FollowNext, PTL DEF Indexer!Spec

-----------------------------------------------------------------------------
(***************************************************************************)
(* EditConcurrencyGuard.  PlannedOnTheFile is of an edit that was let      *)
(* through.  What makes it true before that: the record of an agent that   *)
(* nobody has taken the place of has the content the agent has read.       *)
(***************************************************************************)
OwnRecord(a, f) ==
    <<a, f>> \notin recorded /\ knows[a][f] # NoContent /\ f \in DOMAIN snapshots =>
        snapshots[f].sha = knows[a][f]

GuardInv ==
    /\ DOMAIN knows = Agent /\ \A a \in Agent : DOMAIN knows[a] = Guarded
    /\ \A a \in Agent, f \in Guarded : OwnRecord(a, f)
    /\ Guard!PlannedOnTheFile

\* An agent records what it knows of a file: its own record it is then, and nobody else's.
LEMMA RecordIsOwn ==
    ASSUME GuardInv, NEW a \in Agent, NEW g, NEW c, UNCHANGED checked,
           knows' = [knows EXCEPT ![a][g] = c],
           snapshots' = Guard!With(g, c, a), recorded' = Guard!Takes(a, g)
    PROVE  GuardInv'
<1>1. DOMAIN knows' = Agent /\ \A b \in Agent : DOMAIN knows'[b] = Guarded
  BY DEF GuardInv
<1>2. /\ DOMAIN snapshots' = DOMAIN snapshots \cup {g} /\ snapshots'[g].sha = c
      /\ \A f \in DOMAIN snapshots \ {g} : snapshots'[f] = snapshots[f]
  BY DEF Guard!With
<1>3. ASSUME NEW b \in Agent, NEW f \in Guarded PROVE OwnRecord(b, f)'
  <2>1. CASE f # g
    <3>1. knows'[b][f] = knows[b][f] /\ (<<b, f>> \in recorded' <=> <<b, f>> \in recorded)
      BY <2>1 DEF GuardInv, Guard!Takes
    <3> QED BY <1>2, <2>1, <3>1 DEF GuardInv, OwnRecord
  <2>2. CASE f = g /\ b = a
    <3>1. knows'[b][f] = c
      BY <2>2 DEF GuardInv
    <3> QED BY <1>2, <2>2, <3>1 DEF OwnRecord
  <2>3. CASE f = g /\ b # a
    BY <2>3 DEF OwnRecord, Guard!Takes
  <2> QED BY <2>1, <2>2, <2>3
<1> QED BY <1>1, <1>3 DEF GuardInv, Guard!PlannedOnTheFile

(* An edit that the guard lets through was planned on what the file held at the   *)
(* check, unless another agent has put its own record in the place of that of the *)
(* editor (recordRead, checkBeforeEdit, updateAfterEdit).                         *)
THEOREM EditsArePlannedOnTheFile == Guard!Spec => []Guard!PlannedOnTheFile
<1>1. Guard!Init => GuardInv
  BY DEF Guard!Init, GuardInv, OwnRecord, Guard!PlannedOnTheFile
<1>2. ASSUME GuardInv, [Guard!Next]_Guard!vars PROVE GuardInv'
  <2> USE <1>2
  <2>1. ASSUME NEW a \in Agent, Guard!recordRead(a) PROVE GuardInv'
    BY <2>1, RecordIsOwn DEF Guard!recordRead
  <2>2. ASSUME NEW a \in Agent, Guard!updateAfterEdit(a) PROVE GuardInv'
    BY <2>2, RecordIsOwn DEF Guard!updateAfterEdit
  <2>3. ASSUME NEW a \in Agent, Guard!Write(a) PROVE GuardInv'
    BY <2>3 DEF Guard!Write, GuardInv, OwnRecord, Guard!PlannedOnTheFile
  <2>4. ASSUME NEW a \in Agent, NEW f \in Guarded, Guard!Read(a, f) PROVE GuardInv'
    BY <2>4 DEF Guard!Read, GuardInv, OwnRecord, Guard!PlannedOnTheFile
  <2>5. ASSUME NEW a \in Agent, NEW f \in Guarded, Guard!Refused(a, f) PROVE GuardInv'
    BY <2>5 DEF Guard!Refused, GuardInv, OwnRecord, Guard!PlannedOnTheFile
  <2>6. ASSUME NEW a \in Agent, NEW f \in Guarded, NEW new \in Versions, Guard!checkBeforeEdit(a, f, new)
        PROVE  GuardInv'
    <3>1. /\ checked'.knew = knows[a][f] /\ checked'.found = disk[f]
          /\ checked'.own <=> <<a, f>> \notin recorded
          /\ knows[a][f] # NoContent /\ f \in DOMAIN snapshots /\ disk[f] = snapshots[f].sha
      BY <2>6 DEF Guard!checkBeforeEdit, Guard!Ok
    <3>2. Guard!PlannedOnTheFile'
      BY <3>1 DEF GuardInv, OwnRecord, Guard!PlannedOnTheFile
    <3> QED BY <2>6, <3>2 DEF Guard!checkBeforeEdit, GuardInv, OwnRecord
  <2>7. ASSUME NEW f \in Guarded, NEW c \in Versions \cup {NoContent}, Guard!Meddle(f, c) PROVE GuardInv'
    BY <2>7 DEF Guard!Meddle, GuardInv, OwnRecord, Guard!PlannedOnTheFile
  <2>8. ASSUME NEW fs, Guard!forget(fs) PROVE GuardInv'
    BY <2>8 DEF Guard!forget, GuardInv, OwnRecord, Guard!PlannedOnTheFile
  <2>9. CASE UNCHANGED Guard!vars
    BY <2>9 DEF Guard!vars, GuardInv, OwnRecord, Guard!PlannedOnTheFile
  <2> QED BY <2>1, <2>2, <2>3, <2>4, <2>5, <2>6, <2>7, <2>8, <2>9 DEF Guard!Next
<1>3. GuardInv => Guard!PlannedOnTheFile
  BY DEF GuardInv
<1> QED BY <1>1, <1>2, <1>3, PTL DEF Guard!Spec

-----------------------------------------------------------------------------
(***************************************************************************)
(* HypothesisEngine: what each stage of a cycle has put on the disk, as    *)
(* long as the cycle has the files for itself.                             *)
(***************************************************************************)
Texts == [is : Test \cup Code \cup {0}, neat : BOOLEAN]
Ideas == [test : Test \cup {0}, code : Code \cup {0}, neat : BOOLEAN, autoFix : BOOLEAN]
CycleState ==
    [at : {"new", "test", "red", "code", "green", "refactor", "done"}, of : Ideas, met : Test \cup Code \cup {0},
     phase : {"none", "red", "green", "refactor", "complete", "error"}]

TddTypes ==
    /\ written \in [test : Texts, code : Texts]
    /\ cycle \in [Cycle -> CycleState]

Tested(c) == written.test.is = cycle[c].of.test
Coded(c)  == written.code.is = cycle[c].of.code
Good(c)   == <<cycle[c].of.test, cycle[c].of.code>> \in Test \X Right

\* What holds of a cycle that nobody gets in the way of.
CycleInv(c) ==
    /\ cycle[c].phase # "none" => cycle[c].at = "done"
    /\ cycle[c].at \in {"red", "code", "green", "refactor"} => Tested(c)
    /\ cycle[c].at \in {"green", "refactor"} => Coded(c)
    /\ cycle[c].at = "refactor" => Good(c)
    /\ cycle[c].phase = "complete" => Good(c)
    /\ (\A d \in Cycle \ {c} : cycle[d].at = "new") =>
           /\ cycle[c].phase \in {"complete", "refactor"} => Tested(c) /\ Coded(c)
           /\ cycle[c].phase = "red" => Tested(c) /\ Fixer!Passes

\* Two cycles that are under way at once share their files.
Apart == \A c, d \in Cycle : c # d /\ Fixer!Works(c) /\ Fixer!Works(d) => c \in shared

TddInv == TddTypes /\ Apart /\ \A c \in Cycle \ shared : CycleInv(c)

\* A step of cycle c, which goes on to `next`, when nobody else is under way.
LEMMA CycleSteps ==
    ASSUME TddInv, NEW c \in Cycle, Fixer!Works(c), NEW next \in CycleState,
           cycle' = [cycle EXCEPT ![c] = next], next.at # "new",
           UNCHANGED shared, written' \in [test : Texts, code : Texts],
           c \notin shared => CycleInv(c)'
    PROVE  TddInv'
<1>1. /\ cycle' \in [Cycle -> CycleState] /\ cycle'[c] = next
      /\ \A d \in Cycle \ {c} : cycle'[d] = cycle[d]
  BY DEF TddInv, TddTypes
<1>2. Apart'
  <2>1. \A d \in Cycle : Fixer!Works(d)' => Fixer!Works(d)
    BY <1>1 DEF Fixer!Works
  <2> QED BY <2>1 DEF TddInv, Apart
<1>3. ASSUME NEW d \in Cycle \ shared, d # c PROVE CycleInv(d)'
  <2>1. CycleInv(d) /\ ~ Fixer!Works(d)
    BY <1>3 DEF TddInv, Apart
  <2>2. /\ cycle'[d] = cycle[d] /\ cycle[d].at \in {"new", "done"}
        /\ ~ (\A e \in Cycle \ {d} : cycle'[e].at = "new")
    BY <1>1, <1>3, <2>1 DEF Fixer!Works
  <2> QED BY <2>1, <2>2 DEF CycleInv, Good
<1> QED BY <1>1, <1>2, <1>3 DEF TddInv, TddTypes

LEMMA HypothesisCreated ==
    ASSUME TddInv, NEW c \in Cycle,
           NEW h \in [test : Test, code : Code, neat : BOOLEAN, autoFix : BOOLEAN], Fixer!createHypothesis(c, h)
    PROVE  TddInv'
<1>1. PICK old \in CycleState : old = cycle[c]
  BY DEF TddInv, TddTypes
<1> DEFINE next == [old EXCEPT !.at = "test", !.of = h]
<1>2. next \in CycleState /\ next.at = "test" /\ next.of = h /\ next.phase = old.phase
  <2>1. h \in Ideas
    BY DEF Ideas
  <2> QED BY <1>1, <2>1 DEF CycleState
<1>3. cycle' = [cycle EXCEPT ![c] = next] /\ cycle[c].at = "new" /\ written' = written
  BY <1>1 DEF Fixer!createHypothesis, TddInv, TddTypes
<1> HIDE DEF next
<1>4. /\ cycle' \in [Cycle -> CycleState] /\ cycle'[c] = next
      /\ \A d \in Cycle \ {c} : cycle'[d] = cycle[d]
  BY <1>2, <1>3 DEF TddInv, TddTypes
<1>5. /\ shared \subseteq shared'
      /\ \A d \in Cycle \ {c} : Fixer!Works(d) => d \in shared' /\ c \in shared'
  BY DEF Fixer!createHypothesis
<1>6. Apart'
  <2>1. \A d \in Cycle \ {c} : Fixer!Works(d)' <=> Fixer!Works(d)
    BY <1>4 DEF Fixer!Works
  <2> QED BY <1>5, <2>1 DEF TddInv, Apart
<1>7. ASSUME NEW d \in Cycle \ shared', d # c PROVE CycleInv(d)'
  <2>1. CycleInv(d) /\ cycle'[d] = cycle[d] /\ ~ (\A e \in Cycle \ {d} : cycle'[e].at = "new")
    BY <1>2, <1>4, <1>5, <1>7 DEF TddInv
  <2>2. cycle[d].at \in {"new", "done"}
    BY <1>5, <1>7 DEF Fixer!Works
  <2> QED BY <2>1, <2>2 DEF CycleInv, Good
<1>8. c \notin shared' => CycleInv(c)'
  <2>1. c \notin shared' => old.phase = "none"
    BY <1>1, <1>3, <1>5 DEF TddInv, CycleInv
  <2> QED BY <1>2, <1>4, <2>1 DEF CycleInv
<1> QED BY <1>3, <1>4, <1>6, <1>7, <1>8 DEF TddInv, TddTypes

LEMMA TddStep == ASSUME TddInv, [Fixer!TddNext]_Fixer!tddVars PROVE TddInv'
<1>1. ASSUME NEW c \in Cycle, NEW h \in [test : Test, code : Code, neat : BOOLEAN, autoFix : BOOLEAN],
             Fixer!createHypothesis(c, h)
      PROVE  TddInv'
  BY <1>1, HypothesisCreated
<1>2. ASSUME NEW c \in Cycle, NEW works \in BOOLEAN,
             \/ Fixer!WriteTest(c) \/ Fixer!WriteCode(c) \/ Fixer!Throws(c)
             \/ Fixer!Red(c, works) \/ Fixer!Green(c, works) \/ Fixer!Refactor(c, works)
      PROVE  TddInv'
  <2>1. PICK old \in CycleState : old = cycle[c]
    BY DEF TddInv, TddTypes
  <2>2. PICK w \in [test : Texts, code : Texts] : w = written
    BY DEF TddInv, TddTypes
  <2>3. /\ old.of.test \in Test \cup Code \cup {0} /\ old.of.code \in Test \cup Code \cup {0} /\ old.of.neat \in BOOLEAN
        /\ w.test \in Texts /\ w.code \in Texts /\ w.code.is \in Test \cup Code \cup {0}
        /\ w.test.is \in Test \cup Code \cup {0}
    BY <2>1, <2>2 DEF CycleState, Ideas, Texts
  <2>4. Fixer!Works(c) /\ shared' = shared /\ cycle[c] = old /\ written = w
    BY <1>2, <2>1, <2>2 DEF Fixer!Works, Fixer!WriteTest, Fixer!WriteCode, Fixer!Throws, Fixer!Red, Fixer!Green, Fixer!Refactor
  <2>5. c \notin shared => CycleInv(c) /\ old.phase = "none"
    BY <2>4 DEF TddInv, CycleInv, Fixer!Works
  <2>6. CASE Fixer!WriteTest(c)
    <3> DEFINE next == [old EXCEPT !.at = "red"]
    <3>1. next \in CycleState /\ next.at = "red" /\ next.of = old.of /\ next.phase = old.phase
      BY <2>1 DEF CycleState
    <3>2. cycle' = [cycle EXCEPT ![c] = next]
      BY <2>4, <2>6 DEF Fixer!WriteTest, Fixer!Continues, TddInv, TddTypes
    <3>3. written' = [w EXCEPT !.test = [is |-> old.of.test, neat |-> old.of.neat]]
      BY <2>4, <2>6 DEF Fixer!WriteTest, Fixer!Text
    <3>4. written' \in [test : Texts, code : Texts] /\ written'.test.is = old.of.test
      BY <2>2, <2>3, <3>3 DEF Texts
    <3> HIDE DEF next
    <3>5. cycle'[c] = next
      BY <3>2 DEF TddInv, TddTypes
    <3>6. c \notin shared => CycleInv(c)'
      BY <2>5, <3>1, <3>4, <3>5 DEF CycleInv, Tested
    <3> QED BY <2>4, <3>1, <3>2, <3>4, <3>6, CycleSteps
  <2>7. CASE Fixer!WriteCode(c)
    <3> DEFINE next == [old EXCEPT !.at = "green"]
    <3>1. next \in CycleState /\ next.at = "green" /\ next.of = old.of /\ next.phase = old.phase
      BY <2>1 DEF CycleState
    <3>2. cycle' = [cycle EXCEPT ![c] = next] /\ old.at = "code"
      BY <2>4, <2>7 DEF Fixer!WriteCode, Fixer!Continues, TddInv, TddTypes
    <3>3. written' = [w EXCEPT !.code = [is |-> old.of.code, neat |-> old.of.neat]]
      BY <2>4, <2>7 DEF Fixer!WriteCode, Fixer!Text
    <3>4. written' \in [test : Texts, code : Texts] /\ written'.code.is = old.of.code /\ written'.test = w.test
      BY <2>2, <2>3, <3>3 DEF Texts
    <3> HIDE DEF next
    <3>5. cycle'[c] = next
      BY <3>2 DEF TddInv, TddTypes
    <3>6. c \notin shared => CycleInv(c)'
      BY <2>4, <2>5, <3>1, <3>2, <3>4, <3>5 DEF CycleInv, Tested, Coded
    <3> QED BY <2>4, <3>1, <3>2, <3>4, <3>6, CycleSteps
  <2>8. CASE Fixer!Throws(c)
    <3> DEFINE next == [old EXCEPT !.at = "done", !.phase = "error"]
    <3>1. next \in CycleState /\ next.at = "done" /\ next.of = old.of /\ next.phase = "error"
      BY <2>1 DEF CycleState
    <3>2. cycle' = [cycle EXCEPT ![c] = next] /\ written' = w
      BY <2>4, <2>8 DEF Fixer!Throws, Fixer!Told, TddInv, TddTypes
    <3> HIDE DEF next
    <3>5. cycle'[c] = next
      BY <3>2 DEF TddInv, TddTypes
    <3>6. c \notin shared => CycleInv(c)'
      BY <3>1, <3>5 DEF CycleInv
    <3> QED BY <2>2, <2>4, <3>1, <3>2, <3>6, CycleSteps
  <2>9. CASE Fixer!Red(c, works)
    <3>1. CASE Fixer!Passes /\ works
      <4> DEFINE next == [old EXCEPT !.at = "done", !.phase = "red"]
      <4>1. next \in CycleState /\ next.at = "done" /\ next.of = old.of /\ next.phase = "red"
        BY <2>1 DEF CycleState
      <4>2. cycle' = [cycle EXCEPT ![c] = next] /\ written' = written /\ old.at = "red"
        BY <2>4, <2>9, <3>1 DEF Fixer!Red, Fixer!Told, TddInv, TddTypes
      <4> HIDE DEF next
      <4>5. cycle'[c] = next /\ Fixer!Passes'
        BY <3>1, <4>2 DEF TddInv, TddTypes, Fixer!Passes
      <4>6. c \notin shared => CycleInv(c)'
        BY <2>4, <2>5, <4>1, <4>2, <4>5 DEF CycleInv, Tested
      <4> QED BY <2>2, <2>4, <4>1, <4>2, <4>6, CycleSteps
    <3>2. CASE ~ (Fixer!Passes /\ works)
      <4> DEFINE next == [old EXCEPT !.at = "code", !.met = w.code.is]
      <4>1. next \in CycleState /\ next.at = "code" /\ next.of = old.of /\ next.phase = old.phase
        BY <2>1, <2>3 DEF CycleState
      <4>2. cycle' = [cycle EXCEPT ![c] = next] /\ written' = written /\ old.at = "red"
        BY <2>4, <2>9, <3>2 DEF Fixer!Red, TddInv, TddTypes
      <4> HIDE DEF next
      <4>5. cycle'[c] = next
        BY <4>2 DEF TddInv, TddTypes
      <4>6. c \notin shared => CycleInv(c)'
        BY <2>4, <2>5, <4>1, <4>2, <4>5 DEF CycleInv, Tested
      <4> QED BY <2>2, <2>4, <4>1, <4>2, <4>6, CycleSteps
    <3> QED BY <3>1, <3>2
  <2>10. CASE Fixer!Green(c, works)
    <3>1. CASE Fixer!Passes /\ works
      <4> DEFINE next == [old EXCEPT !.at = "refactor"]
      <4>1. next \in CycleState /\ next.at = "refactor" /\ next.of = old.of /\ next.phase = old.phase
        BY <2>1 DEF CycleState
      <4>2. cycle' = [cycle EXCEPT ![c] = next] /\ written' = written /\ old.at = "green"
        BY <2>4, <2>10, <3>1 DEF Fixer!Green, Fixer!Continues, TddInv, TddTypes
      <4> HIDE DEF next
      <4>5. cycle'[c] = next
        BY <4>2 DEF TddInv, TddTypes
      <4>6. c \notin shared => CycleInv(c)'
        BY <2>4, <2>5, <3>1, <4>1, <4>2, <4>5 DEF CycleInv, Tested, Coded, Good, Fixer!Passes
      <4> QED BY <2>2, <2>4, <4>1, <4>2, <4>6, CycleSteps
    <3>2. CASE ~ (Fixer!Passes /\ works)
      <4> DEFINE next == [old EXCEPT !.at = "done", !.phase = "green"]
      <4>1. next \in CycleState /\ next.at = "done" /\ next.of = old.of /\ next.phase = "green"
        BY <2>1 DEF CycleState
      <4>2. cycle' = [cycle EXCEPT ![c] = next] /\ written' = written
        BY <2>4, <2>10, <3>2 DEF Fixer!Green, Fixer!Told, TddInv, TddTypes
      <4> HIDE DEF next
      <4>5. cycle'[c] = next
        BY <4>2 DEF TddInv, TddTypes
      <4>6. c \notin shared => CycleInv(c)'
        BY <4>1, <4>5 DEF CycleInv
      <4> QED BY <2>2, <2>4, <4>1, <4>2, <4>6, CycleSteps
    <3> QED BY <3>1, <3>2
  <2>11. CASE Fixer!Refactor(c, works)
    <3>1. PICK phase \in {"refactor", "complete"} : cycle' = [cycle EXCEPT ![c].at = "done", ![c].phase = phase]
      BY <2>11 DEF Fixer!Refactor, Fixer!Told
    <3> DEFINE next == [old EXCEPT !.at = "done", !.phase = phase]
    <3>2. next \in CycleState /\ next.at = "done" /\ next.of = old.of /\ next.phase = phase
      BY <2>1 DEF CycleState
    <3>3. cycle' = [cycle EXCEPT ![c] = next] /\ old.at = "refactor"
      BY <2>4, <2>11, <3>1 DEF Fixer!Refactor, TddInv, TddTypes
    <3>4. \/ written' = w
          \/ written' = [f \in {"test", "code"} |-> [is |-> w[f].is, neat |-> TRUE]]
      BY <2>4, <2>11 DEF Fixer!Refactor, Fixer!Text
    <3>5. /\ written' \in [test : Texts, code : Texts]
          /\ written'.test.is = w.test.is /\ written'.code.is = w.code.is
      <4>1. ASSUME written' = [f \in {"test", "code"} |-> [is |-> w[f].is, neat |-> TRUE]]
            PROVE  written' = [test |-> [is |-> w.test.is, neat |-> TRUE], code |-> [is |-> w.code.is, neat |-> TRUE]]
        BY <4>1
      <4>2. ASSUME written' = [test |-> [is |-> w.test.is, neat |-> TRUE], code |-> [is |-> w.code.is, neat |-> TRUE]]
            PROVE  /\ written' \in [test : Texts, code : Texts]
                   /\ written'.test.is = w.test.is /\ written'.code.is = w.code.is
        <5>1. [is |-> w.test.is, neat |-> TRUE] \in Texts /\ [is |-> w.code.is, neat |-> TRUE] \in Texts
          BY <2>3 DEF Texts
        <5> QED BY <4>2, <5>1
      <4>3. w \in [test : Texts, code : Texts]
        BY <2>2
      <4> QED BY <3>4, <4>1, <4>2, <4>3
    <3> HIDE DEF next
    <3>6. cycle'[c] = next
      BY <3>3 DEF TddInv, TddTypes
    <3>7. c \notin shared => CycleInv(c)'
      BY <2>4, <2>5, <3>2, <3>3, <3>5, <3>6 DEF CycleInv, Tested, Coded, Good
    <3> QED BY <2>4, <3>2, <3>3, <3>5, <3>7, CycleSteps
  <2> QED BY <1>2, <2>6, <2>7, <2>8, <2>9, <2>10, <2>11
<1>3. CASE UNCHANGED Fixer!tddVars
  BY <1>3 DEF Fixer!tddVars, TddInv, TddTypes, Apart, Fixer!Works, CycleInv, Tested, Coded, Good, Fixer!Passes
<1> QED BY <1>1, <1>2, <1>3 DEF Fixer!TddNext

(* "passes" is about what is on the disk: when a cycle that had the files for     *)
(* itself is complete, and before another begins, they hold its hypothesis, and   *)
(* the test it wrote accepts the code it wrote (HypothesisEngine.ts, red, green   *)
(* and refactor).                                                                 *)
THEOREM CyclesTellTheirTests == Fixer!TddSpec => []Fixer!CyclesTellTests
<1>1. Fixer!TddInit => TddInv
  <2> SUFFICES ASSUME Fixer!TddInit PROVE TddInv
    OBVIOUS
  <2>1. Fixer!NoHypothesis \in Ideas
    BY DEF Fixer!NoHypothesis, Ideas
  <2>2. TddTypes
    <3>1. PICK code \in {Fixer!Absent} \cup {Fixer!Text(i, TRUE) : i \in Code} :
               written = [test |-> Fixer!Absent, code |-> code]
      BY DEF Fixer!TddInit
    <3>2. Fixer!Absent \in Texts /\ code \in Texts
      <4>1. \A i \in Test \cup Code \cup {0} : [is |-> i, neat |-> TRUE] \in Texts
        BY DEF Texts
      <4>2. Fixer!Absent = [is |-> 0, neat |-> TRUE] /\ \A i \in Code : Fixer!Text(i, TRUE) = [is |-> i, neat |-> TRUE]
        BY DEF Fixer!Absent, Fixer!Text
      <4> QED BY <3>1, <4>1, <4>2
    <3>3. written \in [test : Texts, code : Texts]
      BY <3>1, <3>2
    <3>4. [at |-> "new", of |-> Fixer!NoHypothesis, met |-> 0, phase |-> "none"] \in CycleState
      BY <2>1 DEF CycleState
    <3>5. cycle \in [Cycle -> CycleState]
      BY <3>4 DEF Fixer!TddInit
    <3> QED BY <3>3, <3>5 DEF TddTypes, Fixer!TddInit
  <2>3. \A c \in Cycle : cycle[c].at = "new" /\ cycle[c].phase = "none"
    BY DEF Fixer!TddInit
  <2> QED BY <2>2, <2>3 DEF TddInv, Apart, Fixer!Works, CycleInv
<1>2. TddInv => Fixer!CyclesTellTests
  BY DEF TddInv, CycleInv, Good, Tested, Coded, Fixer!CyclesTellTests
<1> QED BY <1>1, <1>2, TddStep, PTL DEF Fixer!TddSpec

-----------------------------------------------------------------------------
(***************************************************************************)
(* DeployGate.  What is proved of production is said of the commit that is *)
(* on record, and of the HEAD there is by then.  DeployInv carries it back *)
(* to post: the files it has compared are on the air as the commit it      *)
(* compares them with has them; no record is of a later commit than the    *)
(* one a deploy began from; and between the commit that is recorded, if    *)
(* nothing was uploaded since, and HEAD one is on the air.                 *)
(***************************************************************************)
SiteTrees == [Public -> Put \cup {0}]
Deploys == [step : {"idle", "stage", "folder", "uploaded", "post"}, from : Nat, against : Nat,
            todo : SUBSET Public, failed : BOOLEAN]
Looks == [step : {"idle", "counted", "proving", "told"}, head : Nat, last : Nat, against : Nat,
          says : {"", "proved", "record behind", "blocks", "no proof"}, sure : Nat]

DeployTypes ==
    /\ hours \in Nat /\ sure \in Nat
    /\ site \in SiteTrees /\ air \in SiteTrees /\ stamp \in [Public -> 0..hours]
    /\ commits \in Seq(SiteTrees) /\ Len(commits) >= 1
    /\ register \subseteq 1..Len(commits)
    /\ deploy \in Deploys /\ look \in Looks

\* A deploy that is under way.
Sending ==
    /\ deploy.from # 0 => deploy.from <= Len(commits) /\ \A c \in register : c <= deploy.from
    /\ deploy.step \in {"uploaded", "post"} => deploy.from # 0
    /\ deploy.step = "post" => deploy.from <= deploy.against /\ deploy.against <= Len(commits)

Compared ==
    deploy.step = "post" /\ ~ deploy.failed =>
        \A f \in Deploy!Files(commits[deploy.against]) \ (Unseen \cup Gated \cup deploy.todo) :
            air[f] = commits[deploy.against][f]

Shipped ==
    sure # 0 => /\ sure \in register /\ \A c \in register : c <= sure
                /\ \E a \in sure..Len(commits) : Deploy!OnTheAir(commits[a])

LookedAt ==
    /\ look.says = "proved" => Deploy!Behind(look.last, look.head) = 0
    /\ look.sure # 0 => /\ look.last = look.sure /\ look.head <= Len(commits)
                        /\ \E a \in look.sure..look.head : Deploy!OnTheAir(commits[a])

DeployInv == DeployTypes /\ Sending /\ Compared /\ Shipped /\ LookedAt

\* Some file, a tree to begin with, an age in hours.
DeployBounds == IsFiniteSet(Public) /\ Put # {} /\ MaxHours \in Nat

\* Max and Min of what they are asked of.
LEMMA ExtremesAreThere ==
    ASSUME NEW U \in SUBSET Int, IsFiniteSet(U), U # {}
    PROVE  /\ Deploy!Max(U) \in U /\ \A n \in U : n <= Deploy!Max(U)
           /\ Deploy!Min(U) \in U /\ \A n \in U : Deploy!Min(U) <= n
<1> DEFINE Before(m, n, up) == IF up THEN n >= m ELSE n <= m
<1>1. ASSUME NEW up \in BOOLEAN PROVE \E m \in U : \A n \in U : Before(n, m, up)
  <2> DEFINE Beyond(m) == {n \in U : Before(m, n, up)}
             T == {Beyond(m) : m \in U}
  <2>1. T \subseteq SUBSET U /\ T # {}
    <3>1. \A m \in U : Beyond(m) \subseteq U
      OBVIOUS
    <3>2. PICK u \in U : TRUE
      OBVIOUS
    <3> HIDE DEF Beyond
    <3> QED BY <3>1, <3>2
  <2>2. PICK X \in T : \A Y \in T : ~ (<<Y, X>> \in StrictSubsetOrdering(U))
    <3> HIDE DEF T
    <3>1. IsWellFoundedOn(StrictSubsetOrdering(U), SUBSET U)
      BY FS_FiniteSubsetsOfFinite, FS_StrictSubsetOrderingWellFounded
    <3> QED BY <3>1, <2>1, WFMin
  <2>3. PICK m \in U : X = Beyond(m)
    BY <2>2
  <2>4. ASSUME NEW n \in U, ~ Before(n, m, up) PROVE FALSE
    <3>1. m \in Int /\ n \in Int /\ U \subseteq Int
      OBVIOUS
    <3>2. n \in Beyond(n) /\ m \in Beyond(m) /\ m \notin Beyond(n) /\ Beyond(m) \subseteq U
      BY <2>4, <3>1
    <3>3. \A x \in Beyond(n) : x \in Beyond(m)
      BY <2>4, <3>1
    <3>4. Beyond(n) \in T
      OBVIOUS
    <3> HIDE DEF Beyond, T
    <3> QED BY <3>2, <3>3, <3>4, <2>2, <2>3 DEF StrictSubsetOrdering
  <2> QED BY <2>4
<1>2. \E m \in U : \A n \in U : m >= n
  <2>1. PICK m \in U : \A n \in U : Before(n, m, TRUE)
    BY <1>1
  <2> QED BY <2>1
<1>3. \E m \in U : \A n \in U : m <= n
  <2>1. PICK m \in U : \A n \in U : Before(n, m, FALSE)
    BY <1>1
  <2> QED BY <2>1
<1>4. Deploy!Max(U) \in U /\ \A n \in U : Deploy!Max(U) >= n
  BY <1>2 DEF Deploy!Max
<1>5. Deploy!Min(U) \in U /\ \A n \in U : Deploy!Min(U) <= n
  BY <1>3 DEF Deploy!Min
<1> QED BY <1>4, <1>5

\* The last commit on record, and that it is one.
LEMMA LastOnRecord ==
    ASSUME DeployInv
    PROVE  /\ Deploy!ultimoCommitDeploy \in Nat
           /\ sure # 0 => Deploy!ultimoCommitDeploy = sure
<1>1. register \subseteq 1..Len(commits) /\ Len(commits) \in Nat
  BY DEF DeployInv, DeployTypes
<1>2. IsFiniteSet(register)
  <2>1. IsFiniteSet(1..Len(commits))
    BY <1>1, FS_Interval
  <2> QED BY <1>1, <2>1, FS_Subset
<1>3. CASE register = {}
  BY <1>3 DEF DeployInv, Shipped, Deploy!ultimoCommitDeploy, Deploy!None
<1>4. CASE register # {}
  <2>1. /\ Deploy!Max(register) \in register /\ \A n \in register : n <= Deploy!Max(register)
    BY <1>1, <1>2, <1>4, ExtremesAreThere
  <2>2. Deploy!ultimoCommitDeploy = Deploy!Max(register)
    BY <1>4 DEF Deploy!ultimoCommitDeploy
  <2>3. PICK m : m = Deploy!ultimoCommitDeploy
    OBVIOUS
  <2>4. m \in register /\ \A n \in register : n <= m
    BY <2>1, <2>2, <2>3
  <2>5. sure # 0 => sure \in register /\ \A c \in register : c <= sure
    BY DEF DeployInv, Shipped
  <2>6. m \in Nat /\ (sure # 0 => m = sure)
    <3>1. \A c \in register : c \in Nat
      BY <1>1
    <3>2. m \in Nat
      BY <2>4, <3>1
    <3>3. ASSUME sure # 0 PROVE m = sure
      <4>1. sure <= m /\ m <= sure /\ sure \in Nat
        BY <2>4, <2>5, <3>1, <3>3
      <4> QED BY <3>2, <4>1
    <3> QED BY <3>2, <3>3
  <2> QED BY <2>3, <2>6
<1> QED BY <1>3, <1>4

\* What is on the air stays there, whatever is committed besides.
Grows ==
    /\ air' = air /\ Len(commits') \in Nat /\ Len(commits) <= Len(commits')
    /\ \A a \in 1..Len(commits) : commits'[a] = commits[a]

LEMMA RecordStays ==
    ASSUME DeployInv, Grows, sure' = sure, register' = register PROVE Shipped'
<1> SUFFICES ASSUME sure # 0
             PROVE  /\ sure \in register /\ \A c \in register : c <= sure
                    /\ \E a \in sure..Len(commits') : Deploy!OnTheAir(commits[a])'
  BY DEF Shipped
<1>1. PICK a \in sure..Len(commits) : Deploy!OnTheAir(commits[a])
  BY DEF DeployInv, Shipped
<1>2. a \in 1..Len(commits) /\ a \in sure..Len(commits')
  BY <1>1 DEF DeployInv, DeployTypes, Grows
<1>3. Deploy!OnTheAir(commits[a])'
  BY <1>1, <1>2 DEF Grows, Deploy!OnTheAir, Deploy!Files
<1> QED BY <1>2, <1>3 DEF DeployInv, Shipped

LEMMA LookStays ==
    ASSUME DeployInv, Grows, look' = look PROVE LookedAt'
<1>1. look.says = "proved" => Deploy!Behind(look.last, look.head)' = 0
  BY DEF DeployInv, LookedAt, Deploy!Behind
<1>2. ASSUME look.sure # 0
      PROVE  /\ look.last = look.sure /\ look.head <= Len(commits')
             /\ \E a \in look.sure..look.head : Deploy!OnTheAir(commits[a])'
  <2>1. PICK a \in look.sure..look.head : Deploy!OnTheAir(commits[a])
    BY <1>2 DEF DeployInv, LookedAt
  <2>2. look.head <= Len(commits) /\ look.head \in Nat /\ look.sure \in Nat /\ Len(commits) \in Nat /\ look.last = look.sure
    <3>1. PICK l \in Looks : l = look
      BY DEF DeployInv, DeployTypes
    <3>2. l.head \in Nat /\ l.sure \in Nat
      BY DEF Looks
    <3> QED BY <1>2, <3>1, <3>2 DEF DeployInv, LookedAt, DeployTypes
  <2>3. a \in 1..Len(commits) /\ look.head <= Len(commits')
    BY <1>2, <2>1, <2>2 DEF Grows
  <2>4. Deploy!OnTheAir(commits[a])'
    BY <2>1, <2>3 DEF Grows, Deploy!OnTheAir, Deploy!Files
  <2> QED BY <2>1, <2>2, <2>3, <2>4
<1> QED BY <1>1, <1>2 DEF LookedAt

\* A deploy goes on beside commits.
LEMMA DeployStays ==
    ASSUME DeployInv, Grows, register' = register, deploy' = deploy PROVE Sending' /\ Compared'
<1>1. Sending'
  BY DEF DeployInv, DeployTypes, Deploys, Sending, Grows
<1>2. ASSUME deploy.step = "post", ~ deploy.failed
      PROVE  \A f \in Deploy!Files(commits[deploy.against])' \ (Unseen \cup Gated \cup deploy.todo) :
                 air[f] = commits'[deploy.against][f]
  <2>1. deploy.against \in 1..Len(commits)
    BY <1>2 DEF DeployInv, DeployTypes, Deploys, Sending
  <2> QED BY <1>2, <2>1 DEF DeployInv, Compared, Grows, Deploy!Files
<1> QED BY <1>1, <1>2 DEF Compared, Grows

LEMMA DeployStep == ASSUME DeployBounds, DeployInv, [Deploy!Next]_Deploy!vars PROVE DeployInv'
<1> USE DEF Deploy!None
<1>0. /\ commits \in Seq(SiteTrees) /\ Len(commits) \in Nat /\ Len(commits) >= 1
      /\ commits[Len(commits)] \in SiteTrees
      /\ register \subseteq 1..Len(commits)
  BY DEF DeployInv, DeployTypes
<1>1. PICK d \in Deploys : d = deploy
  BY DEF DeployInv, DeployTypes
<1>2. PICK l \in Looks : l = look
  BY DEF DeployInv, DeployTypes
<1>3. commits' = commits /\ air' = air => Grows
  BY <1>0 DEF Grows
<1>4. ASSUME NEW f \in Public \ Unseen, NEW c \in Put \cup {Deploy!None}, Deploy!Edit(f, c) PROVE DeployInv'
  <2>1. Shipped' /\ LookedAt' /\ Sending' /\ Compared'
    BY <1>3, <1>4, RecordStays, LookStays, DeployStays DEF Deploy!Edit
  <2>2. site' \in SiteTrees /\ stamp' \in [Public -> 0..hours]
    BY <1>4 DEF Deploy!Edit, DeployInv, DeployTypes, SiteTrees
  <2> QED BY <1>4, <2>1, <2>2 DEF Deploy!Edit, DeployInv, DeployTypes
<1>5. CASE Deploy!Commit
  <2>1. commits' = Append(commits, site) /\ site \in SiteTrees
    BY <1>5 DEF Deploy!Commit, DeployInv, DeployTypes
  <2>2. /\ commits' \in Seq(SiteTrees) /\ Len(commits') = Len(commits) + 1
        /\ \A a \in 1..Len(commits) : commits'[a] = commits[a]
    BY <1>0, <2>1, AppendProperties
  <2>3. Grows
    BY <1>0, <1>5, <2>2 DEF Grows, Deploy!Commit
  <2>4. Shipped' /\ LookedAt' /\ Sending' /\ Compared'
    BY <1>5, <2>3, RecordStays, LookStays, DeployStays DEF Deploy!Commit
  <2>5. register \subseteq 1..Len(commits')
    BY <1>0, <2>2
  <2> QED BY <1>0, <1>5, <2>2, <2>4, <2>5 DEF Deploy!Commit, DeployInv, DeployTypes
<1>6. CASE Deploy!Tick
  <2>1. Shipped' /\ LookedAt' /\ Sending' /\ Compared'
    BY <1>3, <1>6, RecordStays, LookStays, DeployStays DEF Deploy!Tick
  <2>2. hours' \in Nat /\ stamp' \in [Public -> 0..hours']
    <3>1. hours \in Nat /\ stamp \in [Public -> 0..hours] /\ hours' = hours + 1 /\ stamp' = stamp
      BY <1>6 DEF Deploy!Tick, DeployInv, DeployTypes
    <3>2. 0..hours \subseteq 0..hours'
      BY <3>1
    <3> QED BY <3>1, <3>2
  <2> QED BY <1>6, <2>1, <2>2 DEF Deploy!Tick, DeployInv, DeployTypes
<1>7. CASE Deploy!GateFalls
  <2>1. Shipped' /\ LookedAt' /\ Sending' /\ Compared'
    BY <1>3, <1>7, RecordStays, LookStays, DeployStays DEF Deploy!GateFalls
  <2> QED BY <1>7, <2>1 DEF Deploy!GateFalls, DeployInv, DeployTypes
<1>8. ASSUME Deploy!pre \/ Deploy!lineage \/ Deploy!GiveUp PROVE DeployInv'
  <2>1. /\ commits' = commits /\ air' = air /\ look' = look /\ sure' = sure /\ register' = register
        /\ hours' = hours /\ site' = site /\ stamp' = stamp
    BY <1>8 DEF Deploy!pre, Deploy!lineage, Deploy!GiveUp
  <2>2. Shipped' /\ LookedAt'
    BY <1>3, <2>1, RecordStays, LookStays
  <2>3. /\ deploy'.step \in {"idle", "stage", "folder"} /\ deploy' \in Deploys
        /\ deploy'.from \in {0, Len(commits)}
    <3> DEFINE none == [step |-> "idle", from |-> 0, against |-> 0, todo |-> {}, failed |-> FALSE]
    <3>1. none \in Deploys /\ none = Deploy!Idle /\ none.step = "idle" /\ none.from = 0
      <4>1. {} \in SUBSET Public
        OBVIOUS
      <4> QED BY <4>1 DEF Deploys, Deploy!Idle
    <3> HIDE DEF none
    <3>2. [none EXCEPT !.step = "stage"] \in Deploys
          /\ [none EXCEPT !.step = "folder", !.from = Len(commits)] \in Deploys
      BY <1>0, <3>1 DEF Deploys
    <3>3. \/ deploy' = none \/ deploy' = [none EXCEPT !.step = "stage"]
          \/ deploy' = [none EXCEPT !.step = "folder", !.from = Len(commits)]
      BY <1>8, <3>1 DEF Deploy!pre, Deploy!lineage, Deploy!GiveUp, Deploy!HEAD
    <3> QED BY <3>1, <3>2, <3>3 DEF Deploys
  <2>4. Sending' /\ Compared'
    BY <1>0, <2>1, <2>3 DEF Sending, Compared
  <2> QED BY <2>1, <2>2, <2>3, <2>4 DEF DeployInv, DeployTypes
<1>9. ASSUME NEW lost \in SUBSET Public, Deploy!Upload(lost) PROVE DeployInv'
  <2> DEFINE next == [d EXCEPT !.step = "uploaded", !.from = IF @ = 0 THEN Len(commits) ELSE @]
             seen == [l EXCEPT !.sure = 0]
  <2>1. /\ next \in Deploys /\ next.step = "uploaded"
        /\ next.from = IF d.from = 0 THEN Len(commits) ELSE d.from
    BY <1>0 DEF Deploys
  <2>2. seen \in Looks /\ seen.sure = 0 /\ seen.says = l.says /\ seen.last = l.last /\ seen.head = l.head
    BY DEF Looks
  <2>3. /\ deploy' = next /\ look' = seen /\ sure' = 0 /\ commits' = commits /\ register' = register
        /\ site' = site /\ stamp' = stamp /\ hours' = hours
    BY <1>1, <1>2, <1>9 DEF Deploy!Upload, Deploy!HEAD
  <2> HIDE DEF next, seen
  <2>4. air' \in SiteTrees
    <3>1. PICK sent \in SiteTrees : air' = [f \in Public |-> IF f \in lost THEN 0 ELSE sent[f]]
      BY <1>0, <1>9 DEF Deploy!Upload, Deploy!HEAD, DeployInv, DeployTypes
    <3> QED BY <3>1 DEF SiteTrees
  <2>5. Sending'
    BY <1>0, <1>1, <2>1, <2>3 DEF Sending, DeployInv, Deploys
  <2>6. Compared' /\ Shipped' /\ LookedAt'
    BY <1>2, <2>1, <2>2, <2>3 DEF Compared, Shipped, LookedAt, DeployInv, Deploy!Behind
  <2> QED BY <2>1, <2>2, <2>3, <2>4, <2>5, <2>6 DEF DeployInv, DeployTypes
<1>10. CASE Deploy!BeginPost
  <2> DEFINE all == Deploy!Files(commits[Len(commits)]) \ Unseen
             next == [d EXCEPT !.step = "post", !.against = Len(commits), !.todo = all]
  <2>1. next \in Deploys /\ next.step = "post" /\ next.against = Len(commits) /\ next.todo = all /\ next.from = d.from
    <3>1. all \in SUBSET Public
      BY DEF Deploy!Files
    <3> HIDE DEF all
    <3> QED BY <1>0, <3>1 DEF Deploys
  <2>2. /\ deploy' = next /\ look' = look /\ sure' = sure /\ commits' = commits /\ register' = register
        /\ air' = air /\ site' = site /\ stamp' = stamp /\ hours' = hours /\ d.step = "uploaded"
    BY <1>1, <1>10 DEF Deploy!BeginPost, Deploy!HEAD
  <2> HIDE DEF next
  <2>3. Shipped' /\ LookedAt'
    BY <1>3, <2>2, RecordStays, LookStays
  <2>4. Sending'
    BY <1>0, <1>1, <2>1, <2>2 DEF Sending, DeployInv, Deploys
  <2>5. Compared'
    <3>1. Deploy!Files(commits[deploy.against])' = Deploy!Files(commits[Len(commits)])
      BY <2>1, <2>2 DEF Deploy!Files
    <3> QED BY <2>1, <2>2, <3>1 DEF Compared
  <2> QED BY <2>1, <2>2, <2>3, <2>4, <2>5 DEF DeployInv, DeployTypes
<1>11. ASSUME NEW answered \in BOOLEAN, Deploy!Fetch(answered) PROVE DeployInv'
  <2> DEFINE sent == commits[d.against]
  <2>1. PICK f \in d.todo : deploy' = [d EXCEPT !.todo = @ \ {f},
                                !.failed = @ \/ ~ answered \/ ~ Deploy!Agrees(f, sent)]
    BY <1>1, <1>11 DEF Deploy!Fetch
  <2> DEFINE wrong == IF d.failed \/ ~ answered \/ ~ Deploy!Agrees(f, sent) THEN TRUE ELSE FALSE
             next == [d EXCEPT !.todo = d.todo \ {f}, !.failed = wrong]
  <2>2. deploy' = next
    BY <2>1 DEF Deploys
  <2>3. /\ next \in Deploys /\ next.step = d.step /\ next.against = d.against /\ next.from = d.from
        /\ next.todo = d.todo \ {f}
        /\ ~ next.failed => ~ d.failed /\ Deploy!Agrees(f, sent)
    <3>1. wrong \in BOOLEAN /\ (~ wrong => ~ d.failed /\ Deploy!Agrees(f, sent))
      OBVIOUS
    <3> HIDE DEF wrong
    <3> QED BY <3>1 DEF Deploys
  <2>4. /\ look' = look /\ sure' = sure /\ commits' = commits /\ register' = register
        /\ air' = air /\ site' = site /\ stamp' = stamp /\ hours' = hours
    BY <1>11 DEF Deploy!Fetch
  <2> HIDE DEF next, wrong
  <2>5. Shipped' /\ LookedAt'
    BY <1>3, <2>4, RecordStays, LookStays
  <2>6. Sending'
    BY <1>0, <1>1, <2>2, <2>3, <2>4 DEF Sending, DeployInv, Deploys
  <2>7. f \notin Gated /\ Deploy!Agrees(f, sent) => air[f] = sent[f]
    BY DEF Deploy!Agrees, Deploy!Answer, Deploy!tipoPlausivel, Deploy!Same
  <2>8. Compared'
    <3>1. Deploy!Files(commits[deploy.against])' = Deploy!Files(commits[deploy.against]) /\ deploy'.against = deploy.against
      BY <1>1, <2>2, <2>3, <2>4 DEF Deploy!Files
    <3> QED BY <1>1, <2>2, <2>3, <2>4, <2>7, <3>1 DEF Compared, DeployInv
  <2> QED BY <2>2, <2>3, <2>4, <2>5, <2>6, <2>8 DEF DeployInv, DeployTypes
<1>12. ASSUME NEW c \in 1..Deploy!HEAD, Deploy!Record(c) PROVE DeployInv'
  <2>1. /\ look' = look /\ sure' = c /\ commits' = commits /\ register' = register \cup {c}
        /\ air' = air /\ site' = site /\ stamp' = stamp /\ hours' = hours /\ deploy' = Deploy!Idle
        /\ d.step = "post" /\ d.todo = {} /\ ~ d.failed /\ c \in {d.from, d.against}
    BY <1>1, <1>12 DEF Deploy!Record
  <2>2. c \in 1..Len(commits)
    BY <1>12 DEF Deploy!HEAD
  <2>3. LookedAt'
    BY <1>3, <2>1, LookStays
  <2>4. /\ d.from \in Nat /\ d.against \in Nat /\ d.from <= d.against /\ d.against <= Len(commits)
        /\ \A r \in register : r <= d.from
    BY <1>1, <2>1 DEF Sending, DeployInv, Deploys
  <2>5. Deploy!OnTheAir(commits[d.against])
    BY <1>1, <2>1 DEF Compared, DeployInv, Deploy!OnTheAir
  <2>6. Shipped'
    <3>1. \A r \in register \cup {c} : r <= c
      BY <1>0, <2>1, <2>2, <2>4
    <3>2. d.against \in c..Len(commits)
      BY <1>0, <2>1, <2>2, <2>4
    <3>3. Deploy!OnTheAir(commits[d.against])'
      BY <2>1, <2>5 DEF Deploy!OnTheAir, Deploy!Files
    <3>4. \E a \in c..Len(commits) : Deploy!OnTheAir(commits[a])'
      BY <3>2, <3>3
    <3> QED BY <2>1, <3>1, <3>4 DEF Shipped
  <2>7. deploy' \in Deploys /\ Sending' /\ Compared'
    BY <2>1 DEF Deploy!Idle, Deploys, Sending, Compared
  <2>8. c \in Nat /\ register' \subseteq 1..Len(commits)
    BY <1>0, <2>1, <2>2
  <2> QED BY <2>1, <2>3, <2>6, <2>7, <2>8 DEF DeployInv, DeployTypes
<1>13. ASSUME Deploy!BeginLook \/ Deploy!StageLook \/ (\E answered \in BOOLEAN : Deploy!EndLook(answered)) \/ Deploy!Forget
       PROVE  DeployInv'
  <2>1. /\ deploy' = deploy /\ sure' = sure /\ commits' = commits /\ register' = register
        /\ air' = air /\ site' = site /\ stamp' = stamp /\ hours' = hours
    BY <1>13 DEF Deploy!BeginLook, Deploy!StageLook, Deploy!EndLook, Deploy!Forget
  <2>2. Shipped' /\ Sending' /\ Compared'
    BY <1>3, <2>1, RecordStays, DeployStays
  <2>3. look' \in Looks /\ LookedAt'
    <3>1. CASE Deploy!BeginLook
      <4>1. PICK last \in Nat : last = Deploy!ultimoCommitDeploy /\ (sure # 0 => last = sure)
        BY LastOnRecord
      <4>2. /\ sure \in Nat
            /\ look' = [step |-> "counted", head |-> Len(commits), last |-> last, against |-> 0, says |-> "",
                        sure |-> sure]
        BY <3>1, <4>1 DEF Deploy!BeginLook, Deploy!NoLook, Deploy!HEAD, DeployInv, DeployTypes
      <4>3. look' \in Looks
        BY <1>0, <4>2 DEF Looks
      <4>4. ASSUME sure # 0 PROVE \E a \in sure..Len(commits) : Deploy!OnTheAir(commits[a])'
        <5>1. PICK a \in sure..Len(commits) : Deploy!OnTheAir(commits[a])
          BY <4>4 DEF DeployInv, Shipped
        <5>2. Deploy!OnTheAir(commits[a])'
          BY <2>1, <5>1 DEF Deploy!OnTheAir, Deploy!Files
        <5> QED BY <5>2
      <4>5. /\ look'.says = "" /\ look'.sure = sure /\ look'.last = last /\ look'.head = Len(commits)
            /\ Len(commits') = Len(commits)
        BY <2>1, <4>2
      <4>6. LookedAt'
        <5>1. look'.sure # 0 => \E a \in look'.sure..look'.head : Deploy!OnTheAir(commits[a])'
          BY <4>4, <4>5
        <5>2. look'.sure # 0 => look'.last = look'.sure /\ look'.head <= Len(commits')
          <6>1. sure # 0 => last = sure
            BY <4>1
          <6>2. Len(commits) <= Len(commits)
            BY <1>0
          <6>3. look'.head <= Len(commits')
            BY <4>5, <6>2
          <6> QED BY <4>5, <6>1, <6>3
        <5> QED BY <4>5, <5>1, <5>2 DEF LookedAt
      <4> QED BY <4>3, <4>6
    <3>2. ASSUME NEW answered \in BOOLEAN, Deploy!EndLook(answered) PROVE look' \in Looks /\ LookedAt'
      <4> DEFINE says == Deploy!Says(Deploy!State(answered), Deploy!Behind(l.last, l.head))
                 next == [l EXCEPT !.step = "told", !.says = says]
      <4>1. /\ says \in {"proved", "record behind", "blocks", "no proof"}
            /\ says = "proved" => Deploy!Behind(l.last, l.head) = 0
        BY DEF Deploy!Says
      <4>2. look' = next
        BY <1>2, <3>2 DEF Deploy!EndLook
      <4> HIDE DEF says
      <4>3. /\ next \in Looks /\ next.says = says /\ next.last = l.last /\ next.head = l.head /\ next.sure = l.sure
        BY <4>1 DEF Looks
      <4> HIDE DEF next
      <4>4. look'.says = "proved" => Deploy!Behind(look.last, look.head)' = 0
        BY <4>1, <4>2, <4>3 DEF Deploy!Behind
      <4>5. ASSUME l.sure # 0
            PROVE  /\ l.last = l.sure /\ l.head <= Len(commits)
                   /\ \E a \in l.sure..l.head : Deploy!OnTheAir(commits[a])'
        <5>1. PICK a \in l.sure..l.head : Deploy!OnTheAir(commits[a])
          BY <1>2, <4>5 DEF DeployInv, LookedAt
        <5>2. Deploy!OnTheAir(commits[a])'
          BY <2>1, <5>1 DEF Deploy!OnTheAir, Deploy!Files
        <5> QED BY <1>2, <4>5, <5>2 DEF DeployInv, LookedAt
      <4> QED BY <2>1, <4>2, <4>3, <4>4, <4>5 DEF LookedAt
    <3>3. CASE Deploy!Forget
      BY <3>3 DEF Deploy!Forget, Deploy!NoLook, Looks, LookedAt
    <3>4. CASE Deploy!StageLook
      <4> DEFINE next == [l EXCEPT !.step = "proving", !.against = Len(commits)]
      <4>1. look' = next
        BY <1>2, <3>4 DEF Deploy!StageLook, Deploy!HEAD
      <4>2. /\ next \in Looks /\ next.says = l.says /\ next.last = l.last /\ next.head = l.head /\ next.sure = l.sure
        BY <1>0 DEF Looks
      <4> HIDE DEF next
      <4>3. look'.says = "proved" => Deploy!Behind(look.last, look.head)' = 0
        BY <1>2, <4>1, <4>2 DEF Deploy!Behind, DeployInv, LookedAt
      <4>4. ASSUME l.sure # 0
            PROVE  /\ l.last = l.sure /\ l.head <= Len(commits)
                   /\ \E a \in l.sure..l.head : Deploy!OnTheAir(commits[a])'
        <5>1. PICK a \in l.sure..l.head : Deploy!OnTheAir(commits[a])
          BY <1>2, <4>4 DEF DeployInv, LookedAt
        <5>2. Deploy!OnTheAir(commits[a])'
          BY <2>1, <5>1 DEF Deploy!OnTheAir, Deploy!Files
        <5> QED BY <1>2, <4>4, <5>2 DEF DeployInv, LookedAt
      <4> QED BY <2>1, <4>1, <4>2, <4>3, <4>4 DEF LookedAt
    <3> QED BY <1>13, <3>1, <3>2, <3>3, <3>4
  <2> QED BY <2>1, <2>2, <2>3 DEF DeployInv, DeployTypes
<1>14. CASE UNCHANGED Deploy!vars
  <2>1. Shipped' /\ LookedAt' /\ Sending' /\ Compared'
    BY <1>3, <1>14, RecordStays, LookStays, DeployStays DEF Deploy!vars
  <2> QED BY <1>14, <2>1 DEF Deploy!vars, DeployInv, DeployTypes
<1>15. ASSUME Deploy!Next PROVE DeployInv'
  BY <1>15, <1>4, <1>5, <1>6, <1>7, <1>8, <1>9, <1>10, <1>11, <1>12, <1>13 DEF Deploy!Next
<1> QED BY <1>14, <1>15

LEMMA DeployBegins == ASSUME DeployBounds, Deploy!Init PROVE DeployInv
<1>1. Deploy!First \in SiteTrees
  <2>1. (CHOOSE c \in Put : TRUE) \in Put
    BY DEF DeployBounds
  <2> QED BY <2>1 DEF Deploy!First, SiteTrees
<1>2. commits \in Seq(SiteTrees) /\ Len(commits) = 1
  BY <1>1 DEF Deploy!Init
<1>3. deploy \in Deploys /\ look \in Looks /\ deploy.from = 0 /\ deploy.step = "idle" /\ look.says = "" /\ look.sure = 0
  BY DEF Deploy!Init, Deploy!Idle, Deploy!NoLook, Deploys, Looks
<1>4. air \in SiteTrees /\ stamp \in [Public -> 0..hours] /\ hours = 0 /\ sure = 0 /\ register = {} /\ site \in SiteTrees
  BY <1>1 DEF Deploy!Init, Deploy!None, SiteTrees
<1>5. DeployTypes
  <2>1. Len(commits) >= 1 /\ register \subseteq 1..Len(commits) /\ hours \in Nat /\ sure \in Nat
    BY <1>2, <1>4
  <2> QED BY <1>2, <1>3, <1>4, <2>1 DEF DeployTypes
<1>6. Sending /\ Compared /\ Shipped /\ LookedAt
  BY <1>3, <1>4 DEF Sending, Compared, Shipped, LookedAt
<1> QED BY <1>5, <1>6 DEF DeployInv

\* What is proved is on the air, and what waits too long is told.
LEMMA DeployTells == ASSUME DeployBounds, DeployInv PROVE Deploy!ProvedIsTrue /\ Deploy!WaitingIsTold
<1>0. Len(commits) \in Nat /\ commits[Len(commits)] \in SiteTrees
  BY DEF DeployInv, DeployTypes
<1>1. ASSUME look.says = "proved", look.sure # 0 PROVE Deploy!OnTheAir(commits[look.head])
  <2>1. PICK l \in Looks : l = look
    BY DEF DeployInv, DeployTypes
  <2>2. PICK a \in l.sure..l.head : Deploy!OnTheAir(commits[a])
    BY <1>1, <2>1 DEF DeployInv, LookedAt
  <2>3. l.sure \in Nat /\ l.head \in Nat /\ l.last \in Nat /\ l.last = l.sure /\ l.sure # 0
        /\ Deploy!Behind(l.last, l.head) = 0
    BY <1>1, <2>1 DEF DeployInv, LookedAt, Looks
  <2>4. a = l.head
    BY <2>2, <2>3 DEF Deploy!Behind, Deploy!None
  <2> QED BY <2>1, <2>2, <2>4
<1>2. ASSUME ~ Deploy!evaluateUnshippedRegistro, sure # 0 PROVE Deploy!OnTheAir(commits[Deploy!HEAD])
  <2>1. PICK a \in sure..Len(commits) : Deploy!OnTheAir(commits[a])
    BY <1>2 DEF DeployInv, Shipped
  <2>2. Deploy!ultimoCommitDeploy = sure
    BY <1>2, LastOnRecord
  <2>3. sure \in Nat /\ ~ (Len(commits) - sure > 0)
    BY <1>2, <2>2 DEF Deploy!evaluateUnshippedRegistro, Deploy!Behind, Deploy!None, Deploy!HEAD, DeployInv, DeployTypes
  <2>4. a = Len(commits)
    BY <1>0, <2>1, <2>3
  <2> QED BY <2>1, <2>4 DEF Deploy!HEAD
<1>3. ASSUME NEW f \in Deploy!Files(site), site[f] # commits[Deploy!HEAD][f], hours - stamp[f] > MaxHours
      PROVE  Deploy!Blocks
  <2> DEFINE late == Deploy!Waiting \cap Deploy!Files(site)
             ages == {stamp[g] : g \in late}
  <2>1. f \in late /\ f \in Deploy!Waiting /\ late \subseteq Public
    BY <1>3 DEF Deploy!Waiting, Deploy!Diff, Deploy!Files
  <2>2. Deploy!Dirty
    BY <1>3 DEF Deploy!Dirty
  <2>3. stamp \in [Public -> 0..hours] /\ hours \in Nat
    BY DEF DeployInv, DeployTypes
  <2>4. IsFiniteSet(late)
    BY <2>1, FS_Subset DEF DeployBounds
  <2> HIDE DEF late
  <2>5. IsFiniteSet(ages) /\ ages # {} /\ ages \in SUBSET Int /\ stamp[f] \in ages
    <3>1. IsFiniteSet(ages)
      <4>1. [g \in late |-> stamp[g]] \in Surjection(late, ages)
        BY DEF Surjection
      <4> QED BY <2>4, <4>1, FS_Surjection
    <3>2. ages \in SUBSET Int /\ stamp[f] \in ages
      BY <2>1, <2>3
    <3> QED BY <3>1, <3>2
  <2>6. Deploy!Min(ages) \in ages /\ Deploy!Min(ages) <= stamp[f]
    BY <2>5, ExtremesAreThere
  <2>7. Deploy!idadeHoras(late) = hours - Deploy!Min(ages)
    BY <2>1 DEF Deploy!idadeHoras
  <2> HIDE DEF ages
  <2>8. Deploy!idadeHoras(late) > MaxHours
    <3>1. PICK m \in Int : m = Deploy!Min(ages) /\ m <= stamp[f]
      BY <2>5, <2>6
    <3>2. stamp[f] \in Nat
      BY <2>1, <2>3
    <3> QED BY <1>3, <2>3, <2>7, <3>1, <3>2 DEF DeployBounds
  <2> QED BY <2>1, <2>2, <2>8 DEF late, Deploy!Blocks
<1> QED BY <1>1, <1>2, <1>3 DEF Deploy!ProvedIsTrue, Deploy!WaitingIsTold

(* "Production == HEAD" is told of a site that is, and a record that is not behind *)
(* is of one, if nothing was uploaded since the post of the deploy on record; and *)
(* a file that waits longer than --max-age-hours makes status fail                *)
(* (deploy-integrity pre, post, status; commitsSemDeploy of deploy-lineage).      *)
THEOREM DeploysAreTold ==
    ASSUME DeployBounds PROVE Deploy!Spec => [](Deploy!ProvedIsTrue /\ Deploy!WaitingIsTold)
<1>1. Deploy!Init => DeployInv
  BY DeployBegins
<1>2. DeployInv /\ [Deploy!Next]_Deploy!vars => DeployInv'
  BY DeployStep
<1>3. DeployInv => Deploy!ProvedIsTrue /\ Deploy!WaitingIsTold
  BY DeployTells
<1> QED BY <1>1, <1>2, <1>3, PTL DEF Deploy!Spec

-----------------------------------------------------------------------------
(***************************************************************************)
(* In MCWorkspace a component moves by itself and has its own variables,   *)
(* so that what is proved of it holds of its part, whichever part moves.   *)
(***************************************************************************)
LEMMA PartsOfTheWorkspace ==
    /\ PartSpec => Spec
    /\ PartSpec => Indexer!Spec
    /\ PartSpec => Indexer!WatchSpec
    /\ PartSpec => Deploy!Spec
<1> DEFINE all == <<part, vars, guardVars, fixerVars, diffVars, tddVars, indexVars, watchVars,
                    similarVars, graphVars, gateVars, deployVars>>
<1>1. PartInit => Init /\ Indexer!Init /\ Indexer!WatchInit /\ Deploy!Init
  BY DEF PartInit
<1>2. [PartNext]_all => [Indexer!Next]_Indexer!vars
  BY DEF PartNext, Still, Indexer!vars, Indexer!place, indexVars
<1>3. [PartNext]_all => [Indexer!WatchNext]_Indexer!watchVars
  BY DEF PartNext, Still, Indexer!watchVars, watchVars
<1>4. [PartNext]_all => [Deploy!Next]_Deploy!vars
  BY DEF PartNext, Still, Deploy!vars, deployVars
<1>5. [PartNext]_all => [Next]_vars
  BY DEF PartNext, Still
<1> QED BY <1>1, <1>2, <1>3, <1>4, <1>5, PTL DEF PartSpec, Spec, Indexer!Spec, Indexer!WatchSpec, Deploy!Spec

(* The board part stays sound: every interleaving of the commands of any number   *)
(* of processes on any board, of one read, decision or stored row at a time.      *)
THEOREM BoardPartIsSound == PartSpec => []BoardStaysSound
<1>1. TreeStaysATree /\ OneOpenPerKey /\ NoNoteLost => BoardStaysSound
  BY DEF BoardStaysSound
<1> QED BY <1>1, BoardIsSound, PartsOfTheWorkspace, PTL

(* What changes is indexed, and what is watched is told (GitAwareIndexer.         *)
(* incrementalIndex, FileWatcher.flush).                                          *)
THEOREM ChangesReachTheIndex ==
    ASSUME Debounce \in Nat \ {0} PROVE PartSpec => []NoChangeIsMissed
<1>1. Indexer!IndexFollowsTree /\ Indexer!NoChangeForgotten => NoChangeIsMissed
  BY DEF NoChangeIsMissed
<1> QED BY <1>1, PartsOfTheWorkspace, IndexKeepsUp, ChangesAreNotForgotten, PTL

(* What the gates of a deploy tell of production is so (deploy-integrity status,  *)
(* pre, post; commitsSemDeploy).                                                  *)
THEOREM GatesTellOfReleases ==
    ASSUME DeployBounds PROVE PartSpec => []ReleasesAreTold
<1>1. Deploy!ProvedIsTrue /\ Deploy!WaitingIsTold => ReleasesAreTold
  BY DEF ReleasesAreTold
<1> QED BY <1>1, PartsOfTheWorkspace, DeploysAreTold, PTL
===============================================================================
