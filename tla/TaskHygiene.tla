------------------------------ MODULE TaskHygiene -----------------------------
(***************************************************************************)
(* The gate at the end of a session, tasklog-hygiene.mjs, over tasks that  *)
(* agents go on with and whose owner does what the gate prints: renew,     *)
(* archive, merge, close (packages/code: handler.ts, task-actions.ts,      *)
(* task-merge.ts).  The gate reads all tasks in one go; its commands are   *)
(* run later, one by one.  Time is in half days, so that a date, which is  *)
(* a whole day, and a moment are not the same.                             *)
(***************************************************************************)
EXTENDS Integers, SequencesExt, Relation

CONSTANTS
    Label, Like, Short, Common, \* as in TaskSimilarity
    Boards,                 \* lists of tasks there may be at first, the oldest first
    Product, Tagged, Named, \* by label: products of its tags, and those its words name
    StaleDays, RunningHours, RenewMaxDays,
    Horizon, Moves          \* bounds: of the clock, and of what agents do

VARIABLES
    now,
    tasks,                  \* the task log
    products,               \* by product: "live", or not what was committed
    advice,                 \* commands of the last report that have not been run
    unjudged,               \* naoVerificadas
    groups,                 \* history: tasks the last report found to be one, by advice alone
    left,                   \* moves left
    since                   \* history: when a task was last moved, or renewed, by somebody

vars == <<now, tasks, products, advice, unjudged, groups, left, since>>

Never == -1
Day(time) == time \div 2

Init ==
    /\ now = 0 /\ tasks \in Boards
    /\ products = [p \in Product |-> "stale"]
    /\ advice = {} /\ unjudged = {} /\ groups = {} /\ left = Moves
    /\ since = [i \in DOMAIN tasks |-> [moved |-> 0, renewed |-> Never]]

IsOpen(t) == t.status \in {"pending", "running"}
OpenIds == {i \in DOMAIN tasks : IsOpen(tasks[i])}
SameLabel(i, j) == Label[tasks[i].label].text = Label[tasks[j].label].text

-------------------------------------------------------------------------------
(***************************************************************************)
(* What agents do: manage_task update, renew, close                        *)
(***************************************************************************)
Becomes(i, new) == tasks' = [tasks EXCEPT ![i] = [new EXCEPT !.updatedAt = now]]
Moved(i) == since' = [since EXCEPT ![i].moved = now]
Move == left > 0 /\ left' = left - 1
TasksOnly == Move /\ UNCHANGED <<now, products, advice, unjudged, groups>>

Note(i) == i \in OpenIds /\ Becomes(i, tasks[i]) /\ UNCHANGED since /\ TasksOnly

Phases == <<"todo", "doing", "built">>
Onward(phase) == CASE phase = "todo" -> "doing" [] OTHER -> "built"
Advance(i) ==
    /\ i \in OpenIds /\ tasks[i].phase # "built"
    /\ Becomes(i, [tasks[i] EXCEPT !.phase = Onward(@), !.progressAt = now]) /\ Moved(i) /\ TasksOnly

Start(i) ==
    /\ tasks[i].status = "pending"
    /\ Becomes(i, [tasks[i] EXCEPT !.status = "running", !.progressAt = now]) /\ Moved(i) /\ TasksOnly

\* capUntil(): whole days from this moment to the beginning of that date.
Accepted(until) == (2 * until - now) \div 2 <= RenewMaxDays

Renew(i, until) ==
    /\ i \in OpenIds /\ Accepted(until)
    /\ Becomes(i, [tasks[i] EXCEPT !.until = until, !.renewedAt = now])
    /\ since' = [since EXCEPT ![i].renewed = now] /\ TasksOnly

Close(i) ==
    /\ i \in OpenIds
    /\ Becomes(i, [tasks[i] EXCEPT !.status = "completed", !.phase = "built"])
    /\ groups' = {g \in groups : i \notin g}
    /\ Move /\ UNCHANGED <<now, products, advice, unjudged, since>>

Ship(p, to) ==
    /\ products' = [products EXCEPT ![p] = to]
    /\ Move /\ UNCHANGED <<now, tasks, advice, unjudged, groups, since>>

Tick == now < Horizon /\ now' = now + 1 /\ UNCHANGED <<tasks, products, advice, unjudged, groups, left, since>>

-------------------------------------------------------------------------------
(***************************************************************************)
(* violacoesDeIdade()                                                      *)
(***************************************************************************)
\* Mutant: any touch makes a task young.
ultimoProgresso_Touched(t) == t.updatedAt
ultimoProgresso(t) == IF t.progressAt # Never THEN t.progressAt ELSE t.updatedAt

idade(t) == IF ultimoProgresso(t) = Never THEN 0 ELSE Day(now - ultimoProgresso(t))

\* renovacaoVigente(): neither over nor further ahead than it may be.
renovacaoVigente(t) ==
    /\ t.until # Never /\ t.until >= Day(now)
    /\ t.until <= Day((IF t.renewedAt = Never THEN now ELSE t.renewedAt) + 2 * RenewMaxDays)

\* A task of unknown age is left alone.
Orphan(t) == t.status = "running" /\ 12 * (now - t.updatedAt) > RunningHours
Overdue == {i \in OpenIds : LET t == tasks[i] IN
    t.updatedAt # Never /\ ~ renovacaoVigente(t) /\ (Orphan(t) \/ idade(t) > StaleDays)}

-------------------------------------------------------------------------------
(***************************************************************************)
(* violacoesDeDuplicata(), violacoesDeCorrelatas()                         *)
(***************************************************************************)
Elder(i) == \A j \in OpenIds : SameLabel(i, j) => i <= j
Duplicates == {i \in OpenIds : ~ Elder(i)}

\* The engine of task-similarity.ts, on all tasks and on those that other labels are like.
All == INSTANCE TaskSimilarity WITH clusters <- {}, candidates <- <<>>, hosts <- <<>>, MinGroup <- 0
Strong == {p \in ToSet(All!Pairs(All!Same)) : ~ SameLabel(p[1], p[2])}
InStrong(i) == \E p \in Strong : i \in {p[1], p[2]}
Alike == INSTANCE TaskSimilarity WITH
    tasks <- [i \in DOMAIN tasks |-> IF InStrong(i) THEN tasks[i] ELSE [tasks[i] EXCEPT !.status = "out"]],
    clusters <- {}, candidates <- <<>>, hosts <- <<>>, MinGroup <- 0

\* Mutant: the target's own copies are merged as well.
Merges_Copies == UNION {{<<i, c.target>> : i \in DOMAIN c.merges} : c \in Alike!Clusters}

\* A copy of the target is a duplicate, which the other rule sees to.
Merges == UNION {{<<i, c.target>> : i \in {i \in DOMAIN c.merges : ~ SameLabel(i, c.target)}} : c \in Alike!Clusters}

\* Tasks that are one for the two rules together.
Groups ==
    LET one == [p \in OpenIds \X OpenIds |->
                   SameLabel(p[1], p[2]) \/ \E c \in Alike!Clusters : {p[1], p[2]} \subseteq c.members]
        linked == TransitiveClosure(one, OpenIds)
    IN  {g \in {{j \in OpenIds : linked[i, j]} : i \in OpenIds} : Cardinality(g) > 1}

-------------------------------------------------------------------------------
(***************************************************************************)
(* violacoesFaltaPublicado(): the text says that a deploy is missing.      *)
(* Tags settle which product; words alone make it a candidate.             *)
(***************************************************************************)
Candidates(t) == Tagged[t.label] \cup Named[t.label]
Settled(t)    == IF Tagged[t.label] # {} THEN Tagged[t.label] ELSE Candidates(t)

\* proveReal(): live and nothing outside the commit.
Proved(p) == products[p] = "live"
SaysMissing == {i \in OpenIds : tasks[i].saysMissing}
Published == {i \in SaysMissing : Settled(tasks[i]) # {} /\ \A p \in Settled(tasks[i]) : Proved(p)}

\* verificar(): what is printed, as commands; a candidate's is only to be looked at.
Command(does, task, into) == [does |-> does, task |-> task, into |-> into]
Check ==
    /\ advice' = {Command("archive", i, 0) : i \in Duplicates}
            \cup {Command("merge", m[1], m[2]) : m \in Merges}
            \cup {Command("close", i, 0) : i \in {i \in Published : Tagged[tasks[i].label] # {}}}
    /\ unjudged' = SaysMissing \ Published
    /\ groups' = Groups
    /\ UNCHANGED <<now, tasks, products, left, since>>

-------------------------------------------------------------------------------
(***************************************************************************)
(* The owner runs a command.  A task that is completed is not archived,    *)
(* and only open tasks are merged; what is refused has been run.           *)
(***************************************************************************)
Archived(i) ==
    IF tasks[i].status = "completed" THEN tasks
    ELSE [tasks EXCEPT ![i].status = "failed", ![i].updatedAt = now]

\* planMerge(): the target takes over the phase that is further.
Merged(i, into) ==
    IF ~ IsOpen(tasks[i]) \/ ~ IsOpen(tasks[into]) THEN tasks
    ELSE [tasks EXCEPT ![i].status = "failed", ![i].updatedAt = now, ![into].updatedAt = now,
            ![into].phase = IF All!PhaseRank[tasks[i].phase] > All!PhaseRank[@] THEN tasks[i].phase ELSE @]

Closed(i) ==
    IF ~ IsOpen(tasks[i]) THEN tasks
    ELSE [tasks EXCEPT ![i].status = "completed", ![i].phase = "verified", ![i].updatedAt = now]

Follow(c) ==
    /\ c \in advice /\ advice' = advice \ {c}
    /\ tasks' = CASE c.does = "archive" -> Archived(c.task)
                  [] c.does = "merge"   -> Merged(c.task, c.into)
                  [] c.does = "close"   -> Closed(c.task)
    /\ groups' = {g \in groups : ~ (c.does = "close" /\ c.task \in g)}
    /\ UNCHANGED <<now, products, unjudged, left, since>>

Next ==
    \/ Tick \/ Check
    \/ \E i \in DOMAIN tasks : Note(i) \/ Advance(i) \/ Start(i) \/ Close(i)
    \/ \E i \in DOMAIN tasks, days \in 0..RenewMaxDays + 1 : Renew(i, Day(now) + days)
    \/ \E p \in Product, to \in {"live", "stale"} : Ship(p, to)
    \/ \E c \in advice : Follow(c)

Spec == Init /\ [][Next]_vars

-------------------------------------------------------------------------------
(***************************************************************************)
(* Whatever part of a report is followed, in any order, while agents go on *)
(* with their tasks, something of what was found to be one stays open: the *)
(* two rules, which keep different tasks, never close all of them.         *)
(***************************************************************************)
OneIsKept == \A g \in groups : \E i \in g : IsOpen(tasks[i])

(***************************************************************************)
(* A task that nobody moves is named in the end, whatever notes it gets:   *)
(* silence lasts for the limit of age, or as long as one renewal.  Not so  *)
(* tasks from before progress was recorded, which notes keep young.        *)
(***************************************************************************)
SilenceEnds ==
    \A i \in OpenIds :
        /\ tasks[i].progressAt # Never
        /\ Day(now - since[i].moved) > StaleDays
        /\ since[i].renewed # Never => Day(now) > Day(since[i].renewed) + RenewMaxDays
        => i \in Overdue
===============================================================================
