-------------------------------- MODULE TaskLog --------------------------------
(***************************************************************************)
(* Two stores of packages/audit that several processes share: the task     *)
(* list, and the redactions of the call log.                               *)
(***************************************************************************)
EXTENDS Naturals, Sequences, SequenceTheorems, TLAPS

(***************************************************************************)
(* The task list of packages/audit (task-log.ts): a table of tasks, and an *)
(* event for every change, in a log of its own.  Each command of the CLI   *)
(* is a process; they share the two files and nothing else.                *)
(*                                                                         *)
(* Every statement is a transaction by itself, so a command is up to three *)
(* steps: read the row, write it back patched, append the event.           *)
(***************************************************************************)
CONSTANTS
    Process,    \* the commands that run at the same time
    Commands,   \* bound of the number of commands
    Task,
    Subject,
    Detail,     \* description, parent and metadata
    Status,     \* some of pending, in_progress, completed, blocked, parked and deleted
    Faults      \* among "event" (an append fails) and "crash"

Row == [status : Status, subject : Subject, detail : Detail]

\* What an event has of a row (its session and stream are told as the subject is).
Told(row) == [status |-> row.status, subject |-> row.subject]

\* Fields a patch does not give keep their values.
NotGiven == "undefined"
Patch == [status : Status \cup {NotGiven}, subject : Subject \cup {NotGiven},
          detail : Detail \cup {NotGiven}]

Apply(row, patch) ==
    [f \in {"status", "subject", "detail"} |-> IF patch[f] = NotGiven THEN row[f] ELSE patch[f]]

Kind == {"task.created", "task.updated", "task.status_changed", "task.completed", "task.deleted"}
Event == [task : Task, kind : Kind, told : [status : Status, subject : Subject],
          from : Status \cup {NotGiven}]

VARIABLES
    tasks,      \* the stored rows
    events,     \* the event log
    at,         \* where the command of a process is
    job,        \* its task, the row it read, its patch, and the row it wrote
    left,       \* commands still to come
    given,      \* history: the row every patch so far, in the order written, amounts to
    past,       \* history: the rows a task has had
    contested,  \* history: tasks that two commands have worked on at the same time
    unlogged    \* history: tasks with a change whose event was lost

vars == <<tasks, events, at, job, left, given, past, contested, unlogged>>

Job == [task : Task, seen : Row, patch : Patch, next : Row, created : BOOLEAN]

TypeOK ==
    /\ \A t \in DOMAIN tasks : tasks[t] \in Row /\ given[t] \in Row /\ past[t] \subseteq Row
    /\ DOMAIN tasks \subseteq Task /\ DOMAIN given = DOMAIN tasks /\ DOMAIN past = DOMAIN tasks
    /\ events \in Seq(Event)
    /\ at \in [Process -> {"idle", "writing", "emitting"}]
    /\ \A p \in Process : at[p] # "idle" => job[p] \in Job /\ job[p].task \in DOMAIN tasks
    /\ left \in 0..Commands
    /\ contested \subseteq DOMAIN tasks /\ unlogged \subseteq DOMAIN tasks

Init ==
    /\ tasks = <<>> /\ events = <<>> /\ given = <<>> /\ past = <<>>
    /\ at = [p \in Process |-> "idle"] /\ job = [p \in Process |-> <<>>]
    /\ left = Commands
    /\ contested = {} /\ unlogged = {}

With(f, t, v) == [x \in DOMAIN f \cup {t} |-> IF x = t THEN v ELSE f[x]]

Stored(t, row) ==
    /\ tasks' = With(tasks, t, row)
    /\ past' = With(past, t, {row} \cup IF t \in DOMAIN past THEN past[t] ELSE {})

Busy(t) == \E p \in Process : at[p] # "idle" /\ job[p].task = t

Starts(p, t) ==
    /\ at[p] = "idle" /\ left > 0 /\ left' = left - 1
    /\ contested' = IF Busy(t) THEN contested \cup {t} ELSE contested

\* create(): an id that is taken is refused by the primary key.
Create(p, t, row) ==
    /\ Starts(p, t) /\ t \notin DOMAIN tasks
    /\ Stored(t, row) /\ given' = With(given, t, row)
    /\ job' = [job EXCEPT ![p] = [task |-> t, seen |-> row, patch |-> row, next |-> row,
                                  created |-> TRUE]]
    /\ at' = [at EXCEPT ![p] = "emitting"]
    /\ UNCHANGED <<events, unlogged>>

\* update(): get() first.  A task that is not there is an error.
Read(p, t, patch) ==
    /\ Starts(p, t) /\ t \in DOMAIN tasks
    /\ job' = [job EXCEPT ![p] = [task |-> t, seen |-> tasks[t], patch |-> patch,
                                  next |-> Apply(tasks[t], patch), created |-> FALSE]]
    /\ at' = [at EXCEPT ![p] = "writing"]
    /\ UNCHANGED <<tasks, events, given, past, unlogged>>

\* Mutant: a field that was not given is cleared to the first one there is.
Write_Clears(p) ==
    LET t == job[p].task
        fresh == CHOOSE s \in Subject : TRUE
        row == [job[p].next EXCEPT !.subject = IF job[p].patch.subject = NotGiven THEN fresh ELSE @]
    IN  /\ at[p] = "writing"
        /\ Stored(t, row) /\ given' = With(given, t, Apply(given[t], job[p].patch))
        /\ at' = [at EXCEPT ![p] = "emitting"]
        /\ UNCHANGED <<events, job, left, contested, unlogged>>

\* update(): every column is written, from the row that was read.
Write(p) ==
    LET t == job[p].task IN
    /\ at[p] = "writing"
    /\ Stored(t, job[p].next) /\ given' = With(given, t, Apply(given[t], job[p].patch))
    /\ at' = [at EXCEPT ![p] = "emitting"]
    /\ UNCHANGED <<events, job, left, contested, unlogged>>

KindOf(j) ==
    IF j.created THEN "task.created"
    ELSE IF j.patch.status \in {NotGiven, j.seen.status} THEN "task.updated"
    ELSE IF j.patch.status = "completed" THEN "task.completed"
    ELSE IF j.patch.status = "deleted" THEN "task.deleted"
    ELSE "task.status_changed"

\* Mutant: the event is given the patch applied to the row as it is by now.
EventOf_Reread(j) ==
    [task |-> j.task, kind |-> KindOf(j),
     told |-> [status |-> j.next.status, subject |-> tasks[j.task].subject],
     from |-> IF KindOf(j) = "task.status_changed" THEN j.seen.status ELSE NotGiven]

\* Only a change of status that is neither completion nor deletion says from what.
EventOf(j) ==
    [task |-> j.task, kind |-> KindOf(j), told |-> Told(j.next),
     from |-> IF KindOf(j) = "task.status_changed" THEN j.seen.status ELSE NotGiven]

\* emit(): a failure to append is swallowed.
Emit(p) ==
    /\ at[p] = "emitting"
    /\ \/ events' = Append(events, EventOf(job[p])) /\ UNCHANGED unlogged
       \/ "event" \in Faults /\ unlogged' = unlogged \cup {job[p].task} /\ UNCHANGED events
    /\ at' = [at EXCEPT ![p] = "idle"]
    /\ UNCHANGED <<tasks, job, left, given, past, contested>>

Crash(p) ==
    /\ "crash" \in Faults /\ at[p] # "idle"
    /\ unlogged' = IF at[p] = "emitting" THEN unlogged \cup {job[p].task} ELSE unlogged
    /\ at' = [at EXCEPT ![p] = "idle"]
    /\ UNCHANGED <<tasks, events, job, left, given, past, contested>>

Next ==
    \E p \in Process :
       \/ \E t \in Task, row \in Row : Create(p, t, row)
       \/ \E t \in Task, patch \in Patch : Read(p, t, patch)
       \/ Write(p) \/ Emit(p) \/ Crash(p)

Spec == Init /\ [][Next]_vars

--------------------------------------------------------------------------------
\* No patch is lost: a task has the value last given for every field, as long as
\* its commands came one after the other, whatever became of those of other tasks.
NoPatchLost == \A t \in DOMAIN tasks \ contested : tasks[t] = given[t]

\* The doc: task state can be reconstructed from events.  That is so of what they
\* tell.  What an event says of a task was once so, whoever wrote since; and of a
\* task whose commands came one after the other, and whose changes all got their
\* event, the last event tells status and subject, and the kinds alone tell when the
\* status changed and, where they say it, from what.
EventsWereTrue ==
    \A i \in DOMAIN events : \E row \in past[events[i].task] : events[i].told = Told(row)

\* The events of a task, by their place in a log, and the row the last one tells of.
Own(evs, t) == {i \in DOMAIN evs : evs[i].task = t}
LastIs(evs, t, row) == \E i \in Own(evs, t) : evs[i].told = Told(row) /\ \A k \in Own(evs, t) : k <= i
Follows(evs, t, i, k) == i < k /\ \A j \in Own(evs, t) : j <= i \/ k <= j

KindsTell(evs, t) ==
    \A i, k \in Own(evs, t) : Follows(evs, t, i, k) =>
        /\ evs[k].kind = "task.updated" <=> evs[k].told.status = evs[i].told.status
        /\ evs[k].kind = "task.status_changed" => evs[k].from = evs[i].told.status

LogTellsTheTasks ==
    /\ EventsWereTrue
    /\ \A t \in DOMAIN tasks \ (contested \cup unlogged) :
          (Busy(t) \/ LastIs(events, t, tasks[t])) /\ KindsTell(events, t)

\* Neither the rows nor the log lose what the commands have given.
TaskLogIsTrue == LogTellsTheTasks /\ NoPatchLost

--------------------------------------------------------------------------------
(***************************************************************************)
(* Redaction of audit entries (redaction.ts over ledger.ts of              *)
(* packages/audit): the arguments of a call give way to a tombstone with   *)
(* their hash, and a table says who did it.  The entry is read before the  *)
(* transaction that writes both; several processes have the database open. *)
(* A hash stands for what was hashed.                                      *)
(***************************************************************************)
CONSTANTS
    Entry,      \* ids of calls
    Args,       \* arguments of calls
    Marked,     \* those with a _redacted of their own
    Requests    \* bound of the number of requests

Blank == "blank"

VARIABLES
    log,        \* audit_log: args_json of the entries
    redactions, \* audit_redactions
    redacting, seen, asked,    \* of a process: where it is, what it has read, for which request
    request,    \* number of requests so far
    original    \* history: what a call was logged with

redactionVars == <<log, redactions, redacting, seen, asked, request, original>>

Plain(a) == [args |-> a, hash |-> Blank, request |-> 0]
Tombstone(a, r) == [args |-> Blank, hash |-> a, request |-> r]

RedactionInit ==
    /\ log = [e \in {} |-> Plain(Blank)] /\ redactions = [e \in {} |-> Tombstone(Blank, 0)]
    /\ redacting = [p \in Process |-> "idle"] /\ seen = [p \in Process |-> Plain(Blank)]
    /\ asked = [p \in Process |-> [entry |-> Blank, request |-> 0]]
    /\ request = 0 /\ original = [e \in {} |-> Blank]

LogCall(e, a) ==
    /\ e \notin DOMAIN log
    /\ log' = [f \in DOMAIN log \cup {e} |-> IF f = e THEN Plain(a) ELSE log[f]]
    /\ original' = [f \in DOMAIN original \cup {e} |-> IF f = e THEN a ELSE original[f]]
    /\ UNCHANGED <<redactions, redacting, seen, asked, request>>

\* isRedacted(): arguments that say so themselves count, too.
IsRedacted(row) == row.args \in Marked \cup {Blank}

\* redactEntry() up to its transaction; an entry that is redacted is an error.
ReadEntry(p, e) ==
    /\ redacting[p] = "idle" /\ request < Requests /\ e \in DOMAIN log
    /\ request' = request + 1
    /\ seen' = [seen EXCEPT ![p] = log[e]]
    /\ asked' = [asked EXCEPT ![p] = [entry |-> e, request |-> request']]
    /\ redacting' = [redacting EXCEPT ![p] = IF IsRedacted(log[e]) THEN "idle" ELSE "read"]
    /\ UNCHANGED <<log, redactions, original>>

\* Mutant: the tombstone is written before the transaction that keeps the record.
Redact_Untied(p) ==
    LET e == asked[p].entry
        tombstone == Tombstone(seen[p].args, asked[p].request)
    IN  /\ redacting[p] = "read" /\ redacting' = [redacting EXCEPT ![p] = "idle"]
        /\ log' = [log EXCEPT ![e] = tombstone]
        /\ IF e \in DOMAIN redactions THEN UNCHANGED redactions
           ELSE redactions' = [f \in DOMAIN redactions \cup {e} |->
                                  IF f = e THEN tombstone ELSE redactions[f]]
        /\ UNCHANGED <<seen, asked, request, original>>

\* The transaction: an entry that has a record by now fails it as a whole.
Redact(p) ==
    LET e == asked[p].entry
        tombstone == Tombstone(seen[p].args, asked[p].request)
    IN  /\ redacting[p] = "read" /\ redacting' = [redacting EXCEPT ![p] = "idle"]
        /\ IF e \in DOMAIN redactions THEN UNCHANGED <<log, redactions>>
           ELSE /\ log' = [log EXCEPT ![e] = tombstone]
                /\ redactions' = [f \in DOMAIN redactions \cup {e} |->
                                     IF f = e THEN tombstone ELSE redactions[f]]
        /\ UNCHANGED <<seen, asked, request, original>>

Dies(p) ==
    /\ redacting[p] = "read" /\ redacting' = [redacting EXCEPT ![p] = "idle"]
    /\ UNCHANGED <<log, redactions, seen, asked, request, original>>

RedactionNext ==
    \/ \E e \in Entry, a \in Args \cup Marked : LogCall(e, a)
    \/ \E p \in Process : (\E e \in Entry : ReadEntry(p, e)) \/ Redact(p) \/ Dies(p)

RedactionSpec == RedactionInit /\ [][RedactionNext]_redactionVars

--------------------------------------------------------------------------------
\* Whoever redacts, and however often, an entry tells its arguments or the hash of
\* the arguments it was logged with, never the hash of a tombstone, and the record
\* of its redaction tells the same hash and the same request.
TombstoneTellsOriginal ==
    \A e \in DOMAIN log :
        IF log[e].args # Blank THEN log[e] = Plain(original[e]) /\ e \notin DOMAIN redactions
        ELSE log[e].hash = original[e] /\ e \in DOMAIN redactions /\ redactions[e] = log[e]

--------------------------------------------------------------------------------
(***************************************************************************)
(* Theorems about both stores, for any commands and requests, lost events  *)
(* and crashes.                                                            *)
(***************************************************************************)

\* A patch gives or keeps each field, and makes a row of a row.
LEMMA ApplyType ==
    ASSUME NEW row \in Row, NEW patch \in Patch
    PROVE  /\ Apply(row, patch) \in Row
           /\ Apply(row, patch).status = IF patch.status = NotGiven THEN row.status ELSE patch.status
BY DEF Apply, Row, Patch

\* Each row is a patch that gives every field.
LEMMA RowIsPatch == Row \subseteq Patch
BY DEF Row, Patch

-----------------------------------------------------------------------------
(***************************************************************************)
(* What a command knows.  It may be overtaken by another one on its task,  *)
(* but then the task is contested; until then the row it has read, and     *)
(* after that the row it has written, is the stored one.                   *)
(***************************************************************************)
Overlaps ==
    \A p, q \in Process :
        at[p] # "idle" /\ at[q] # "idle" /\ job[p].task = job[q].task =>
            p = q \/ job[p].task \in contested

Knows(p) ==
    LET j == job[p] IN
    /\ IF j.created THEN at[p] = "emitting" ELSE j.next = Apply(j.seen, j.patch)
    /\ at[p] = "emitting" => j.next \in past[j.task]
    /\ j.task \notin contested => tasks[j.task] = IF at[p] = "writing" THEN j.seen ELSE j.next

Work == DOMAIN job = Process /\ \A p \in Process : at[p] # "idle" => Knows(p)

EventsAreOfTasks == \A i \in DOMAIN events : events[i].task \in DOMAIN tasks

IInv == TypeOK /\ Overlaps /\ Work /\ NoPatchLost /\ EventsAreOfTasks /\ EventsWereTrue

LEMMA TypeInit == ASSUME Commands \in Nat, Init PROVE IInv
<1>1. DOMAIN tasks = {} /\ DOMAIN given = {} /\ DOMAIN past = {} /\ DOMAIN events = {}
  BY DEF Init
<1>2. events \in Seq(Event)
  BY DEF Init
<1>3. TypeOK
  BY <1>1, <1>2 DEF Init, TypeOK
<1> QED BY <1>1, <1>3 DEF Init, IInv, Overlaps, Work, NoPatchLost, EventsAreOfTasks, EventsWereTrue

\* What a command does to its own place and job.
LEMMA OwnStep ==
    ASSUME TypeOK, Work, NEW p \in Process, NEW where \in {"idle", "writing", "emitting"},
           at' = [at EXCEPT ![p] = where]
    PROVE  /\ at' \in [Process -> {"idle", "writing", "emitting"}] /\ at'[p] = where
           /\ \A q \in Process \ {p} : at'[q] = at[q]
           /\ \A j : job' = [job EXCEPT ![p] = j] =>
                 /\ DOMAIN job' = Process /\ job'[p] = j
                 /\ \A q \in Process \ {p} : job'[q] = job[q]
BY DEF TypeOK, Work

LEMMA CreateInv ==
    ASSUME Commands \in Nat, IInv, NEW p \in Process, NEW t \in Task, NEW row \in Row, Create(p, t, row)
    PROVE  IInv'
<1> DEFINE new == [task |-> t, seen |-> row, patch |-> row, next |-> row, created |-> TRUE]
<1>1. /\ t \notin DOMAIN tasks /\ at[p] = "idle" /\ left' = left - 1 /\ left > 0
      /\ tasks' = With(tasks, t, row) /\ given' = With(given, t, row)
      /\ job' = [job EXCEPT ![p] = new] /\ at' = [at EXCEPT ![p] = "emitting"]
      /\ UNCHANGED <<events, unlogged>>
  BY DEF Create, Starts, Stored
<1>2. past' = With(past, t, {row} \cup IF t \in DOMAIN past THEN past[t] ELSE {})
  BY DEF Create, Stored
<1>3. \A q \in Process : at[q] # "idle" => job[q] \in Job /\ job[q].task \in DOMAIN tasks /\ job[q].task # t
  BY <1>1 DEF IInv, TypeOK
<1>4. contested' = contested /\ contested \subseteq DOMAIN tasks
  BY <1>3 DEF Create, Starts, Busy, IInv, TypeOK
<1>5. /\ at' \in [Process -> {"idle", "writing", "emitting"}] /\ at'[p] = "emitting"
      /\ DOMAIN job' = Process /\ job'[p] = new
      /\ \A q \in Process \ {p} : at'[q] = at[q] /\ job'[q] = job[q]
  BY <1>1, OwnStep DEF IInv
<1>6. new \in Job
  BY RowIsPatch DEF Job
<1>7. /\ DOMAIN tasks' = DOMAIN tasks \cup {t} /\ tasks'[t] = row
      /\ DOMAIN given' = DOMAIN tasks \cup {t} /\ given'[t] = row
      /\ DOMAIN past' = DOMAIN tasks \cup {t} /\ past'[t] = {row}
      /\ \A x \in DOMAIN tasks : tasks'[x] = tasks[x] /\ given'[x] = given[x] /\ past'[x] = past[x]
  <2>1. DOMAIN given = DOMAIN tasks /\ DOMAIN past = DOMAIN tasks
    BY DEF IInv, TypeOK
  <2>2. past' = With(past, t, {row})
    BY <1>1, <1>2, <2>1
  <2> QED BY <1>1, <2>1, <2>2 DEF With
<1> HIDE DEF new
<1>8. TypeOK'
  <2>1. left' \in 0..Commands
    BY <1>1 DEF IInv, TypeOK
  <2>2. \A x \in DOMAIN tasks' : tasks'[x] \in Row /\ given'[x] \in Row /\ past'[x] \subseteq Row
    BY <1>7 DEF IInv, TypeOK
  <2>3. \A q \in Process : at'[q] # "idle" => job'[q] \in Job /\ job'[q].task \in DOMAIN tasks'
    <3>1. job'[p] \in Job /\ job'[p].task \in DOMAIN tasks'
      BY <1>5, <1>6, <1>7 DEF new
    <3> QED BY <1>3, <1>5, <1>7, <3>1
  <2> QED BY <1>1, <1>4, <1>5, <1>7, <2>1, <2>2, <2>3 DEF IInv, TypeOK
<1>9. Overlaps'
  BY <1>3, <1>4, <1>5 DEF IInv, Overlaps, new
<1>10. Work'
  <2>1. Knows(p)'
    BY <1>5, <1>7 DEF Knows, new
  <2>2. ASSUME NEW q \in Process \ {p}, at'[q] # "idle" PROVE Knows(q)'
    BY <2>2, <1>3, <1>4, <1>5, <1>7 DEF IInv, Work, Knows
  <2> QED BY <1>5, <2>1, <2>2 DEF Work
<1>11. NoPatchLost'
  BY <1>4, <1>7 DEF IInv, NoPatchLost
<1>12. EventsAreOfTasks' /\ EventsWereTrue'
  BY <1>1, <1>7 DEF IInv, EventsAreOfTasks, EventsWereTrue
<1> QED BY <1>8, <1>9, <1>10, <1>11, <1>12 DEF IInv

LEMMA ReadInv ==
    ASSUME Commands \in Nat, IInv, NEW p \in Process, NEW t \in Task, NEW patch \in Patch, Read(p, t, patch)
    PROVE  IInv'
<1> DEFINE new == [task |-> t, seen |-> tasks[t], patch |-> patch, next |-> Apply(tasks[t], patch), created |-> FALSE]
<1>1. /\ t \in DOMAIN tasks /\ at[p] = "idle" /\ left' = left - 1 /\ left > 0
      /\ job' = [job EXCEPT ![p] = new] /\ at' = [at EXCEPT ![p] = "writing"]
      /\ contested' = IF Busy(t) THEN contested \cup {t} ELSE contested
      /\ UNCHANGED <<tasks, events, given, past, unlogged>>
  BY DEF Read, Starts
<1>2. new \in Job
  BY <1>1, ApplyType DEF Job, IInv, TypeOK
<1>3. /\ at' \in [Process -> {"idle", "writing", "emitting"}] /\ at'[p] = "writing"
      /\ DOMAIN job' = Process /\ job'[p] = new
      /\ \A q \in Process \ {p} : at'[q] = at[q] /\ job'[q] = job[q]
  BY <1>1, OwnStep DEF IInv
<1>4. contested \subseteq contested' /\ contested' \subseteq DOMAIN tasks
  BY <1>1 DEF IInv, TypeOK
<1>5. /\ new.task = t /\ new.seen = tasks[t] /\ ~ new.created
      /\ new.next = Apply(new.seen, new.patch)
  OBVIOUS
<1> HIDE DEF new
<1>6. TypeOK'
  <2>1. left' \in 0..Commands
    BY <1>1 DEF IInv, TypeOK
  <2>2. \A q \in Process : at'[q] # "idle" => job'[q] \in Job /\ job'[q].task \in DOMAIN tasks'
    BY <1>1, <1>2, <1>3, <1>5 DEF IInv, TypeOK
  <2> QED BY <1>1, <1>3, <1>4, <2>1, <2>2 DEF IInv, TypeOK
<1>7. Overlaps'
  <2>1. ASSUME NEW q \in Process \ {p}, at[q] # "idle", job[q].task = t PROVE t \in contested'
    BY <1>1, <2>1 DEF Busy
  <2> QED BY <1>3, <1>4, <1>5, <2>1 DEF IInv, Overlaps
<1>8. Work'
  <2>1. Knows(p)'
    BY <1>1, <1>3, <1>5 DEF Knows
  <2>2. ASSUME NEW q \in Process \ {p}, at'[q] # "idle" PROVE Knows(q)'
    BY <2>2, <1>1, <1>3, <1>4 DEF IInv, Work, Knows
  <2> QED BY <1>3, <2>1, <2>2 DEF Work
<1>9. NoPatchLost' /\ EventsAreOfTasks' /\ EventsWereTrue'
  BY <1>1, <1>4 DEF IInv, NoPatchLost, EventsAreOfTasks, EventsWereTrue
<1> QED BY <1>6, <1>7, <1>8, <1>9 DEF IInv

\* The row that is written has every patch in it, unless the task is contested.
LEMMA WriteInv == ASSUME IInv, NEW p \in Process, Write(p) PROVE IInv'
<1> DEFINE t == job[p].task
<1>1. /\ at[p] = "writing" /\ at' = [at EXCEPT ![p] = "emitting"]
      /\ tasks' = With(tasks, t, job[p].next) /\ given' = With(given, t, Apply(given[t], job[p].patch))
      /\ UNCHANGED <<events, job, left, contested, unlogged>>
  BY DEF Write, Stored
<1>2. past' = With(past, t, {job[p].next} \cup IF t \in DOMAIN past THEN past[t] ELSE {})
  BY DEF Write, Stored
<1>3. job[p] \in Job /\ t \in DOMAIN tasks /\ t \in Task /\ job[p].next \in Row /\ job[p].patch \in Patch
  BY <1>1 DEF IInv, TypeOK, Job
<1>4. /\ DOMAIN tasks' = DOMAIN tasks /\ tasks'[t] = job[p].next
      /\ DOMAIN given' = DOMAIN tasks /\ given'[t] = Apply(given[t], job[p].patch)
      /\ DOMAIN past' = DOMAIN tasks /\ past'[t] = {job[p].next} \cup past[t]
      /\ \A x \in DOMAIN tasks \ {t} : tasks'[x] = tasks[x] /\ given'[x] = given[x] /\ past'[x] = past[x]
  <2>1. DOMAIN given = DOMAIN tasks /\ DOMAIN past = DOMAIN tasks
    BY DEF IInv, TypeOK
  <2>2. past' = With(past, t, {job[p].next} \cup past[t])
    BY <1>2, <1>3, <2>1
  <2>3. DOMAIN tasks \cup {t} = DOMAIN tasks
    BY <1>3
  <2> HIDE DEF t
  <2> QED BY <1>1, <2>1, <2>2, <2>3 DEF With
<1>5. Knows(p) /\ ~ job[p].created /\ job[p].next = Apply(job[p].seen, job[p].patch)
  BY <1>1 DEF IInv, Work, Knows
<1>6. /\ at' \in [Process -> {"idle", "writing", "emitting"}] /\ at'[p] = "emitting"
      /\ \A q \in Process \ {p} : at'[q] = at[q]
  BY <1>1, OwnStep DEF IInv
<1>7. \A q \in Process \ {p} : at[q] # "idle" /\ job[q].task = t => t \in contested
  BY <1>1 DEF IInv, Overlaps
<1> HIDE DEF t
<1>8. TypeOK'
  <2>1. \A x \in DOMAIN tasks' : tasks'[x] \in Row /\ given'[x] \in Row /\ past'[x] \subseteq Row
    BY <1>3, <1>4, ApplyType DEF IInv, TypeOK
  <2> QED BY <1>1, <1>4, <1>6, <2>1 DEF IInv, TypeOK
<1>9. Overlaps'
  BY <1>1, <1>6 DEF IInv, Overlaps
<1>10. Work'
  <2>1. Knows(p)'
    BY <1>1, <1>4, <1>5, <1>6 DEF Knows, t
  <2>2. ASSUME NEW q \in Process \ {p}, at'[q] # "idle" PROVE Knows(q)'
    <3>1. Knows(q) /\ at'[q] = at[q] /\ job'[q] = job[q] /\ job[q].task \in DOMAIN tasks
      BY <2>2, <1>1, <1>6 DEF IInv, Work, TypeOK
    <3>2. CASE job[q].task = t
      BY <2>2, <3>1, <3>2, <1>1, <1>4, <1>7 DEF Knows
    <3>3. CASE job[q].task # t
      BY <3>1, <3>3, <1>1, <1>4 DEF Knows
    <3> QED BY <3>2, <3>3
  <2> QED BY <1>1, <2>1, <2>2 DEF IInv, Work
<1>11. NoPatchLost'
  <2>1. t \notin contested => tasks'[t] = given'[t]
    BY <1>1, <1>3, <1>4, <1>5 DEF IInv, NoPatchLost, Knows, t
  <2> QED BY <1>1, <1>4, <2>1 DEF IInv, NoPatchLost
<1>12. EventsAreOfTasks' /\ EventsWereTrue'
  BY <1>1, <1>4 DEF IInv, EventsAreOfTasks, EventsWereTrue
<1> QED BY <1>8, <1>9, <1>10, <1>11, <1>12 DEF IInv

LEMMA EventType ==
    ASSUME NEW j \in Job
    PROVE  /\ EventOf(j) \in Event
           /\ EventOf(j).task = j.task /\ EventOf(j).told = Told(j.next)
           /\ EventOf(j).kind = "task.status_changed" => EventOf(j).from = j.seen.status
<1>1. KindOf(j) \in Kind
  BY DEF KindOf, Kind
<1>2. j.task \in Task /\ j.seen \in Row /\ j.next \in Row
  BY DEF Job
<1>3. j.seen.status \in Status /\ Told(j.next) \in [status : Status, subject : Subject]
  BY <1>2 DEF Row, Told
<1> QED BY <1>1, <1>2, <1>3 DEF EventOf, Event

\* A command that ends, with its event or without.
LEMMA EndInv == ASSUME IInv, NEW p \in Process, Emit(p) \/ Crash(p) PROVE IInv'
<1>1. /\ at[p] # "idle" /\ at' = [at EXCEPT ![p] = "idle"]
      /\ UNCHANGED <<tasks, job, left, given, past, contested>>
      /\ unlogged' \in {unlogged, unlogged \cup {job[p].task}}
      /\ events' = events \/ (at[p] = "emitting" /\ events' = Append(events, EventOf(job[p])))
  BY DEF Emit, Crash
<1>2. job[p] \in Job /\ job[p].task \in DOMAIN tasks /\ Knows(p)
  BY <1>1 DEF IInv, TypeOK, Work
<1>3. /\ at' \in [Process -> {"idle", "writing", "emitting"}] /\ at'[p] = "idle"
      /\ \A q \in Process \ {p} : at'[q] = at[q]
  BY <1>1, OwnStep DEF IInv
<1>4. events' \in Seq(Event) /\ EventsAreOfTasks' /\ EventsWereTrue'
  <2>1. CASE events' = events
    BY <2>1, <1>1 DEF IInv, TypeOK, EventsAreOfTasks, EventsWereTrue
  <2>2. CASE at[p] = "emitting" /\ events' = Append(events, EventOf(job[p]))
    <3> DEFINE e == EventOf(job[p])
    <3>1. e \in Event /\ e.task \in DOMAIN tasks /\ (\E row \in past[e.task] : e.told = Told(row))
      BY <1>2, <2>2, EventType DEF Knows
    <3>2. events \in Seq(Event)
      BY DEF IInv, TypeOK
    <3> HIDE DEF e
    <3>3. /\ events' \in Seq(Event) /\ DOMAIN events' = 1..Len(events) + 1
          /\ \A i \in DOMAIN events' : events'[i] = e \/ (i \in DOMAIN events /\ events'[i] = events[i])
      BY <2>2, <3>1, <3>2 DEF e
    <3>4. \A i \in DOMAIN events' : events'[i].task \in DOMAIN tasks /\ \E row \in past[events'[i].task] : events'[i].told = Told(row)
      BY <3>1, <3>3 DEF IInv, EventsAreOfTasks, EventsWereTrue
    <3> QED BY <1>1, <3>3, <3>4 DEF EventsAreOfTasks, EventsWereTrue
  <2> QED BY <1>1, <2>1, <2>2
<1>5. TypeOK'
  BY <1>1, <1>2, <1>3, <1>4 DEF IInv, TypeOK
<1>6. Overlaps'
  BY <1>1, <1>3 DEF IInv, Overlaps
<1>7. Work'
  BY <1>1, <1>3 DEF IInv, Work, Knows
<1>8. NoPatchLost'
  BY <1>1 DEF IInv, NoPatchLost
<1> QED BY <1>4, <1>5, <1>6, <1>7, <1>8 DEF IInv

LEMMA StepInv == ASSUME Commands \in Nat, IInv, [Next]_vars PROVE IInv'
<1>1. CASE Next
  BY <1>1, CreateInv, ReadInv, WriteInv, EndInv DEF Next
<1>2. CASE UNCHANGED vars
  BY <1>2 DEF vars, IInv, TypeOK, Overlaps, Work, Knows, NoPatchLost, EventsAreOfTasks, EventsWereTrue
<1> QED BY <1>1, <1>2

-----------------------------------------------------------------------------
(***************************************************************************)
(* The course of a task.  While a command is at work on it alone, the last *)
(* event of the task carries the row the command has read; so the next one *)
(* goes on from there.                                                     *)
(***************************************************************************)
Continues ==
    \A t \in DOMAIN tasks \ (contested \cup unlogged) :
        /\ KindsTell(events, t)
        /\ Busy(t) \/ LastIs(events, t, tasks[t])
        /\ \A p \in Process : at[p] # "idle" /\ job[p].task = t =>
              IF job[p].created THEN Own(events, t) = {} ELSE LastIs(events, t, job[p].seen)

LEMMA StartContinues ==
    ASSUME IInv, Continues, NEW p \in Process, NEW t \in Task,
           (\E row \in Row : Create(p, t, row)) \/ (\E patch \in Patch : Read(p, t, patch))
    PROVE  Continues'
<1>1. /\ at[p] = "idle" /\ UNCHANGED <<events, unlogged>> /\ job'[p].task = t
      /\ contested' = IF Busy(t) THEN contested \cup {t} ELSE contested
      /\ at'[p] # "idle" /\ \A q \in Process \ {p} : at'[q] = at[q] /\ job'[q] = job[q]
  BY DEF Create, Read, Starts, IInv, TypeOK, Work
<1>2. \/ /\ t \notin DOMAIN tasks /\ DOMAIN tasks' = DOMAIN tasks \cup {t} /\ job'[p].created
         /\ \A x \in DOMAIN tasks : tasks'[x] = tasks[x]
      \/ t \in DOMAIN tasks /\ tasks' = tasks /\ ~ job'[p].created /\ job'[p].seen = tasks[t]
  <2>1. CASE \E row \in Row : Create(p, t, row)
    <3>1. PICK row \in Row : Create(p, t, row)
      BY <2>1
    <3>2. /\ t \notin DOMAIN tasks /\ tasks' = With(tasks, t, row)
          /\ job' = [job EXCEPT ![p] = [task |-> t, seen |-> row, patch |-> row, next |-> row, created |-> TRUE]]
      BY <3>1 DEF Create, Stored
    <3> QED BY <3>2 DEF With, IInv, Work
  <2>2. CASE \E patch \in Patch : Read(p, t, patch)
    BY <2>2 DEF Read, IInv, Work
  <2> QED BY <2>1, <2>2
<1>3. ASSUME NEW x \in DOMAIN tasks' \ (contested' \cup unlogged')
      PROVE  /\ KindsTell(events, x)
             /\ (\E q \in Process : at'[q] # "idle" /\ job'[q].task = x) \/ LastIs(events, x, tasks'[x])
             /\ \A q \in Process : at'[q] # "idle" /\ job'[q].task = x =>
                   IF job'[q].created THEN Own(events, x) = {} ELSE LastIs(events, x, job'[q].seen)
  <2>1. CASE x # t
    <3>1. x \in DOMAIN tasks \ (contested \cup unlogged) /\ tasks'[x] = tasks[x]
      BY <1>1, <1>2, <1>3, <2>1
    <3>2. Busy(x) => \E q \in Process : at'[q] # "idle" /\ job'[q].task = x
      BY <1>1 DEF Busy
    <3> QED BY <1>1, <2>1, <3>1, <3>2 DEF Continues
  <2>2. CASE x = t /\ t \notin DOMAIN tasks
    <3>1. Own(events, t) = {}
      BY <2>2 DEF Own, IInv, EventsAreOfTasks
    <3>2. KindsTell(events, t)
      BY <3>1 DEF KindsTell
    <3>3. \A q \in Process \ {p} : at[q] # "idle" => job[q].task # t
      BY <2>2 DEF IInv, TypeOK
    <3> QED BY <1>1, <1>2, <2>2, <3>1, <3>2, <3>3
  <2>3. CASE x = t /\ t \in DOMAIN tasks
    <3>1. ~ Busy(t) /\ t \in DOMAIN tasks \ (contested \cup unlogged)
      BY <1>1, <1>3, <2>3
    <3>2. KindsTell(events, t) /\ LastIs(events, t, tasks[t])
      BY <3>1 DEF Continues
    <3>3. \A q \in Process \ {p} : at[q] # "idle" => job[q].task # t
      BY <3>1 DEF Busy
    <3> QED BY <1>1, <1>2, <2>3, <3>2, <3>3
  <2> QED BY <2>1, <2>2, <2>3
<1> QED BY <1>1, <1>3 DEF Continues, Busy

LEMMA WriteContinues == ASSUME IInv, Continues, NEW p \in Process, Write(p) PROVE Continues'
<1> DEFINE t == job[p].task
<1>1. /\ at[p] = "writing" /\ UNCHANGED <<events, job, contested, unlogged>>
      /\ tasks' = With(tasks, t, job[p].next)
      /\ \A q \in Process : at'[q] # "idle" <=> at[q] # "idle"
  BY DEF Write, Stored, IInv, TypeOK
<1>2. t \in DOMAIN tasks
  BY <1>1 DEF IInv, TypeOK
<1>3. DOMAIN tasks' = DOMAIN tasks /\ \A x \in DOMAIN tasks \ {t} : tasks'[x] = tasks[x]
  BY <1>1, <1>2 DEF With
<1>4. \E q \in Process : at[q] # "idle" /\ job[q].task = t
  BY <1>1
<1> HIDE DEF t
<1>5. ASSUME NEW x \in DOMAIN tasks \ (contested \cup unlogged)
      PROVE  /\ KindsTell(events, x)
             /\ (\E q \in Process : at[q] # "idle" /\ job[q].task = x) \/ LastIs(events, x, tasks'[x])
             /\ \A q \in Process : at[q] # "idle" /\ job[q].task = x =>
                   IF job[q].created THEN Own(events, x) = {} ELSE LastIs(events, x, job[q].seen)
  BY <1>3, <1>4 DEF Continues, Busy
<1> QED BY <1>1, <1>3, <1>5 DEF Continues, Busy

\* An event that is appended leaves what the log tells of other tasks.
LEMMA AppendedToOthers ==
    ASSUME NEW evs \in Seq(Event), NEW e \in Event, NEW t, t # e.task
    PROVE  LET new == Append(evs, e) IN
           /\ Own(new, t) = Own(evs, t)
           /\ KindsTell(evs, t) => KindsTell(new, t)
           /\ \A row : LastIs(evs, t, row) => LastIs(new, t, row)
<1> DEFINE new == Append(evs, e)
<1>1. DOMAIN new = DOMAIN evs \cup {Len(evs) + 1} /\ new[Len(evs) + 1] = e
      /\ \A i \in DOMAIN evs : new[i] = evs[i]
  OBVIOUS
<1> HIDE DEF new
<1>2. Own(new, t) = Own(evs, t) /\ \A i \in Own(evs, t) : new[i] = evs[i]
  BY <1>1 DEF Own
<1>3. ASSUME KindsTell(evs, t), NEW i \in Own(evs, t), NEW k \in Own(evs, t), Follows(new, t, i, k)
      PROVE  /\ new[k].kind = "task.updated" <=> new[k].told.status = new[i].told.status
             /\ new[k].kind = "task.status_changed" => new[k].from = new[i].told.status
  BY <1>2, <1>3 DEF KindsTell, Follows
<1>4. KindsTell(evs, t) => KindsTell(new, t)
  BY <1>2, <1>3 DEF KindsTell
<1>5. \A row : LastIs(evs, t, row) => LastIs(new, t, row)
  BY <1>2 DEF LastIs
<1> QED BY <1>2, <1>4, <1>5 DEF new

\* It is the last one of its own task, and follows the one that was last.
LEMMA AppendedToOwn ==
    ASSUME NEW evs \in Seq(Event), NEW e \in Event
    PROVE  LET new == Append(evs, e)
               t == e.task
           IN  /\ \A row : e.told = Told(row) => LastIs(new, t, row)
               /\ KindsTell(evs, t) /\ Own(evs, t) = {} => KindsTell(new, t)
               /\ \A row :
                     /\ KindsTell(evs, t) /\ LastIs(evs, t, row)
                     /\ e.kind = "task.status_changed" => e.from = row.status
                     /\ e.kind = "task.updated" <=> e.told.status = row.status
                     => KindsTell(new, t)
<1> DEFINE new == Append(evs, e)
           t == e.task
           n == Len(evs)
           own == Own(evs, t)
<1>1. n \in Nat /\ own \subseteq 1..n
  BY DEF Own
<1>2. /\ DOMAIN evs = 1..n /\ DOMAIN new = 1..n + 1 /\ new[n + 1] = e
      /\ \A i \in 1..n : new[i] = evs[i]
  OBVIOUS
<1> HIDE DEF n, new
<1>3. Own(new, t) = own \cup {n + 1} /\ \A i \in own : new[i] = evs[i]
  BY <1>1, <1>2 DEF Own
<1> HIDE DEF own
<1>4. \A row : e.told = Told(row) => LastIs(new, t, row)
  <2>1. \A k \in own \cup {n + 1} : k <= n + 1
    BY <1>1
  <2> QED BY <1>2, <1>3, <2>1 DEF LastIs
<1>5. ASSUME KindsTell(evs, t),
             NEW i \in own, NEW k \in own, Follows(new, t, i, k)
      PROVE  /\ new[k].kind = "task.updated" <=> new[k].told.status = new[i].told.status
             /\ new[k].kind = "task.status_changed" => new[k].from = new[i].told.status
  BY <1>3, <1>5 DEF KindsTell, Follows, own
<1>6. ASSUME NEW i \in own \cup {n + 1}, NEW k \in own \cup {n + 1}, Follows(new, t, i, k)
      PROVE  i \in own /\ (k = n + 1 => \A j \in own : j <= i)
  BY <1>1, <1>3, <1>6 DEF Follows
<1>7. KindsTell(evs, t) /\ own = {} => KindsTell(new, t)
  BY <1>3, <1>6 DEF KindsTell
<1>8. ASSUME NEW row, KindsTell(evs, t), LastIs(evs, t, row),
             e.kind = "task.status_changed" => e.from = row.status,
             e.kind = "task.updated" <=> e.told.status = row.status
      PROVE  KindsTell(new, t)
  <2>1. PICK last \in own : evs[last].told = Told(row) /\ \A j \in own : j <= last
    BY <1>8 DEF LastIs, own
  <2>2. ASSUME NEW i \in own \cup {n + 1}, NEW k \in own \cup {n + 1}, Follows(new, t, i, k)
        PROVE  /\ new[k].kind = "task.updated" <=> new[k].told.status = new[i].told.status
               /\ new[k].kind = "task.status_changed" => new[k].from = new[i].told.status
    <3>1. CASE k \in own
      BY <1>5, <1>6, <1>8, <2>2, <3>1
    <3>2. CASE k = n + 1
      <4>1. i \in own /\ i = last
        BY <1>1, <1>6, <2>1, <2>2, <3>2
      <4>2. new[k] = e /\ new[i].told.status = row.status
        BY <1>2, <1>3, <2>1, <3>2, <4>1 DEF Told
      <4> QED BY <1>8, <4>2
    <3> QED BY <3>1, <3>2
  <2> QED BY <1>3, <2>2 DEF KindsTell
<1> QED BY <1>4, <1>7, <1>8 DEF new, own

\* A command that ends.  One that dies before it has written leaves the row it read.
LEMMA EndContinues ==
    ASSUME IInv, Continues, NEW p \in Process, Emit(p) \/ Crash(p)
    PROVE  Continues'
<1> DEFINE j == job[p]
           t == j.task
           new == Append(events, EventOf(j))
<1>1. /\ at[p] # "idle" /\ at'[p] = "idle" /\ \A q \in Process \ {p} : at'[q] = at[q]
      /\ UNCHANGED <<tasks, job, contested>>
      /\ \/ at[p] = "emitting" /\ events' = new /\ unlogged' = unlogged
         \/ events' = events /\ unlogged' = unlogged \cup {t}
         \/ at[p] = "writing" /\ events' = events /\ unlogged' = unlogged
  BY DEF Emit, Crash, IInv, TypeOK
<1>2. j \in Job /\ t \in DOMAIN tasks /\ Knows(p) /\ events \in Seq(Event)
  BY <1>1 DEF IInv, TypeOK, Work
<1>3. /\ EventOf(j) \in Event
      /\ EventOf(j).task = t /\ EventOf(j).told = Told(j.next)
      /\ EventOf(j).kind = "task.status_changed" => EventOf(j).from = j.seen.status
  BY <1>2, EventType
<1>4. \A q \in Process \ {p} : at[q] # "idle" /\ job[q].task = t => t \in contested
  BY <1>1 DEF IInv, Overlaps
<1>5. ASSUME NEW x \in DOMAIN tasks \ (contested \cup unlogged')
      PROVE  /\ KindsTell(events', x)
             /\ (\E q \in Process : at'[q] # "idle" /\ job[q].task = x) \/ LastIs(events', x, tasks[x])
             /\ \A q \in Process : at'[q] # "idle" /\ job[q].task = x =>
                   IF job[q].created THEN Own(events', x) = {} ELSE LastIs(events', x, job[q].seen)
  <2>1. /\ x \in DOMAIN tasks \ (contested \cup unlogged) /\ KindsTell(events, x)
        /\ Busy(x) \/ LastIs(events, x, tasks[x])
        /\ \A q \in Process : at[q] # "idle" /\ job[q].task = x =>
              IF job[q].created THEN Own(events, x) = {} ELSE LastIs(events, x, job[q].seen)
    BY <1>1, <1>5 DEF Continues
  <2>2. CASE x # t
    <3>1. /\ Own(events', x) = Own(events, x)
          /\ KindsTell(events', x)
          /\ \A row : LastIs(events, x, row) => LastIs(events', x, row)
      <4>1. CASE events' = events
        BY <2>1, <4>1
      <4>2. CASE events' = new
        BY <1>2, <1>3, <2>1, <2>2, <4>2, AppendedToOthers
      <4> QED BY <1>1, <4>1, <4>2
    <3>2. Busy(x) => \E q \in Process : at'[q] # "idle" /\ job[q].task = x
      BY <1>1, <2>2 DEF Busy
    <3>3. \A q \in Process : at'[q] # "idle" => at[q] # "idle"
      BY <1>1
    <3> HIDE DEF j
    <3> QED BY <2>1, <3>1, <3>2, <3>3
  <2>3. CASE x = t
    <3>1. /\ t \notin contested /\ \A q \in Process : at'[q] # "idle" => job[q].task # t
          /\ tasks[t] = IF at[p] = "writing" THEN j.seen ELSE j.next
      BY <1>1, <1>2, <1>4, <1>5, <2>3 DEF Knows
    <3>2. KindsTell(events', t) /\ LastIs(events', t, tasks[t])
      <4>1. CASE at[p] = "writing" /\ events' = events
        BY <1>1, <1>2, <2>1, <2>3, <3>1, <4>1 DEF Knows
      <4>2. CASE at[p] = "emitting" /\ events' = new
        <5>1. LastIs(new, t, j.next)
          BY <1>2, <1>3, AppendedToOwn
        <5>2. KindsTell(new, t)
          <6>1. CASE j.created
            BY <1>1, <1>2, <1>3, <2>1, <2>3, <6>1, AppendedToOwn
          <6>2. CASE ~ j.created
            <7>1. LastIs(events, t, j.seen)
              BY <1>1, <2>1, <2>3, <6>2
            <7>2. EventOf(j).kind = "task.updated" <=> j.next.status = j.seen.status
              BY <1>2, <6>2, ApplyType DEF Knows, KindOf, EventOf, Job, Patch, Row
            <7>3. EventOf(j).told.status = j.next.status
              BY <1>3 DEF Told
            <7> QED BY <1>2, <1>3, <2>1, <2>3, <7>1, <7>2, <7>3, AppendedToOwn
          <6> QED BY <6>1, <6>2
        <5> QED BY <3>1, <4>2, <5>1, <5>2
      <4>3. CASE unlogged' = unlogged \cup {t}
        BY <1>5, <2>3, <4>3
      <4> QED BY <1>1, <4>1, <4>2, <4>3
    <3> QED BY <2>3, <3>1, <3>2
  <2> QED BY <2>2, <2>3
<1> HIDE DEF j, new
<1> QED BY <1>1, <1>5 DEF Continues, Busy

(***************************************************************************)
(* A task has the value last given for every field, unless two commands    *)
(* worked on it at the same time (update(): read, then write every column).*)
(* What an event says of a task was once so.  The log tells a task whose   *)
(* commands came one after the other and all got their event: its last     *)
(* event tells status and subject of the row, and the kinds tell when the  *)
(* status changed (update(): the kind is chosen from the row read and the  *)
(* patch).                                                                 *)
(***************************************************************************)
THEOREM LogIsTrue == ASSUME Commands \in Nat PROVE Spec => []TaskLogIsTrue
<1>1. Init => IInv /\ Continues
  <2>1. Init => DOMAIN tasks = {}
    BY DEF Init
  <2> QED BY <2>1, TypeInit DEF Continues
<1>2. IInv /\ Continues /\ [Next]_vars => IInv' /\ Continues'
  <2> SUFFICES ASSUME IInv, Continues, [Next]_vars PROVE Continues'
    BY StepInv
  <2>1. CASE Next
    BY <2>1, StartContinues, WriteContinues, EndContinues DEF Next
  <2>2. CASE UNCHANGED vars
    BY <2>2 DEF vars, Continues, Busy
  <2> QED BY <2>1, <2>2
<1>3. IInv /\ Continues => TaskLogIsTrue
  BY DEF IInv, Continues, TaskLogIsTrue, LogTellsTheTasks
<1> QED BY <1>1, <1>2, <1>3, PTL DEF Spec

-----------------------------------------------------------------------------
(***************************************************************************)
(* Redactions.  Whoever is about to redact has read what the call was      *)
(* logged with, as no tombstone passes isRedacted(); another process may   *)
(* have redacted the entry since, but then the record refuses a second one.*)
(***************************************************************************)
RedactionIInv ==
    /\ DOMAIN original = DOMAIN log /\ \A e \in DOMAIN log : original[e] # Blank
    /\ DOMAIN redactions \subseteq DOMAIN log
    /\ DOMAIN redacting = Process /\ DOMAIN seen = Process /\ DOMAIN asked = Process
    /\ \A p \in Process : redacting[p] = "read" =>
          /\ asked[p].entry \in DOMAIN log
          /\ seen[p].args = original[asked[p].entry]
    /\ TombstoneTellsOriginal

LEMMA LogCallInv ==
    ASSUME Blank \notin Args \cup Marked, RedactionIInv, NEW e \in Entry, NEW a \in Args \cup Marked,
           LogCall(e, a)
    PROVE  RedactionIInv'
<1>1. /\ e \notin DOMAIN log /\ DOMAIN log' = DOMAIN log \cup {e} /\ DOMAIN original' = DOMAIN log'
      /\ log'[e] = Plain(a) /\ original'[e] = a
      /\ \A f \in DOMAIN log : log'[f] = log[f] /\ original'[f] = original[f]
      /\ UNCHANGED <<redactions, redacting, seen, asked>>
  BY DEF LogCall, RedactionIInv
<1>2. TombstoneTellsOriginal'
  BY <1>1 DEF RedactionIInv, TombstoneTellsOriginal, Plain
<1> QED BY <1>1, <1>2 DEF RedactionIInv

LEMMA ReadEntryInv ==
    ASSUME RedactionIInv, NEW p \in Process, NEW e \in Entry, ReadEntry(p, e)
    PROVE  RedactionIInv'
<1>1. /\ e \in DOMAIN log /\ UNCHANGED <<log, redactions, original>>
      /\ DOMAIN redacting' = Process /\ DOMAIN seen' = Process /\ DOMAIN asked' = Process
      /\ seen'[p] = log[e] /\ asked'[p].entry = e
      /\ redacting'[p] = "read" => log[e].args # Blank
      /\ \A q \in Process \ {p} :
            redacting'[q] = redacting[q] /\ seen'[q] = seen[q] /\ asked'[q] = asked[q]
  BY DEF ReadEntry, RedactionIInv, IsRedacted
<1>2. redacting'[p] = "read" => seen'[p].args = original[e]
  BY <1>1 DEF RedactionIInv, TombstoneTellsOriginal, Plain
<1> QED BY <1>1, <1>2 DEF RedactionIInv, TombstoneTellsOriginal

LEMMA RedactInv ==
    ASSUME RedactionIInv, NEW p \in Process, Redact(p) \/ Dies(p)
    PROVE  RedactionIInv'
<1> DEFINE e == asked[p].entry
           tombstone == Tombstone(seen[p].args, asked[p].request)
<1>1. /\ redacting[p] = "read" /\ DOMAIN redacting' = Process
      /\ \A q \in Process : redacting'[q] = "read" => redacting[q] = "read"
      /\ UNCHANGED <<seen, asked, original>>
  BY DEF Redact, Dies, RedactionIInv
<1>2. e \in DOMAIN log /\ tombstone.args = Blank /\ tombstone.hash = original[e]
  BY <1>1 DEF RedactionIInv, Tombstone
<1> HIDE DEF e, tombstone
<1>3. DOMAIN log' = DOMAIN log /\ TombstoneTellsOriginal'
  <2>1. CASE UNCHANGED <<log, redactions>>
    BY <1>1, <2>1 DEF RedactionIInv, TombstoneTellsOriginal
  <2>2. CASE /\ log' = [log EXCEPT ![e] = tombstone]
             /\ redactions' = [f \in DOMAIN redactions \cup {e} |->
                                  IF f = e THEN tombstone ELSE redactions[f]]
    <3>1. /\ DOMAIN log' = DOMAIN log /\ log'[e] = tombstone /\ redactions'[e] = tombstone
          /\ e \in DOMAIN redactions'
          /\ \A f \in DOMAIN log \ {e} : log'[f] = log[f]
          /\ \A f : f # e => (f \in DOMAIN redactions' <=> f \in DOMAIN redactions)
          /\ \A f \in DOMAIN redactions \ {e} : redactions'[f] = redactions[f]
      BY <1>2, <2>2
    <3> QED BY <1>1, <1>2, <3>1 DEF RedactionIInv, TombstoneTellsOriginal, Plain
  <2> QED BY <2>1, <2>2 DEF Redact, Dies, e, tombstone
<1>4. DOMAIN redactions' \subseteq DOMAIN log'
  BY <1>2, <1>3 DEF RedactionIInv, Redact, Dies, e
<1> QED BY <1>1, <1>3, <1>4 DEF RedactionIInv

(***************************************************************************)
(* An entry tells its arguments or the hash of them, and its record tells  *)
(* the same redaction (redactEntry(): the entry is read before the         *)
(* transaction that writes both).  Arguments are not the tombstone's.      *)
(***************************************************************************)
THEOREM RedactionsTellOriginals ==
    ASSUME Blank \notin Args \cup Marked
    PROVE  RedactionSpec => []TombstoneTellsOriginal
<1>1. RedactionInit => RedactionIInv
  BY DEF RedactionInit, RedactionIInv, TombstoneTellsOriginal
<1>2. RedactionIInv /\ [RedactionNext]_redactionVars => RedactionIInv'
  <2>1. RedactionIInv /\ RedactionNext => RedactionIInv'
    BY LogCallInv, ReadEntryInv, RedactInv DEF RedactionNext
  <2>2. RedactionIInv /\ UNCHANGED redactionVars => RedactionIInv'
    BY DEF redactionVars, RedactionIInv, TombstoneTellsOriginal
  <2> QED BY <2>1, <2>2
<1>3. RedactionIInv => TombstoneTellsOriginal
  BY DEF RedactionIInv
<1> QED BY <1>1, <1>2, <1>3, PTL DEF RedactionSpec
================================================================================
