-------------------------------- MODULE Ingest ---------------------------------
(***************************************************************************)
(* Taking sources into firm memory (packages/atrium): the session files of *)
(* a coding agent, and a folder in Drive.                                  *)
(***************************************************************************)
EXTENDS Naturals, FiniteSets, Sequences, SequencesExt, FiniteSetsExt

(***************************************************************************)
(* `batiste-fm ingest cc-sessions` of packages/atrium: the turns of every  *)
(* session file become facts, one operation per file and several at a time *)
(* (utils/parallel-bridge.ts), each put inside withAudit().  A file is     *)
(* read from the line its checkpoint tells.  Sessions go on while this     *)
(* happens, so that the last line of a file may be half written; another   *)
(* command may run, which loads all checkpoints, and saves them when it    *)
(* ends; and a process may be killed.  Parsing, scrubbing and titles are   *)
(* left out: a fact is known by its file and line.                         *)
(***************************************************************************)
CONSTANTS
    File, Lines,        \* session files, and how long they may become
    Process,
    Concurrency,
    MaxTurns,           \* --max-turns; 0 is no cap
    Runs, Faults        \* bounds: runs, and crashes or puts that fail

VARIABLES
    lines,              \* by file: "turn", "other" or "half"
    facts,              \* Firm Memory
    ledger,             \* the fm.facts.put entries of the audit ledger
    saved,              \* checkpoints.json, by file; 0 when there is none
    run,                \* by process: the command, its checkpoints and its counter
    op,                 \* by process and file
    left                \* runs and faults to come

vars == <<lines, facts, ledger, saved, run, op, left>>

Idle == [is |-> "idle"]
NoMarks == [f \in File |-> 0]
Waiting == [f \in File |-> [at |-> "waiting"]]

Init ==
    /\ lines \in [File -> {<<>>, <<"turn">>}]
    /\ facts = {} /\ ledger = {} /\ saved = NoMarks
    /\ run = [p \in Process |-> Idle] /\ op = [p \in Process |-> Waiting]
    /\ left = [runs |-> Runs, faults |-> Faults]

--------------------------------------------------------------------------------

\* A session goes on: a line comes whole, or in two parts.
Grow(f, kind) ==
    /\ IF lines[f] # <<>> /\ Last(lines[f]) = "half"
       THEN kind # "half" /\ lines' = [lines EXCEPT ![f][Len(lines[f])] = kind]
       ELSE Len(lines[f]) < Lines /\ lines' = [lines EXCEPT ![f] = Append(@, kind)]
    /\ UNCHANGED <<facts, ledger, saved, run, op, left>>

\* loadCheckpoints().  An "other" command has no use for the lines of sessions.
Begin(p, command) ==
    /\ run[p] = Idle /\ left.runs > 0 /\ left' = [left EXCEPT !.runs = @ - 1]
    /\ run' = [run EXCEPT ![p] = [is |-> command, marks |-> saved, processed |-> 0]]
    /\ op' = [op EXCEPT ![p] = Waiting]
    /\ UNCHANGED <<lines, facts, ledger, saved>>

Active(p) == {f \in File : op[p][f].at \notin {"waiting", "done"}}
Capped(p) == MaxTurns > 0 /\ run[p].processed >= MaxTurns

\* readTurnsFromFile(): what cannot be parsed, or says nothing, is passed over.
Turns(f, from) == {n \in 1..Len(lines[f]) : n > from /\ lines[f][n] = "turn"}

Becomes(p, f, o) == op' = [op EXCEPT ![p][f] = o]

Read(p, f) ==
    /\ run[p].is = "sessions" /\ op[p][f].at = "waiting" /\ Cardinality(Active(p)) < Concurrency
    /\ LET turns == Turns(f, run[p].marks[f])
       IN  Becomes(p, f, IF Capped(p) \/ turns = {} THEN [at |-> "done"]
                         ELSE [at |-> "turn", todo |-> turns, last |-> run[p].marks[f],
                               read |-> Len(lines[f])])
    /\ UNCHANGED <<lines, facts, ledger, saved, run, left>>

\* Mutant: the checkpoint is how far the file was read.
Reached_Read(o) == o.read

Reached(o) == o.last

\* The next turn, unless the cap is reached; after the last one the checkpoint is set,
\* and with those of all files it goes out to be written.
Check(p, f) ==
    /\ op[p][f].at = "turn"
    /\ IF op[p][f].todo = {} \/ Capped(p)
       THEN LET marks == [run[p].marks EXCEPT ![f] = Reached(op[p][f])]
            IN  /\ run' = [run EXCEPT ![p].marks = marks]
                /\ Becomes(p, f, [at |-> "saving", marks |-> marks])
       ELSE /\ Becomes(p, f, [op[p][f] EXCEPT !.at = "get"]) /\ UNCHANGED run
    /\ UNCHANGED <<lines, facts, ledger, saved, left>>

\* The turns of a file are taken one after the other, as its lines are.
Turn(p, f) == Min(op[p][f].todo)

Advance(p, f) ==
    /\ Becomes(p, f, [at |-> "turn", todo |-> op[p][f].todo \ {Turn(p, f)}, last |-> Turn(p, f),
                      read |-> op[p][f].read])
    /\ run' = [run EXCEPT ![p].processed = @ + 1]

FactOf(p, f) == <<f, Turn(p, f)>>

Get(p, f) ==
    /\ op[p][f].at = "get"
    /\ IF FactOf(p, f) \in facts THEN Advance(p, f)
       ELSE Becomes(p, f, [op[p][f] EXCEPT !.at = "put"]) /\ UNCHANGED run
    /\ UNCHANGED <<lines, facts, ledger, saved, left>>

\* The function withAudit() is given.
Put(p, f) ==
    /\ op[p][f].at = "put"
    /\ facts' = facts \cup {FactOf(p, f)}
    /\ Becomes(p, f, [op[p][f] EXCEPT !.at = "append"])
    /\ UNCHANGED <<lines, ledger, saved, run, left>>

\* It throws: the entry says so, the operation fails, and its file keeps its checkpoint.
PutFails(p, f) ==
    /\ op[p][f].at = "put" /\ left.faults > 0 /\ left' = [left EXCEPT !.faults = @ - 1]
    /\ ledger' = ledger \cup {FactOf(p, f)}
    /\ Becomes(p, f, [at |-> "done"])
    /\ UNCHANGED <<lines, facts, saved, run>>

\* `finally`: the entry is appended when the function has ended.
Record(p, f) ==
    /\ op[p][f].at = "append"
    /\ ledger' = ledger \cup {FactOf(p, f)}
    /\ Advance(p, f)
    /\ UNCHANGED <<lines, facts, saved, left>>

--------------------------------------------------------------------------------

Writes == {w \in Process \X File : op[w[1]][w[2]].at = "saving"}

\* writeFile() is done.  One that meets another leaves what cannot be parsed, perhaps,
\* which loads as no checkpoints at all.
Save(p, f) ==
    /\ op[p][f].at = "saving"
    /\ saved' \in {op[p][f].marks} \cup (IF Cardinality(Writes) > 1 THEN {NoMarks} ELSE {})
    /\ Becomes(p, f, [at |-> "done"])
    /\ UNCHANGED <<lines, facts, ledger, run, left>>

End(p) ==
    /\ run[p].is = "sessions" /\ \A f \in File : op[p][f].at = "done"
    /\ run' = [run EXCEPT ![p] = Idle] /\ op' = [op EXCEPT ![p] = Waiting]
    /\ UNCHANGED <<lines, facts, ledger, saved, left>>

\* Another source: at its end it saves the checkpoints it had loaded, and its own.
EndOther(p) ==
    /\ run[p].is = "other"
    /\ saved' \in {run[p].marks} \cup (IF Writes # {} THEN {NoMarks} ELSE {})
    /\ run' = [run EXCEPT ![p] = Idle]
    /\ UNCHANGED <<lines, facts, ledger, op, left>>

\* A file that was being written is as it was, as it should be, or of no use.
Crash(p) ==
    /\ run[p] # Idle /\ left.faults > 0 /\ left' = [left EXCEPT !.faults = @ - 1]
    /\ saved' \in {saved} \cup UNION {{op[p][f].marks, NoMarks} : f \in {g \in File : <<p, g>> \in Writes}}
    /\ run' = [run EXCEPT ![p] = Idle] /\ op' = [op EXCEPT ![p] = Waiting]
    /\ UNCHANGED <<lines, facts, ledger>>

Next ==
    \/ \E f \in File, kind \in {"turn", "other", "half"} : Grow(f, kind)
    \/ \E p \in Process, command \in {"sessions", "other"} : Begin(p, command)
    \/ \E p \in Process, f \in File :
            \/ Read(p, f) \/ Check(p, f) \/ Get(p, f) \/ Put(p, f) \/ PutFails(p, f)
            \/ Record(p, f) \/ Save(p, f)
    \/ \E p \in Process : End(p) \/ EndOther(p) \/ Crash(p)

Spec == Init /\ [][Next]_vars

--------------------------------------------------------------------------------

(* "Idempotent if interrupted; resume from the saved checkpoint" (l.12): no turn *)
(* is lost.  Whatever runs overlap, fail or are killed, a turn at or before the *)
(* checkpoint of its file is in Firm Memory, for the next run will not read it. *)
CheckpointIsCovered ==
    \A f \in File, n \in 1..Lines :
        n <= saved[f] /\ lines[f][n] = "turn" => <<f, n>> \in facts

--------------------------------------------------------------------------------
(***************************************************************************)
(* Taking a Drive folder into firm memory (commands/ingest-drive.ts and    *)
(* utils/drive-client.ts).  A run asks for the files modified after        *)
(* the mark of the last one, page by page while people go on editing,      *)
(* projects each to a fact, and only when all are stored saves the newest  *)
(* time it saw as the mark.  A fact is told by the time it was read at,    *)
(* which its body has in it.                                               *)
(***************************************************************************)
CONSTANTS
    Doc,        \* files of the folder, numbered by their names
    DocsAPage,  \* files on a page of the listing at most (200 in the code)
    Edits,      \* how often somebody edits a file
    Syncs       \* how often the command is run

VARIABLES
    modified,   \* [Doc -> modifiedTime, 0 while it is not there]
    trashed,
    imported,   \* [Doc -> the modifiedTime in the body of its fact, 0 for none]
    mark,       \* the mark in checkpoints.json, 0 for none
    sync,       \* the run: its step, the listing so far, and what of it is still to be stored
    edits,
    syncs

driveVars == <<modified, trashed, imported, mark, sync, edits, syncs>>
folder == <<modified, trashed, edits>>

NoSync == [step |-> "idle", floor |-> 0, files |-> {}, todo |-> {}, last |-> 0]

DriveInit ==
    /\ modified = [f \in Doc |-> 0] /\ trashed = {}
    /\ imported = [f \in Doc |-> 0] /\ mark = 0
    /\ sync = NoSync /\ edits = 0 /\ syncs = 0

\* Somebody edits a file, or puts it there; Drive gives every edit a later time.
Edit(f) ==
    /\ edits < Edits /\ f \notin trashed
    /\ edits' = edits + 1
    /\ modified' = [modified EXCEPT ![f] = edits + 1]
    /\ UNCHANGED <<trashed, imported, mark, sync, syncs>>

Trash(f) ==
    /\ modified[f] > 0 /\ f \notin trashed
    /\ trashed' = trashed \cup {f}
    /\ UNCHANGED <<modified, edits, imported, mark, sync, syncs>>

\* The checkpoints are read first; what follows is asked for with their mark.
BeginSync ==
    /\ sync.step = "idle" /\ syncs < Syncs
    /\ sync' = [NoSync EXCEPT !.step = "listing", !.floor = mark]
    /\ syncs' = syncs + 1
    /\ UNCHANGED <<folder, imported, mark>>

\* What the listing has left: files after the floor that are not in the bin, and
\* that come after the pages before.
Rest(floor, files) ==
    {f \in Doc \ trashed : modified[f] > floor /\ \A g \in files : modified[f] > g.time}

\* Mutant: the listing comes in the order of the names.
Pages_ByName(rest) ==
    {page \in SUBSET rest : /\ Cardinality(page) <= DocsAPage
                            /\ \A f \in page, g \in rest : g < f => g \in page}

\* A page has the oldest of them, as many as the service cares to send.
Pages(rest) ==
    {page \in SUBSET rest : /\ Cardinality(page) <= DocsAPage
                            /\ \A f \in page, g \in rest : modified[g] < modified[f] => g \in page}

\* listFolderFiles(), one request; there is no token for a next page after the last one.
ListPage ==
    /\ sync.step = "listing"
    /\ LET rest == Rest(sync.floor, sync.files)
       IN  \E page \in Pages(rest) :
              LET files == sync.files \cup {[doc |-> f, time |-> modified[f]] : f \in page}
              IN  sync' = IF page # rest THEN [sync EXCEPT !.files = files]
                          ELSE [sync EXCEPT !.step = "importing", !.files = files, !.todo = files]
    /\ UNCHANGED <<folder, imported, mark, syncs>>

\* One file, in the order of the listing: the fact is put unless it says the same.  A
\* file that is listed twice moves the mark to be by the time of its first entry.
Import ==
    /\ sync.step = "importing"
    /\ \E file \in sync.todo : \E first \in sync.files :
          /\ \A g \in sync.todo : file.time <= g.time
          /\ first.doc = file.doc /\ \A g \in sync.files : g.doc = file.doc => first.time <= g.time
          /\ imported' = [imported EXCEPT ![file.doc] = file.time]
          /\ sync' = [sync EXCEPT !.todo = @ \ {file}, !.last = Max({@, first.time})]
    /\ UNCHANGED <<folder, mark, syncs>>

\* Every file is stored: the mark is saved, if there was a file at all.
Finish ==
    /\ sync.step = "importing" /\ sync.todo = {}
    /\ mark' = IF sync.last > 0 THEN sync.last ELSE mark
    /\ sync' = NoSync
    /\ UNCHANGED <<folder, imported, syncs>>

\* A request or a put fails and the command ends, or it is killed; --dry-run ends
\* it before anything is stored.
Stop ==
    /\ sync.step # "idle"
    /\ sync' = NoSync
    /\ UNCHANGED <<folder, imported, mark, syncs>>

DriveNext ==
    \/ \E f \in Doc : Edit(f) \/ Trash(f)
    \/ BeginSync \/ ListPage \/ Import \/ Finish \/ Stop

DriveSpec == DriveInit /\ [][DriveNext]_driveVars

-----------------------------------------------------------------------------
\* No file is passed over: what was last edited at or before the mark is in the
\* memory as it is, though files are edited between the pages and runs end
\* anywhere (listFolderFiles: oldest first; registerIngestDrive: the mark last).
MarkIsCovered ==
    \A f \in Doc \ trashed : modified[f] \in 1..mark => imported[f] = modified[f]
================================================================================
