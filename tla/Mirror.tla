-------------------------------- MODULE Mirror --------------------------------
(***************************************************************************)
(* Two things that Atrium runs beside firm memory: its mirror in Drive, and*)
(* the runs that the wizard starts.                                        *)
(***************************************************************************)
EXTENDS Naturals, Sequences, FiniteSets, SequencesExt

(***************************************************************************)
(* The disaster-recovery mirror of firm memory (atrium: utils/bundle.ts,   *)
(* commands/sync-drive.ts).  push reads the files of the root one after    *)
(* the other, with no lock, while an ingest may write them, and uploads    *)
(* one sealed bundle; restore writes the files of a bundle to a directory. *)
(* memory.db is what SQLite has moved there: what was committed since is   *)
(* in its write-ahead log, which no bundle has.  Facts are numbered in the *)
(* order they come, and the mark is the last one an ingest has done.       *)
(***************************************************************************)
CONSTANTS
    MaxFacts,   \* facts there are to take in
    Secret,     \* passphrases
    Bundles,    \* bundles uploaded at most
    Faults      \* crashes of an ingest or a restore

VARIABLES
    memory,     \* facts in memory.db
    wal,        \* facts committed and still in its log only
    saved,      \* the mark in checkpoints.json
    open,       \* an ingest has the memory open
    at,         \* the last fact it has stored
    push,       \* the push: files still to be read, and what it has
    drive,      \* the bundles in the folder, the newest last
    restore,    \* the restore: files still to be written, and the bundle
    faults,
    torn        \* history: the root was restored from what was not whole, or not to the end

vars == <<memory, wal, saved, open, at, push, drive, restore, faults, torn>>
root == <<memory, wal, saved>>
mirror == <<push, drive, restore>>

Bundle == [memory |-> {}, saved |-> 0, quiet |-> TRUE, secret |-> CHOOSE s \in Secret : TRUE]
Foreign == [Bundle EXCEPT !.secret = "none"]
NoPush == [files |-> <<>>, busy |-> FALSE, bundle |-> Bundle]
NoRestore == [files |-> <<>>, bundle |-> Bundle]

Init ==
    /\ memory = {} /\ wal = {} /\ saved = 0 /\ open = FALSE /\ at = 0
    /\ push = NoPush /\ drive = <<>> /\ restore = NoRestore
    /\ faults = 0 /\ torn = FALSE

\* An ingest: it takes up after the mark, stores facts, saves the mark now and then,
\* and SQLite empties the log when it is closed, or before.
Open ==
    /\ ~ open
    /\ open' = TRUE /\ at' = saved
    /\ torn' = (torn \/ restore.files # <<>>)
    /\ UNCHANGED <<root, mirror, faults>>

Store ==
    /\ open /\ at < MaxFacts
    /\ at' = at + 1 /\ wal' = wal \cup {at + 1}
    /\ UNCHANGED <<memory, saved, open, mirror, faults, torn>>

SaveMark ==
    /\ open /\ saved' = at
    /\ UNCHANGED <<memory, wal, open, at, mirror, faults, torn>>

EmptyLog ==
    /\ open
    /\ memory' = memory \cup wal /\ wal' = {}
    /\ open' \in BOOLEAN
    /\ UNCHANGED <<saved, at, mirror, faults, torn>>

Crash ==
    /\ open /\ faults < Faults
    /\ open' = FALSE /\ faults' = faults + 1
    /\ UNCHANGED <<root, at, mirror, torn>>

\* The files of the default includes, sorted by path.
Packed_AsListed == <<"memory.db", "vector", ".audit", "checkpoints.json">>
Packed == <<".audit", "checkpoints.json", "memory.db", "vector">>

Push(secret) ==
    /\ ~ push.busy
    /\ push' = [files |-> Packed, busy |-> TRUE, bundle |-> [Bundle EXCEPT !.secret = secret]]
    /\ UNCHANGED <<root, open, at, drive, restore, faults, torn>>

\* History: nobody is at the root, and it is whole.
Quiet == ~ open /\ wal = {} /\ ~ torn /\ restore.files = <<>>

\* packFmDir(), one file.
Pack ==
    /\ push.files # <<>>
    /\ push' = [push EXCEPT !.files = Tail(@),
          !.bundle = CASE Head(push.files) = "memory.db" -> [@ EXCEPT !.memory = memory]
                       [] Head(push.files) = "checkpoints.json" ->
                            [@ EXCEPT !.saved = saved, !.quiet = Quiet]
                       [] OTHER -> @]
    /\ UNCHANGED <<root, open, at, drive, restore, faults, torn>>

\* The bundle is sealed and uploaded, or the upload fails, or was not asked for.
Upload ==
    /\ push.busy /\ push.files = <<>>
    /\ push' = NoPush
    /\ \/ drive' = drive
       \/ Len(drive) < Bundles /\ drive' = Append(drive, push.bundle)
    /\ UNCHANGED <<root, open, at, restore, faults, torn>>

\* Somebody puts another file in the folder.
PutForeign ==
    /\ Len(drive) < Bundles
    /\ drive' = Append(drive, Foreign)
    /\ UNCHANGED <<root, open, at, push, restore, faults, torn>>

\* A bundle is opened before anything is written: a file that is none, or another
\* passphrase, ends the command there.  Nothing looks whether the memory is open.
Opened(b, secret) == b.secret = secret

\* History: a push that is under way has met a restore.
Overtaken == IF push.busy THEN [push EXCEPT !.bundle.quiet = FALSE] ELSE push

\* restore --confirm: over the live root.
RestoreLive(secret) ==
    /\ restore.files = <<>>
    /\ \E b \in ToSet(drive) :
          /\ Opened(b, secret)
          /\ restore' = [files |-> Packed, bundle |-> b]
          /\ torn' = (torn \/ open \/ wal # {} \/ ~ b.quiet)
    /\ push' = Overtaken
    /\ UNCHANGED <<root, open, at, drive, faults>>

\* writeUnpackedBundle(), one file.
Unpack ==
    /\ restore.files # <<>>
    /\ CASE Head(restore.files) = "memory.db" -> memory' = restore.bundle.memory /\ UNCHANGED saved
         [] Head(restore.files) = "checkpoints.json" -> saved' = restore.bundle.saved /\ UNCHANGED memory
         [] OTHER -> UNCHANGED <<memory, saved>>
    /\ restore' = IF Len(restore.files) = 1 THEN NoRestore ELSE [restore EXCEPT !.files = Tail(@)]
    /\ UNCHANGED <<wal, open, at, push, drive, faults, torn>>

BreakOff ==
    /\ restore.files # <<>> /\ faults < Faults
    /\ restore' = NoRestore /\ faults' = faults + 1 /\ torn' = TRUE
    /\ UNCHANGED <<root, open, at, push, drive>>

\* restore to a directory beside the root, and the swap by hand it tells of.
RestoreBeside(secret) ==
    /\ ~ open /\ restore.files = <<>>
    /\ \E b \in ToSet(drive) :
          /\ Opened(b, secret)
          /\ memory' = b.memory /\ wal' = {} /\ saved' = b.saved
          /\ torn' = ~ b.quiet
    /\ push' = Overtaken
    /\ UNCHANGED <<open, at, drive, restore, faults>>

Next ==
    \/ Open \/ Store \/ SaveMark \/ EmptyLog \/ Crash
    \/ Pack \/ Upload \/ PutForeign \/ Unpack \/ BreakOff
    \/ \E secret \in Secret : Push(secret) \/ RestoreLive(secret) \/ RestoreBeside(secret)

Spec == Init /\ [][Next]_vars

-----------------------------------------------------------------------------
\* What the mark says is done is in the memory, also after a restore, from every
\* bundle whose checkpoints were read while nobody had the memory open and it was
\* whole, whatever an ingest did during the rest of the push, if nothing was restored
\* then: the mark is packed before the rows it tells of, which is what the sort in
\* packFmDir() makes of the list.
MarkIsStored == (~ torn /\ restore.files = <<>>) => 1..saved \subseteq memory \cup wal

-----------------------------------------------------------------------------
(***************************************************************************)
(* The wizard's registry of ingestion runs and their event streams         *)
(* (packages/atrium/src/ui/server.ts).  A run is a child process whose two *)
(* pipes are cut into lines; each line is an event, kept in a bounded      *)
(* buffer and sent to the clients that listen.  A client that comes late   *)
(* gets the buffer first.  A text is a sequence of pieces, 0 a line break. *)
(***************************************************************************)
CONSTANTS
    Run,        \* the runs that may be asked for
    Client,     \* connections to /api/events
    Lines,      \* what a process may write, per pipe: a set of texts
    Cap         \* the replay buffer (500 in the code)

VARIABLES
    runs,       \* [Run -> the RunHandle]
    child,      \* [Run -> the process and its pipes]
    feed,       \* [Client -> what the connection was sent]
    posts,      \* runs whose request body is still being read
    stopping,   \* close() was called
    told        \* history: [Run -> every event emitted]

wizardVars == <<runs, child, feed, posts, stopping, told>>

Pipe == {"stdout", "stderr"}
Done == [from |-> "done", line |-> <<>>]
SpawnError == [from |-> "error", line |-> <<>>]
NoHandle == [exists |-> FALSE, buffered |-> <<>>, finished |-> FALSE, subscribers |-> {}, killed |-> FALSE]
Unborn == [state |-> "unborn", pipe |-> [p \in Pipe |-> <<>>], read |-> [p \in Pipe |-> <<>>],
           pending |-> [p \in Pipe |-> <<>>], ended |-> [p \in Pipe |-> FALSE]]
Idle == [state |-> "idle", run |-> CHOOSE r \in Run : TRUE, got |-> <<>>, missed |-> 0]

WizardInit ==
    /\ runs = [r \in Run |-> NoHandle]
    /\ child = [r \in Run |-> Unborn]
    /\ feed = [c \in Client |-> Idle]
    /\ posts = {}
    /\ stopping = FALSE
    /\ told = [r \in Run |-> <<>>]

Breaks(text) == SetToSortSeq({i \in DOMAIN text : text[i] = 0}, <)
\* The complete lines of a text; an empty one is no event.
FullLines(text) ==
    LET nl == Breaks(text)
        from(k) == IF k = 1 THEN 1 ELSE nl[k - 1] + 1
    IN SelectSeq([k \in DOMAIN nl |-> SubSeq(text, from(k), nl[k] - 1)], LAMBDA l : l # <<>>)
\* What follows the last line break.
Rest(text) == IF Breaks(text) = <<>> THEN text ELSE SubSeq(text, Last(Breaks(text)) + 1, Len(text))
Events(p, lines) == [k \in DOMAIN lines |-> [from |-> p, line |-> lines[k]]]

Newest(s) == IF Len(s) > Cap THEN SubSeq(s, Len(s) - Cap + 1, Len(s)) ELSE s

\* emit(), once for each of evs: buffered, capped, and written to whoever listens.
\* "done" ends the response; a second one comes after the end and is not sent.
Emit(r, evs, finished, handle) ==
    LET ends == Done \in ToSet(evs)
        sent == IF ends THEN SubSeq(evs, 1, CHOOSE i \in DOMAIN evs : evs[i] = Done /\ \A j \in 1..i - 1 : evs[j] # Done)
                        ELSE evs
    IN  /\ runs' = [runs EXCEPT ![r] = [handle EXCEPT !.buffered = Newest(@ \o evs), !.finished = finished]]
        /\ told' = [told EXCEPT ![r] = @ \o evs]
        /\ feed' = [c \in Client |->
              IF c \in handle.subscribers /\ feed[c].state = "open"
              THEN [feed[c] EXCEPT !.got = @ \o sent, !.state = IF ends THEN "ended" ELSE "open"]
              ELSE feed[c]]

\* POST /api/run arrives; its body is read before anything else is done.
Post(r) ==
    /\ ~ stopping /\ ~ runs[r].exists /\ r \notin posts
    /\ posts' = posts \cup {r}
    /\ UNCHANGED <<runs, child, feed, stopping, told>>

\* startRun(): the body is there, whatever happened in between.
StartRun(r) ==
    /\ r \in posts
    /\ posts' = posts \ {r}
    /\ runs' = [runs EXCEPT ![r].exists = TRUE]
    /\ \E text \in [Pipe -> Lines] :
          child' = [child EXCEPT ![r] = [Unborn EXCEPT !.state = "running", !.pipe = text]]
    /\ UNCHANGED <<feed, stopping, told>>

\* The process could not be spawned: a line about it, and done before "close" says so again.
SpawnFails(r) ==
    /\ r \in posts
    /\ posts' = posts \ {r}
    /\ child' = [child EXCEPT ![r] = [Unborn EXCEPT !.state = "failed"]]
    /\ Emit(r, <<SpawnError, Done>>, TRUE, [NoHandle EXCEPT !.exists = TRUE])
    /\ UNCHANGED stopping

\* A chunk of any length comes out of a pipe and completes any number of lines.
Data(r, p) ==
    /\ child[r].pipe[p] # <<>>
    /\ \E n \in 1..Len(child[r].pipe[p]) :
          LET chunk == SubSeq(child[r].pipe[p], 1, n)
              text  == child[r].pending[p] \o chunk
          IN  /\ child' = [child EXCEPT ![r].pipe[p] = SubSeq(@, n + 1, Len(@)),
                                        ![r].read[p] = @ \o chunk,
                                        ![r].pending[p] = Rest(text)]
              /\ Emit(r, Events(p, FullLines(text)), runs[r].finished, runs[r])
    /\ UNCHANGED <<posts, stopping>>

\* The process ends, by itself or by the signal; what it did not write by then is lost.
Exit(r) ==
    /\ child[r].state = "running"
    /\ \E kept \in [Pipe -> 0..Cardinality(UNION {DOMAIN t : t \in Lines})] :
          /\ \A p \in Pipe : kept[p] <= Len(child[r].pipe[p])
          /\ runs[r].killed \/ \A p \in Pipe : kept[p] = Len(child[r].pipe[p])
          /\ child' = [child EXCEPT ![r].state = "dead",
                                    ![r].pipe = [p \in Pipe |-> SubSeq(@[p], 1, kept[p])]]
    /\ UNCHANGED <<runs, feed, posts, stopping, told>>

\* 'end' of a pipe: the last line may have no line break.
End_Drops(r, p) ==
    /\ child[r].state = "dead" /\ child[r].pipe[p] = <<>> /\ ~ child[r].ended[p]
    /\ child' = [child EXCEPT ![r].ended[p] = TRUE]
    /\ UNCHANGED <<runs, feed, posts, stopping, told>>
End(r, p) ==
    /\ child[r].state = "dead" /\ child[r].pipe[p] = <<>> /\ ~ child[r].ended[p]
    /\ child' = [child EXCEPT ![r].ended[p] = TRUE]
    /\ Emit(r, IF child[r].pending[p] = <<>> THEN <<>> ELSE Events(p, <<child[r].pending[p]>>),
            runs[r].finished, runs[r])
    /\ UNCHANGED <<posts, stopping>>

\* 'close': the process is gone and both pipes have ended.
Close(r) ==
    /\ \/ child[r].state = "failed"
       \/ child[r].state = "dead" /\ \A p \in Pipe : child[r].ended[p]
    /\ child' = [child EXCEPT ![r].state = "closed"]
    /\ Emit(r, <<Done>>, TRUE, runs[r])
    /\ UNCHANGED <<posts, stopping>>

\* attachSse(): the buffer first, then what comes, unless nothing more will come.
AttachSse(c, r) ==
    /\ feed[c].state = "idle" /\ runs[r].exists /\ ~ stopping
    /\ feed' = [feed EXCEPT ![c] =
          [state |-> IF runs[r].finished THEN "ended" ELSE "open", run |-> r,
           got |-> runs[r].buffered, missed |-> Len(told[r]) - Len(runs[r].buffered)]]
    /\ runs' = IF runs[r].finished THEN runs ELSE [runs EXCEPT ![r].subscribers = @ \cup {c}]
    /\ UNCHANGED <<child, posts, stopping, told>>

\* 'close' of a response, ended by the server or by the client.
Hangup(c) ==
    /\ feed[c].state \in {"open", "ended"} /\ c \in runs[feed[c].run].subscribers
    /\ runs' = [runs EXCEPT ![feed[c].run].subscribers = @ \ {c}]
    /\ feed' = IF feed[c].state = "open" THEN [feed EXCEPT ![c].state = "gone"] ELSE feed
    /\ UNCHANGED <<child, posts, stopping, told>>

Killed == [r \in Run |-> IF runs[r].exists /\ ~ runs[r].finished THEN [runs[r] EXCEPT !.killed = TRUE] ELSE runs[r]]

\* POST /api/kill-all.  The switch it trips is asked by nothing in this process.
KillAll ==
    /\ ~ stopping
    /\ runs' = Killed
    /\ UNCHANGED <<child, feed, posts, stopping, told>>

\* close(): the runs get a signal, and no further connection is taken.
StopServer ==
    /\ ~ stopping
    /\ stopping' = TRUE
    /\ runs' = Killed
    /\ UNCHANGED <<child, feed, posts, told>>

WizardNext ==
    \/ \E r \in Run : \/ Post(r) \/ StartRun(r) \/ SpawnFails(r) \/ Exit(r) \/ Close(r)
                      \/ \E p \in Pipe : Data(r, p) \/ End(r, p)
    \/ \E c \in Client : Hangup(c) \/ \E r \in Run : AttachSse(c, r)
    \/ KillAll \/ StopServer

WizardSpec == WizardInit /\ [][WizardNext]_wizardVars

-----------------------------------------------------------------------------
\* However the pipes are cut, the events of a pipe are the lines of its text,
\* the last one too; and a client got an unbroken course of them, from the
\* oldest that was still kept when it came up to the last, and is let go of
\* when the run has ended, not before (emit, attachLineReader, attachSse).
FeedsAreWhole ==
    /\ \A r \in Run, p \in Pipe :
          LET text == child[r].read[p]
              last == IF child[r].ended[p] /\ Rest(text) # <<>> THEN <<Rest(text)>> ELSE <<>>
          IN SelectSeq(told[r], LAMBDA e : e.from = p) = Events(p, FullLines(text) \o last)
    /\ \A c \in Client :
          LET f == feed[c]
              upTo(n) == SubSeq(told[f.run], f.missed + 1, n)
          IN  /\ f.state = "open" => f.got = upTo(Len(told[f.run])) /\ ~ runs[f.run].finished
              /\ f.state = "ended" => /\ runs[f.run].finished
                                      /\ Done \in ToSet(f.got)
                                      /\ f.got = upTo(f.missed + Len(f.got))
===============================================================================
