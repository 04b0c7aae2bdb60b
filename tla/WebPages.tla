------------ MODULE WebPages -------------------------------------------------
(***************************************************************************)
(* The two pages of Atrium as the browser keeps them; the server of the    *)
(* cockpit is in Cockpit.                                                  *)
(***************************************************************************)
EXTENDS Cockpit, Naturals, Sequences, FiniteSets, FiniteSetsExt

(***************************************************************************)
(* The cockpit as the browser keeps it                                     *)
(* (packages/atrium/src/ui/static/cockpit.js): the list of audit rows it   *)
(* collects from a stream that reconnects and starts again each time, and  *)
(* the page of the memory browser, asked for by requests that may be       *)
(* answered in any order.  The server's side is that of Cockpit.           *)
(***************************************************************************)
CONSTANTS
    Kept,       \* rows the list holds (200 in the code)
    Question,   \* what may be asked of the browser: types and search texts
    Asks,       \* bound: requests that may be under way
    LastPage    \* bound: pages turned to

VARIABLES
    entries,    \* the list, the newest received first
    page, question, rowsShown,
    canGoBack, canGoOn,     \* whether a button of the pager is there to be used
    asked,      \* requests under way: <<page, question>>, the oldest first
    answers,    \* history: what the rows on the screen answer, <<>> for a failure
    stale,      \* history: requests under way, the first ones, older than one answered
    overtaken,  \* history: the last answer came after that of a later request
    hasty       \* history: the pager took the user on that was of another page

listVars == <<entries>>
fmVars == <<page, question, rowsShown, canGoBack, canGoOn, asked, answers, stale, overtaken, hasty>>
pageAll == <<vars, listVars, fmVars>>

\* The page asks for the first page of facts when it is loaded.
PageInit ==
    /\ Init
    /\ entries = <<>>
    /\ page = 1 /\ question = "facts" /\ rowsShown = <<>> /\ canGoBack = FALSE /\ canGoOn = FALSE
    /\ asked = <<<<1, question>>>> /\ answers = <<0, question>>
    /\ stale = 0 /\ overtaken = FALSE /\ hasty = FALSE

\* pushAuditEntry(), for each row of a message.
Push(list, row) ==
    IF row \in ToSet(list) THEN list ELSE SubSeq(<<row>> \o list, 1, Min({Kept, Len(list) + 1}))
Collect(rows) == FoldLeft(Push, entries, rows)

Receive ==
    /\ Attach \/ Poll
    /\ entries' = Collect(SubSeq(shown', Len(shown) + 1, Len(shown')))
    /\ UNCHANGED fmVars

\* EventSource reconnects by itself; the list stays.
Drop == Detach /\ UNCHANGED <<listVars, fmVars>>

\* What a request is answered with: nothing has the form of an odd question.
Rows(n, q) == IF q = "facts" THEN Page(n) ELSE <<>>
GoesOn(n, q) == q = "facts" /\ hasMore(n)

Ask(n, q) == asked' = Append(asked, <<n, q>>)

\* Mutant: what is asked changes, and the page stays.
Change_KeepsPage(q) ==
    /\ q # question /\ Len(asked) < Asks
    /\ question' = q /\ hasty' = FALSE
    /\ Ask(page, q)
    /\ UNCHANGED <<vars, listVars, page, rowsShown, canGoBack, canGoOn, answers, stale, overtaken>>

\* Another type or search text, once it has been typed.
Change(q) ==
    /\ q # question /\ Len(asked) < Asks
    /\ question' = q /\ page' = 1 /\ hasty' = FALSE
    /\ Ask(1, q)
    /\ UNCHANGED <<vars, listVars, rowsShown, canGoBack, canGoOn, answers, stale, overtaken>>

TurnPage(n) ==
    /\ Len(asked) < Asks /\ n <= LastPage
    /\ \/ n = page + 1 /\ canGoOn
       \/ n = page - 1 /\ page > 1 /\ canGoBack
    /\ page' = n
    /\ Ask(n, question)
    /\ hasty' = (n > 1 /\ (hasty \/ (n > page /\ answers # <<page, question>>)))
    /\ UNCHANGED <<vars, listVars, question, rowsShown, canGoBack, canGoOn, answers, stale, overtaken>>

\* A request is settled, the last one or one before it.
Settle(i) ==
    /\ asked' = RemoveAt(asked, i)
    /\ stale' = IF i = Len(asked) THEN Len(asked) - 1 ELSE IF i <= stale THEN stale - 1 ELSE stale
    /\ overtaken' = (i <= stale)
    /\ UNCHANGED <<vars, listVars, page, question, hasty>>

\* loadFm(), after its await: the screen is of that request, whatever was asked since,
\* and the way back is that of the page by now.  No rows hide the pager.
Answer(i) ==
    LET rows == Rows(asked[i][1], asked[i][2]) IN
    /\ Settle(i)
    /\ rowsShown' = rows /\ answers' = asked[i]
    /\ canGoOn' = (rows # <<>> /\ GoesOn(asked[i][1], asked[i][2]))
    /\ canGoBack' = (rows # <<>> /\ page > 1)

\* The server answers with an error, which has no entries: the pager is hidden.  Or
\* the fetch fails, and the pager stays as it was.
AnswerFails(i) ==
    /\ Settle(i)
    /\ rowsShown' = <<>> /\ answers' = <<>>
    /\ \/ canGoOn' = FALSE /\ canGoBack' = FALSE
       \/ UNCHANGED <<canGoOn, canGoBack>>

World == Tick \/ (\E o \in Op : Begin(o) \/ Record(o)) \/ (\E f \in Fact : Put(f))

PageNext ==
    \/ World /\ UNCHANGED <<listVars, fmVars>>
    \/ Receive \/ Drop
    \/ \E q \in Question : Change(q)
    \/ \E n \in {page - 1, page + 1} : TurnPage(n)
    \/ \E i \in DOMAIN asked : Answer(i) \/ AnswerFails(i)

PageSpec == PageInit /\ [][PageNext]_pageAll

-----------------------------------------------------------------------------
\* Each row the server has sent on the connection there is, the list has it once,
\* and none twice for all the reconnections.  With nothing under way the browser
\* shows what is asked for, or nothing after a failure, unless the last answer was
\* to an older request; and it stands on a page there is, as long as whoever pages
\* on does so from the page that is shown (pushAuditEntry, loadFm).
PageTellsWhatWasAsked ==
    /\ \A i, j \in DOMAIN entries : i # j => entries[i] # entries[j]
    /\ Len(entries) <= Kept
    /\ Cardinality(DOMAIN ledger) <= Kept => ToSet(shown) \subseteq ToSet(entries)
    /\ asked = <<>> /\ ~ overtaken =>
          IF answers = <<>> THEN rowsShown = <<>> ELSE answers = <<page, question>>
    /\ ~ hasty => page = 1 \/ Rows(page, question) # <<>>

-----------------------------------------------------------------------------
(***************************************************************************)
(* The page of the setup wizard (packages/atrium/src/ui/static/app.js):    *)
(* welcome, the choice of sources, and their runs one after the other,     *)
(* each a request to the server and a stream of events about its process.  *)
(* A run counts as finished when its stream says so, when the stream       *)
(* breaks, or when the request itself failed.                              *)
(***************************************************************************)
CONSTANTS
    Source,     \* numbers, in the order the server lists them
    Stub,       \* sources that cannot be run yet
    DefaultOn,  \* sources that are switched on at first
    Rounds      \* bound: how often the user starts the runs

VARIABLES
    step,       \* the section that is shown
    enabled,    \* the switches
    card,       \* [Source -> what its card says]; "none" for no card
    queue,      \* sources the loop has still to wait for, the current one first
    link,       \* of the current one: "none", "posted", "reached" or "open"
    own,        \* its process: "none", "running", "failed" or "ended"
    orphans,    \* processes the page follows no more
    total, done,
    banner,
    rounds,
    refused,    \* history: the server refused a run of this round
    lost        \* history: a connection about a run was lost

setupVars == <<step, enabled, card, queue, link, own, orphans, total, done, banner, rounds, refused, lost>>

SetupInit ==
    /\ step = "welcome"
    /\ enabled = DefaultOn \ Stub
    /\ card = [s \in Source |-> "none"]
    /\ queue = <<>> /\ link = "none" /\ own = "none" /\ orphans = 0
    /\ total = 0 /\ done = 0 /\ banner = FALSE
    /\ rounds = 0 /\ refused = FALSE /\ lost = FALSE

Turn ==
    /\ \/ step = "welcome" /\ step' = "sources"
       \/ step = "sources" /\ step' = "welcome"
    /\ UNCHANGED <<enabled, card, queue, link, own, orphans, total, done, banner, rounds, refused, lost>>

Toggle(s) ==
    /\ step = "sources" /\ s \notin Stub
    /\ enabled' = IF s \in enabled THEN enabled \ {s} ELSE enabled \cup {s}
    /\ UNCHANGED <<step, card, queue, link, own, orphans, total, done, banner, rounds, refused, lost>>

InOrder(set) == [i \in 1..Cardinality(set) |-> CHOOSE s \in set : Cardinality({r \in set : r < s}) = i - 1]

\* startRuns(): a card for each source that is switched on, and the first one is asked for.
Run ==
    /\ step = "sources" /\ enabled # {} /\ rounds < Rounds
    /\ step' = "run" /\ rounds' = rounds + 1
    /\ queue' = InOrder(enabled)
    /\ card' = [s \in Source |-> IF s \notin enabled THEN "none" ELSE IF s = Min(enabled) THEN "running" ELSE "queued"]
    /\ total' = Cardinality(enabled) /\ done' = 0
    /\ link' = "posted" /\ own' = "none" /\ refused' = FALSE
    /\ UNCHANGED <<enabled, orphans, banner, lost>>

\* The request reaches the server, which starts a process whether or not its answer arrives.
Reach ==
    /\ link = "posted"
    /\ link' = "reached" /\ own' = "running"
    /\ UNCHANGED <<step, enabled, card, queue, orphans, total, done, banner, rounds, refused, lost>>

Open ==
    /\ link = "reached"
    /\ link' = "open"
    /\ UNCHANGED <<step, enabled, card, queue, own, orphans, total, done, banner, rounds, refused, lost>>

Exit ==
    /\ \/ own = "running" /\ own' \in {"failed", "ended"} /\ UNCHANGED orphans
       \/ orphans > 0 /\ orphans' = orphans - 1 /\ UNCHANGED own
    /\ UNCHANGED <<step, enabled, card, queue, link, total, done, banner, rounds, refused, lost>>

\* The promise of startRun() is resolved: the loop goes on with the next source.
Resolve(says) ==
    /\ queue' = Tail(queue)
    /\ card' = [s \in Source |->
          IF s = Head(queue) THEN says
          ELSE IF queue' # <<>> /\ s = Head(queue') THEN "running" ELSE card[s]]
    /\ link' = IF queue' = <<>> THEN "none" ELSE "posted"
    /\ own' = "none"
    /\ orphans' = IF own = "running" THEN orphans + 1 ELSE orphans
    /\ UNCHANGED <<step, enabled, total, rounds>>

Count ==
    /\ done' = done + 1
    /\ banner' = (banner \/ done' >= total)

\* 400 with an error: the card says so, and nothing is counted.
Refuse ==
    /\ link = "posted"
    /\ Resolve("failed")
    /\ refused' = TRUE
    /\ UNCHANGED <<done, banner, lost>>

\* The stream tells the end of the process, also when it is opened after that.
Done ==
    /\ link = "open" /\ own \in {"failed", "ended"}
    /\ Resolve(IF own = "ended" THEN "complete" ELSE "failed")
    /\ Count
    /\ UNCHANGED <<refused, lost>>

\* fetch() rejects, before or after the server was reached; or the stream breaks.
Break_Uncounted ==
    /\ link # "none"
    /\ Resolve("failed")
    /\ lost' = TRUE
    /\ UNCHANGED <<done, banner, refused>>
Break ==
    /\ link # "none"
    /\ Resolve("failed")
    /\ Count
    /\ lost' = TRUE
    /\ UNCHANGED refused

Again ==
    /\ banner
    /\ banner' = FALSE /\ step' = "sources" /\ total' = 0 /\ done' = 0
    /\ UNCHANGED <<enabled, card, queue, link, own, orphans, rounds, refused, lost>>

SetupNext ==
    \/ Turn \/ Run \/ Reach \/ Open \/ Exit \/ Refuse \/ Done \/ Break \/ Again
    \/ \E s \in Source : Toggle(s)

SetupSpec == SetupInit /\ [][SetupNext]_setupVars

-----------------------------------------------------------------------------
\* The banner, from which alone the user can go on, is there when the loop has
\* ended every run and not before, and it is missing only if the server refused
\* one; until then what was not asked for is queued.  As long as no connection
\* is lost, no process of an earlier run goes on beside another (startRuns, startRun).
BannerTellsTheEnd ==
    /\ step = "run" /\ ~ refused => (banner <=> queue = <<>>)
    /\ banner => /\ step = "run" /\ queue = <<>>
                 /\ \A s \in Source : card[s] \in {"none", "complete", "failed"}
    /\ \A i \in DOMAIN queue : card[queue[i]] = IF i = 1 THEN "running" ELSE "queued"
    /\ ~ lost => orphans = 0
===============================================================================
