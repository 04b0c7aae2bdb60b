------------ MODULE Records --------------------------------------------------
(***************************************************************************)
(* Records that are read back and summed: rows of a CSV file, tokens of    *)
(* sessions, rows of the audit ledger, events of the kill switch of a      *)
(* session, how long requests took, and the tokens of a conversation.      *)
(***************************************************************************)
EXTENDS Naturals, Sequences, FiniteSets, SequencesExt, FiniteSetsExt, Integers

(***************************************************************************)
(* Reading a CSV file and asking it for rows                               *)
(* (packages/connectors/src/csv/CsvEtl.ts).  A file is a sequence of       *)
(* characters, of which the delimiter, the quote and the end of a line     *)
(* matter, and two that stand for text and for digits.  The files are      *)
(* what a writer makes of a table.                                         *)
(***************************************************************************)
CONSTANTS
    Text, Digits,   \* fields of a table: sequences of characters
    Rows, Columns, Cells,   \* bounds
    Limits,         \* values of maxRows and of limit, 0 for none
    Wanted          \* fields asked for

VARIABLES
    table,      \* what was written: its rows, the first one the names if there are names
    options     \* of the query

Comma == ","
Quote == "q"
NewLine == "n"
Fields == Text \cup Digits

CsvInit ==
    /\ \E c \in 1..Columns, r \in 1..Rows : r * c <= Cells /\ table \in [1..r -> [1..c -> Fields]]
    /\ options \in [hasHeaders : BOOLEAN, maxRows : Limits, limit : Limits,
                    where : {<<>>} \cup {<<v>> : v \in Wanted},     \* of the first column
                    columns : {"all", "last", "unknown"}]
    /\ 0 \in {options.maxRows, options.limit}
    /\ options.columns # "all" => options.where = <<>> /\ options.maxRows = options.limit

-----------------------------------------------------------------------------
\* The writer: fields that need it are quoted, and their quotes doubled.
Special(f) == \E ch \in ToSet(f) : ch \in {Comma, Quote, NewLine}
Quoted(f) == <<Quote>> \o FlattenSeq([i \in DOMAIN f |-> IF f[i] = Quote THEN <<Quote, Quote>> ELSE <<f[i]>>]) \o <<Quote>>
Cell(f) == IF Special(f) THEN Quoted(f) ELSE f
Joined(parts, by) == FoldLeft(LAMBDA out, i : (IF i = 1 THEN <<>> ELSE out \o by) \o parts[i], <<>>,
                              [i \in DOMAIN parts |-> i])
Content == Joined([r \in DOMAIN table |-> Joined([c \in DOMAIN table[r] |-> Cell(table[r][c])], <<Comma>>)], <<NewLine>>)

\* splitLines(): at every end of a line, quoted or not.
splitLines(content) ==
    FoldLeft(LAMBDA out, ch : IF ch = NewLine THEN Append(out, <<>>)
                              ELSE [out EXCEPT ![Len(out)] = Append(@, ch)], <<<<>>>>, content)

\* parseRow(): a quote opens and closes, a doubled one inside stands for itself.
Take(acc, ch, next) ==
    IF acc.skip THEN [acc EXCEPT !.skip = FALSE]
    ELSE CASE ch = Quote /\ acc.inQuotes /\ next = Quote -> [acc EXCEPT !.current = Append(@, Quote), !.skip = TRUE]
           [] ch = Quote /\ ~ (acc.inQuotes /\ next = Quote) -> [acc EXCEPT !.inQuotes = ~ @]
           [] ch = Comma /\ ~ acc.inQuotes -> [acc EXCEPT !.fields = Append(@, acc.current), !.current = <<>>]
           [] OTHER -> [acc EXCEPT !.current = Append(@, ch)]
parseRow(line) ==
    LET acc == FoldLeft(LAMBDA a, i : Take(a, line[i], IF i < Len(line) THEN line[i + 1] ELSE "end"),
                        [fields |-> <<>>, current |-> <<>>, inQuotes |-> FALSE, skip |-> FALSE],
                        [i \in DOMAIN line |-> i])
    IN Append(acc.fields, acc.current)

\* parseContent(): as many fields as the first line has, blank lines left out.
Fit(fields, n) == [j \in 1..n |-> IF j <= Len(fields) THEN fields[j] ELSE <<>>]
First(rows, n) == IF n = 0 THEN rows ELSE SubSeq(rows, 1, Min({n, Len(rows)}))
parseContent ==
    LET lines == splitLines(Content)
        width == Len(parseRow(lines[1]))
        body  == SelectSeq(SubSeq(lines, IF options.hasHeaders THEN 2 ELSE 1, Len(lines)), LAMBDA l : l # <<>>)
    IN First([i \in DOMAIN body |-> Fit(parseRow(body[i]), width)], options.maxRows)

\* inferType(): "1" is yes before it is a number.
inferType(values) ==
    CASE values = {} -> "empty"
      [] values # {} /\ values \subseteq Digits /\ (\A v \in values : v = <<"1">>) -> "boolean"
      [] values # {} /\ values \subseteq Digits /\ ~ (\A v \in values : v = <<"1">>) -> "number"
      [] OTHER -> "string"
coerce(raw, type) == IF raw = <<>> THEN "null" ELSE type

Chosen(row) ==
    CASE options.columns = "all" -> row
      [] options.columns = "last" -> <<row[Len(row)]>>
      [] options.columns = "unknown" -> << <<>> >>

\* queryString(): filtered, projected, typed, and cut last.
Matching_Cut(rows) == SelectSeq(First(rows, options.limit), LAMBDA r : options.where = <<>> \/ r[1] = options.where[1])
Matching(rows) == SelectSeq(rows, LAMBDA r : options.where = <<>> \/ r[1] = options.where[1])
Typed(all, rows) ==
    LET width == IF rows = <<>> THEN 0 ELSE Len(rows[1])
        types == [j \in 1..width |-> inferType({rows[i][j] : i \in DOMAIN rows} \ {<<>>})]
        typed == [i \in DOMAIN rows |-> [j \in 1..width |-> coerce(rows[i][j], types[j])]]
        back  == First(typed, options.limit)
    IN  [rows |-> back, types |-> types, totalRows |-> Len(all), truncated |-> Len(back) < Len(typed)]
queryString(all) ==
    LET found == Matching(all)
    IN  Typed(all, [i \in DOMAIN found |-> Chosen(found[i])])

\* statsString(), for the first column.
statsString(all) ==
    LET values == SelectSeq([i \in DOMAIN all |-> all[i][1]], LAMBDA v : v # <<>>)
    IN [count |-> Len(values), nullCount |-> Len(all) - Len(values),
        numeric |-> values # <<>> /\ ToSet(values) \subseteq Digits]

-----------------------------------------------------------------------------
\* What was written is read back, row for row, where no field has an end of line
\* and leaving out lines that are empty; a query returns the first of the rows
\* that match and says whether there are more, a value is null where the field
\* is empty and nowhere else, and a column's statistics count what its rows have
\* (parseContent, queryString, statsString).
CsvIsReadBack ==
    LET plain == \A r \in DOMAIN table, c \in DOMAIN table[1] : NewLine \notin ToSet(table[r][c])
        body  == SelectSeq(SubSeq(table, IF options.hasHeaders THEN 2 ELSE 1, Len(table)), LAMBDA r : r # << <<>> >>)
        kept  == First(body, options.maxRows)
        fits  == SelectSeq(kept, LAMBDA r : options.where = <<>> \/ r[1] = options.where[1])
        Tells(q, s) ==
            /\ q.totalRows = Len(kept)
            /\ Len(q.rows) = IF options.limit = 0 THEN Len(fits) ELSE Min({options.limit, Len(fits)})
            /\ q.truncated = (Len(q.rows) < Len(fits))
            /\ \A i \in DOMAIN q.rows, j \in DOMAIN q.types :
                  /\ q.rows[i][j] = "null" <=> Chosen(fits[i])[j] = <<>>
                  /\ q.rows[i][j] \in {"number", "boolean"} => Chosen(fits[i])[j] \in Digits
            /\ s.count + s.nullCount = q.totalRows
            /\ options.where = <<>> /\ options.columns = "all" /\ s.numeric =>
                  q.types[1] \in {"number", "boolean"}
    IN  plain => parseContent = kept /\ Tells(queryString(parseContent), statsString(parseContent))

-----------------------------------------------------------------------------
(***************************************************************************)
(* The report of the tokens that sessions have used                        *)
(* (packages/atrium/src/commands/token-report.ts): every log under a root, *)
(* line by line, each event of the window added to its day, its directory  *)
(* and the total.  A log may break while it is read.                       *)
(***************************************************************************)
CONSTANTS
    Log,            \* [cwd, lines, breaks]: lines are events, breaks is after how many
    MaxLogs,
    Now, DayLength,
    Given,          \* what --days may be given, 0 for what is no number
    Rate            \* [input, cacheRead, cacheCreate, output]

VARIABLES
    logs, days, filter

TokenInit ==
    /\ logs \in UNION {[1..n -> Log] : n \in 0..MaxLogs}
    /\ days \in Given /\ filter \in {{"all"}} \cup {{l.cwd} : l \in Log}

Counter == {"input", "cacheRead", "cacheCreate", "output", "events"}
Empty == [k \in Counter |-> 0]
Plus(b, c) == [k \in Counter |-> b[k] + c[k]]

\* --days: a 0 is taken as if it were not a number.
Window == IF days = 0 THEN 7 ELSE Max({1, days})
Start == Now - Window * DayLength
Counts(e) == e.type = "assistant" /\ e.dated /\ e.used /\ e.at >= Start
DayKey(e) == e.at \div DayLength

\* applyEvent()
Used(e) == [input |-> e.input, cacheRead |-> e.cacheRead, cacheCreate |-> e.cacheCreate, output |-> e.output, events |-> 1]
Bucket(of, k) == IF k \in DOMAIN of THEN of[k] ELSE Empty
Into(of, k, u) == [j \in DOMAIN of \cup {k} |-> IF j = k THEN Plus(Bucket(of, k), u) ELSE of[j]]
applyEvent(report, cwd, e) ==
    IF ~ Counts(e) THEN report
    ELSE [report EXCEPT !.perDay = Into(@, DayKey(e), Used(e)), !.perCwd = Into(@, cwd, Used(e)), !.total = Plus(@, Used(e))]

\* listJsonlFiles() and buildReport(): lines before a log breaks count.
Listed == SelectSeq(logs, LAMBDA l : filter = {"all"} \/ l.cwd \in filter)
LinesOf(l) == SubSeq(l.lines, 1, Min({l.breaks, Len(l.lines)}))
Blank == [perDay |-> [d \in {} |-> Empty], perCwd |-> [c \in {} |-> Empty], total |-> Empty, files |-> 0, lines |-> 0]
buildReport ==
    FoldLeft(LAMBDA report, l :
        FoldLeft(LAMBDA r, e : applyEvent([r EXCEPT !.lines = @ + 1], l.cwd, e),
                 [report EXCEPT !.files = @ + 1], LinesOf(l)), Blank, Listed)

bucketCost(b) == b.input * Rate.input + b.cacheRead * Rate.cacheRead + b.cacheCreate * Rate.cacheCreate + b.output * Rate.output
cacheSavings(b) == b.cacheRead * (Rate.input - Rate.cacheRead)

-----------------------------------------------------------------------------
Whole(of) == FoldFunction(Plus, Empty, of)

\* Whatever order the logs are read in and wherever one breaks, the days, the
\* directories and the total tell the same sums and the same costs; each event of
\* the window is in them once, and the savings are what the same tokens would
\* have cost more without a cache (applyEvent, buildReport).
ReportAddsUp ==
    LET r == buildReport
        events == {<<i, k>> \in (DOMAIN Listed) \X (1..9) : k <= Len(LinesOf(Listed[i])) /\ Counts(Listed[i].lines[k])}
        cost == FoldFunction(LAMBDA b, sum : bucketCost(b) + sum, 0, r.perDay)
    IN  /\ Whole(r.perDay) = r.total /\ Whole(r.perCwd) = r.total
        /\ r.total.events = Cardinality(events)
        /\ cost = bucketCost(r.total)
        /\ bucketCost(r.total) + cacheSavings(r.total) =
               bucketCost([r.total EXCEPT !.input = @ + r.total.cacheRead, !.cacheRead = 0])
        /\ \A d \in DOMAIN r.perDay : d >= Start \div DayLength /\ r.perDay[d].events > 0
        /\ Cardinality(DOMAIN r.perDay) <= Window + 1

-----------------------------------------------------------------------------
(***************************************************************************)
(* The audit ledger of packages/audit (ledger.ts) as several processes     *)
(* open it, write to it and ask it: a ledger from before tokens were       *)
(* measured gets its columns one by one from whoever opens it, who may be  *)
(* killed in between.  Redaction of rows is in TaskLog.                    *)
(***************************************************************************)
CONSTANTS
    Opener,
    NewColumns,        \* how many columns an old ledger lacks
    Entry,          \* what is appended: [session, tool, result, tokens], 0 for not measured
    Queries,        \* [session, tool, result, since, limit]: "any", 0 for none
    MostTold,       \* rows told where no limit is given (1000 in the code)
    MaxRows

VARIABLES
    columns,        \* how many of them there are, added in order
    opener,             \* [Process -> "closed", "opening", "open" or "failed"]
    lacks,          \* [Process -> columns it saw missing and has yet to add]
    ledger,           \* in the order of their timestamps
    crowded         \* history: processes that opened the ledger while another did

ledgerVars == <<columns, opener, lacks, ledger, crowded>>

LedgerInit ==
    /\ columns \in {0, NewColumns}
    /\ opener = [p \in Opener |-> "closed"] /\ lacks = [p \in Opener |-> <<>>]
    /\ ledger = <<>> /\ crowded = {}

Opening == {p \in Opener : opener[p] = "opening"}

\* migrateTokenColumns(): what is missing is read once ...
Open(p) ==
    /\ opener[p] = "closed" /\ opener' = [opener EXCEPT ![p] = "opening"]
    /\ lacks' = [lacks EXCEPT ![p] = [i \in 1..NewColumns - columns |-> columns + i]]
    /\ crowded' = IF Opening = {} THEN crowded ELSE crowded \cup Opening \cup {p}
    /\ UNCHANGED <<columns, ledger>>

\* ... and added one by one; a column that is there by then is an error.
Alter(p) ==
    /\ opener[p] = "opening" /\ lacks[p] # <<>>
    /\ IF Head(lacks[p]) > columns
       THEN /\ columns' = columns + 1 /\ lacks' = [lacks EXCEPT ![p] = Tail(@)] /\ UNCHANGED opener
       ELSE /\ opener' = [opener EXCEPT ![p] = "failed"] /\ lacks' = [lacks EXCEPT ![p] = <<>>] /\ UNCHANGED columns
    /\ UNCHANGED <<ledger, crowded>>

Opened(p) ==
    /\ opener[p] = "opening" /\ lacks[p] = <<>> /\ opener' = [opener EXCEPT ![p] = "open"]
    /\ UNCHANGED <<columns, lacks, ledger, crowded>>

\* append(): the usage is in all columns or in none.
Append_(p, e) ==
    /\ opener[p] = "open" /\ Len(ledger) < MaxRows
    /\ columns = NewColumns
    /\ ledger' = Append(ledger, e)
    /\ UNCHANGED <<columns, opener, lacks, crowded>>

\* close(), and a process that is killed, at any point.
Close(p) ==
    /\ opener[p] # "closed"
    /\ opener' = [opener EXCEPT ![p] = "closed"] /\ lacks' = [lacks EXCEPT ![p] = <<>>]
    /\ crowded' = crowded \ {p}
    /\ UNCHANGED <<columns, ledger>>

LedgerNext == \E p \in Opener : Open(p) \/ Alter(p) \/ Opened(p) \/ Close(p) \/ \E e \in Entry : Append_(p, e)
LedgerSpec == LedgerInit /\ [][LedgerNext]_ledgerVars

-----------------------------------------------------------------------------
Fits(i, q) ==
    /\ q.session \in {"any", ledger[i].session} /\ q.tool \in {"any", ledger[i].tool}
    /\ q.result \in {"any", ledger[i].result} /\ i >= q.since
Found(q) == {i \in DOMAIN ledger : Fits(i, q)}

\* query(): the newest first, as many as the limit says, or as are told without one.
query(q) ==
    LET found == SetToSortSeq(Found(q), >)
    IN SubSeq(found, 1, Min({IF q.limit = 0 THEN MostTold ELSE q.limit, Len(found)}))

\* tokenTotals() of all the rows, and count(), which asks for neither tool nor result.
Tokens(ids) == MapThenSumSet(LAMBDA i : ledger[i].tokens, ids)
tokenTotals(q) ==
    LET measured == {i \in Found(q) : ledger[i].tokens # 0}
    IN [inferences |-> Cardinality(measured), tokens |-> Tokens(measured)]
count(q) == Cardinality(Found([q EXCEPT !.tool = "any", !.result = "any"]))

-----------------------------------------------------------------------------
\* A ledger is opened with all its columns, whoever was killed while adding them,
\* and it fails to open only where two opened an old one together: a column that
\* is there is "skipped" (ledger.ts:72) only if it was there before the first
\* was added.  Totals, rows and count tell the same of a query, but that a limit,
\* given or not, cuts the rows only, and count does not look at tool and result.
LedgerTellsAlike ==
    /\ \A p \in Opener : opener[p] = "open" => columns = NewColumns
    /\ \A p \in Opener : opener[p] = "failed" => p \in crowded
    /\ \A q \in Queries :
          LET told == query(q) all == SetToSortSeq(Found(q), >)
          IN  /\ tokenTotals(q).tokens = FoldLeft(LAMBDA sum, i : sum + ledger[i].tokens, 0, all)
              /\ tokenTotals(q).inferences <= count(q) /\ Len(told) <= count(q)
              /\ q.tool = "any" /\ q.result = "any" => count(q) = Len(all)
              /\ told = SubSeq(all, 1, Len(told))
              /\ Len(told) < Min({MostTold} \cup ({q.limit} \ {0})) => told = all

-----------------------------------------------------------------------------
(***************************************************************************)
(* The kill switch of a session, for agents in several processes           *)
(* (packages/cli/src/commands/audit-killswitch.ts): a file that each       *)
(* command reads, and empties and fills where it writes, and an event in   *)
(* the event log (packages/audit/src/event-log.ts) after it.               *)
(***************************************************************************)
CONSTANTS
    Operator, Session,
    MaxEvents, MaxClock

VARIABLES
    tokens,         \* [Session -> "none", "torn", "clear" or "halted"]
    command,        \* [Operator -> [at, session, to, stamp]]
    trail,          \* the event log: [at, event, stream] in the order of their ids
    clock,
    halted,         \* history: sessions a halt was written for
    raced,          \* history: those two commands wrote at once
    muddled         \* history: those whose commands overlapped or were broken off

haltVars == <<tokens, command, trail, clock, halted, raced, muddled>>

\* The log may have an event of someone else in it.
Foreign == [at |-> 0, event |-> "digest", stream |-> 0]
Rest == [at |-> "rest", session |-> 0, to |-> "none", stamp |-> 0]
HaltInit ==
    /\ tokens = [s \in Session |-> "none"] /\ command = [o \in Operator |-> Rest]
    /\ trail \in {<<>>, <<Foreign>>} /\ clock = 0 /\ halted = {} /\ raced = {} /\ muddled = {}

Others(o, s) == {d \in Operator \ {o} : command[d].at # "rest" /\ command[d].session = s}
Writing(o, s) == {d \in Others(o, s) : command[d].at \in {"write", "fill"}}

\* create and trigger: readToken() tells a file that cannot be parsed as none.
BeginCommand(o, s, to) ==
    /\ command[o] = Rest
    /\ IF to = "clear" THEN tokens[s] \in {"none", "torn"} ELSE tokens[s] = "clear"
    /\ command' = [command EXCEPT ![o] = [at |-> "write", session |-> s, to |-> to, stamp |-> 0]]
    /\ raced' = IF Writing(o, s) = {} THEN raced ELSE raced \cup {s}
    /\ muddled' = IF Others(o, s) = {} THEN muddled ELSE muddled \cup {s}
    /\ UNCHANGED <<tokens, trail, clock, halted>>

\* writeToken(): the file is emptied and then written from its start; what is
\* longer than the new text stays behind it.
Empty_(o) ==
    /\ command[o].at = "write" /\ command' = [command EXCEPT ![o].at = "fill"]
    /\ tokens' = [tokens EXCEPT ![command[o].session] = "torn"]
    /\ UNCHANGED <<trail, clock, halted, raced, muddled>>

Fill(o) ==
    LET s == command[o].session to == command[o].to
    IN /\ command[o].at = "fill" /\ command' = [command EXCEPT ![o].at = "stamp"]
       /\ tokens' = [tokens EXCEPT ![s] = IF @ = "halted" /\ to = "clear" THEN "torn" ELSE to]
       /\ halted' = IF to = "halted" THEN halted \cup {s} ELSE halted
       /\ UNCHANGED <<trail, clock, raced, muddled>>

\* emitEvent(): the time is taken before the log has the row.
Stamp(o) ==
    /\ command[o].at = "stamp" /\ command' = [command EXCEPT ![o].at = "emit", ![o].stamp = clock]
    /\ UNCHANGED <<tokens, trail, clock, halted, raced, muddled>>

Emit(o) ==
    /\ command[o].at = "emit" /\ command' = [command EXCEPT ![o] = Rest]
    /\ Len(trail) < MaxEvents
    /\ trail' = Append(trail, [at |-> command[o].stamp, event |-> command[o].to, stream |-> command[o].session])
    /\ UNCHANGED <<tokens, clock, halted, raced, muddled>>

\* The process is killed, or the log cannot be written.
BreakOff(o) ==
    /\ command[o].at # "rest" /\ command' = [command EXCEPT ![o] = Rest]
    /\ muddled' = muddled \cup {command[o].session}
    /\ UNCHANGED <<tokens, trail, clock, halted, raced>>

Tick == clock < MaxClock /\ clock' = clock + 1 /\ UNCHANGED <<tokens, command, trail, halted, raced, muddled>>

HaltNext ==
    \/ Tick
    \/ \E o \in Operator :
          \/ Empty_(o) \/ Fill(o) \/ Stamp(o) \/ Emit(o) \/ BreakOff(o)
          \/ \E s \in Session, to \in {"clear", "halted"} : BeginCommand(o, s, to)
HaltSpec == HaltInit /\ [][HaltNext]_haltVars

-----------------------------------------------------------------------------
\* check: what an agent that polls is answered.
Check(s) == CASE tokens[s] = "halted" -> 1 [] tokens[s] = "clear" -> 0 [] OTHER -> 2

\* EventLog.query(), by stream and time: the newest first, and by id where times are equal.
Events(s, since, limit) ==
    LET kept == {i \in DOMAIN trail : trail[i].stream = s /\ trail[i].at >= since}
        told == SetToSortSeq(kept, LAMBDA i, j : trail[i].at > trail[j].at \/ (trail[i].at = trail[j].at /\ i > j))
    IN SubSeq(told, 1, Min({IF limit = 0 THEN MostTold ELSE limit, Len(told)}))
CountEvents(s, since) == Cardinality({i \in DOMAIN trail : trail[i].stream = s /\ trail[i].at >= since})

\* An agent that polls a session that was halted is never answered that it may go
\* on, unless two commands wrote its file at once (a create that had found none
\* writes over the halt).  The log tells nothing that was not written, and where
\* commands of a session neither overlapped nor were broken off, its newest
\* event tells what its file does; "the audit trail records the halt"
\* (audit-killswitch.ts:16) holds of those only.
HaltIsKept ==
    \A s \in Session :
        /\ s \in halted \ raced => Check(s) = 1
        /\ \A i \in DOMAIN trail : trail[i].event = "halted" => trail[i].stream \in halted
        /\ s \notin muddled /\ Others(0, s) = {} =>
              LET told == Events(s, 0, 1)
              IN IF told = <<>> THEN tokens[s] = "none" ELSE tokens[s] = trail[told[1]].event
        /\ \A since \in 0..MaxClock :
              Len(Events(s, since, 0)) = Min({MostTold, CountEvents(s, since)})

-----------------------------------------------------------------------------
(***************************************************************************)
(* How long the requests of the gateway took                               *)
(* (packages/transport/src/performance-tracker.ts, secure-gateway.ts): a   *)
(* window of samples that is cut from the front, and what is told of it.   *)
(***************************************************************************)
CONSTANTS
    Latency,        \* numbers
    TrackWindow, MaxTime, MaxSamples

VARIABLES
    samples,        \* [ts, latency, success], as they came
    time,
    sampled,        \* history: all of them, since the last reset
    setBack         \* history: the clock was set back

trackVars == <<samples, time, sampled, setBack>>

TrackInit == samples = <<>> /\ time = 0 /\ sampled = <<>> /\ setBack = FALSE

\* prune(): up to the first one that is young enough.
Young(s) == s.ts + TrackWindow >= time
Pruned(seq) == LET first == SelectInSeq(seq, Young) IN IF first = 0 THEN <<>> ELSE SubSeq(seq, first, Len(seq))

\* A request is finished: those for /metrics and /health are not counted.
Finish(url, status, latency) ==
    LET s == [ts |-> time, latency |-> latency, success |-> status < 500]
    IN /\ url \notin {"/metrics", "/health"} /\ Len(sampled) < MaxSamples
       /\ samples' = Pruned(Append(samples, s)) /\ sampled' = Append(sampled, s)
       /\ UNCHANGED <<time, setBack>>

\* GET /metrics
Summarise == Pruned(samples) # samples /\ samples' = Pruned(samples) /\ UNCHANGED <<time, sampled, setBack>>
Reset == samples # <<>> /\ samples' = <<>> /\ sampled' = <<>> /\ UNCHANGED <<time, setBack>>
Clock ==
    /\ \/ time < MaxTime /\ time' = time + 1 /\ UNCHANGED setBack
       \/ time > 0 /\ ~ setBack /\ time' = time - 1 /\ setBack' = TRUE
    /\ UNCHANGED <<samples, sampled>>

TrackNext ==
    \/ Summarise \/ Reset \/ Clock
    \/ \E url \in {"/mcp", "/health"}, status \in {200, 503}, l \in Latency : Finish(url, status, l)
TrackSpec == TrackInit /\ [][TrackNext]_trackVars

\* percentile(), in hundredths.
percentile(p) ==
    LET data == SortSeq([i \in DOMAIN Pruned(samples) |-> Pruned(samples)[i].latency], <)
        rank == p * (Len(data) - 1)
        weight_ == rank % 100
    IN IF Len(data) = 1 THEN 100 * data[1]
       ELSE data[rank \div 100 + 1] * (100 - weight_) + (IF weight_ = 0 THEN 0 ELSE data[rank \div 100 + 2] * weight_)
Successes(seq) == Len(SelectSeq(seq, LAMBDA s : s.success))

-----------------------------------------------------------------------------
\* While the clock is never set back, what is told is of the requests of the
\* window, all of them, and of no other one; once it was, an older one is told only while
\* it stands behind one of the window.  The percentiles are in their order, between
\* the shortest and the longest, and half of the requests are on either side of
\* the median; nothing in a window of no failures is held against it.
LatencyTellsWindow ==
    LET told == Pruned(samples)
        low  == Min({s.latency : s \in ToSet(told)})
        high == Max({s.latency : s \in ToSet(told)})
        Upto(l) == Len(SelectSeq(told, LAMBDA s : s.latency <= l))
    IN  /\ ~ setBack => told = SelectSeq(sampled, Young)
        /\ \A i \in DOMAIN told : ~ Young(told[i]) => setBack /\ \E j \in 1..i - 1 : Young(told[j])
        /\ told # <<>> =>
              /\ 100 * low <= percentile(50) /\ percentile(50) <= percentile(95)
              /\ percentile(95) <= percentile(99) /\ percentile(99) <= 100 * high
              /\ \A l \in Latency : 100 * l >= percentile(50) => 2 * Upto(l) >= Len(told)
              /\ Len(SelectSeq(told, LAMBDA s : ~ s.success)) = 0 <=> Successes(told) = Len(told)

-----------------------------------------------------------------------------
(***************************************************************************)
(* The tokens of a conversation counted by category                        *)
(* (packages/core/src/context/ContextBudgetMonitor.ts) and the             *)
(* context_budget tool over it (packages/code/src/mcp/handler.ts).  Shares *)
(* are compared without division; estimates of text are tokens already.    *)
(***************************************************************************)
CONSTANTS
    Amounts,    \* tokens that may be added
    Configs,    \* [total, limits: a function on some categories, warn: percent]
    Usual,      \* DEFAULT_BUDGET_CONFIG
    Calls       \* bound: calls

VARIABLES
    config, usage,  \* the monitor's
    reply,      \* what the last call was and was told
    told        \* history: the calls that changed something

budgetVars == <<config, usage, reply, told>>

Category == {"code", "summary", "messages", "other"}

BudgetInit ==
    /\ config = Usual /\ usage = [c \in Category |-> 0]
    /\ reply = [action |-> "none"] /\ told = <<>>

Sum(used) == FoldFunction(+, 0, used)

\* checkBudget() and checkTotalBudget().
Judged(used, limit) ==
    [used |-> used, limit |-> limit, withinBudget |-> used <= limit,
     warning |-> limit > 0 /\ used <= limit /\ used * 100 >= limit * config.warn]
LimitOf(c) == IF c \in DOMAIN config.limits THEN config.limits[c] ELSE config.total
checkBudget(used, c) == Judged(used[c], LimitOf(c))
checkTotalBudget(used) == Judged(Sum(used), config.total)

Near(status) == status.warning \/ ~ status.withinBudget

getSuggestions(used) ==
    {c \in {"code", "messages"} : Near(checkBudget(used, c))}
    \cup (IF checkTotalBudget(used).withinBudget THEN {} ELSE {"all"})

Status ==
    /\ reply' = [action |-> "status", categories |-> [c \in Category |-> checkBudget(usage, c)],
                 total |-> checkTotalBudget(usage), suggestions |-> getSuggestions(usage)]
    /\ UNCHANGED <<config, usage, told>>

\* "add": nothing to add is refused, and suggestions come with a category that is near its limit only.
Counted_Last(c, n) == usage' = [usage EXCEPT ![c] = n]
Counted(c, n) == usage' = [usage EXCEPT ![c] = @ + n]
Add(c, n) ==
    /\ n > 0 /\ Len(told) < Calls
    /\ Counted(c, n)
    /\ reply' = LET status == checkBudget(usage', c)
                IN [action |-> "add", category |-> c, status |-> status,
                    suggestions |-> IF Near(status) THEN getSuggestions(usage') ELSE {}]
    /\ told' = Append(told, [add |-> n, of |-> {c}])
    /\ UNCHANGED config

ResetBudget(which) ==
    /\ Len(told) < Calls
    /\ usage' = [c \in Category |-> IF c \in which THEN 0 ELSE usage[c]]
    /\ reply' = [action |-> "reset"] /\ told' = Append(told, [add |-> 0, of |-> which])
    /\ UNCHANGED config

\* "configure": another monitor, which has counted nothing.
Configure(given) ==
    /\ Len(told) < Calls
    /\ config' = [given EXCEPT !.limits = [c \in DOMAIN @ \cup DOMAIN Usual.limits |->
                                  IF c \in DOMAIN given.limits THEN given.limits[c] ELSE Usual.limits[c]]]
    /\ usage' = [c \in Category |-> 0]
    /\ reply' = [action |-> "configure", total |-> given.total]
    /\ told' = Append(told, [add |-> 0, of |-> Category])

BudgetNext ==
    \/ Status
    \/ \E c \in Category : (\E n \in Amounts : Add(c, n)) \/ ResetBudget({c})
    \/ ResetBudget(Category)
    \/ \E g \in Configs : Configure(g)

BudgetSpec == BudgetInit /\ [][BudgetNext]_budgetVars

-----------------------------------------------------------------------------
\* What was added to a category since it was last reset.
Spent(c) ==
    LET mine == SelectSeq(told, LAMBDA e : c \in e.of)
    IN FoldLeft(LAMBDA n, e : IF e.add = 0 THEN 0 ELSE n + e.add, 0, mine)

\* A status tells what was added since the last reset, says that the whole is
\* too much exactly where it is, though every category may be within its own
\* limit, and never calls a budget passed and near at once; an answer to "add"
\* without a suggestion leaves code and messages below their warning if it was
\* them that grew (getSuggestions, contextBudgetAction).
BudgetIsTold ==
    /\ reply.action = "status" =>
          LET all == Spent("code") + Spent("summary") + Spent("messages") + Spent("other")
          IN /\ \A c \in Category : reply.categories[c].used = Spent(c)
             /\ "all" \in reply.suggestions <=> all > config.total
             /\ reply.suggestions = {} => all <= config.total /\
                   \A c \in {"code", "messages"} : Spent(c) * 100 < LimitOf(c) * config.warn \/ LimitOf(c) = 0
             /\ ~ (reply.total.warning /\ "all" \in reply.suggestions)
    /\ reply.action = "add" /\ reply.suggestions = {} /\ reply.category \in {"code", "messages"} =>
          LET c == reply.category
          IN Spent(c) <= LimitOf(c) /\ (Spent(c) * 100 < LimitOf(c) * config.warn \/ LimitOf(c) = 0)
===============================================================================
