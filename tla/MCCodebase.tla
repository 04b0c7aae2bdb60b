------------------------------ MODULE MCCodebase ------------------------------
(***************************************************************************)
(* What reads, judges and answers about a code base and its records, and   *)
(* what is kept and released with it, checked side by side in one run:     *)
(* `part` says which component is looked at, the others stay as they       *)
(* began.                                                                  *)
(***************************************************************************)
EXTENDS Integers, Sequences, FiniteSets, TLC

VARIABLES
    part,
    weight, symbols, hits,
    imports, entries, maxDepth, indexed, scope,
    content, strategy, cache, parsing, fileOf, made, took, parsed, seen,
    resolvers, current, closing, servers, up, begun, version, at, of, starts, answer, overlapped, closedUnder,
    doing, kind, uses, rest, outcome, stores, openStores, store, log, hasLog, orchestrators, orchestrator,
    pools, started, running, crowded, torn, strays, uncovered,
    config, usage, reply, told,
    package, registry, latest, run, results, edits, runs, put, between,
    table, options,
    logs, days, filter,
    columns, opener, lacks, ledger, together,
    tokens, command, trail, clock, halted, raced, muddled,
    samples, time, sampled, setBack,
    tree, touched, unread, hygiene, head, upstream, main, origin, pr,
    notes, home, templates,
    thing, cluster, rules, policy,
    target, counts, best, resolution, tries, done

finderVars  == <<resolvers, current, closing, servers, up, begun, version, at, of, starts, answer, overlapped, closedUnder>>
toolVars    == <<doing, kind, uses, rest, outcome, stores, openStores, store, log, hasLog, orchestrators, orchestrator,
                 pools, started, running, crowded, torn, strays, uncovered>>
budgetVars  == <<config, usage, reply, told>>
releaseVars == <<package, registry, latest, run, results, edits, runs, put, between>>
searchVars  == <<target, counts, best, resolution, tries, done>>
parseVars   == <<content, strategy, cache, parsing, fileOf, made, took, parsed, seen>>
ledgerVars  == <<columns, opener, lacks, ledger, together>>
haltVars    == <<tokens, command, trail, clock, halted, raced, muddled>>
trackVars   == <<samples, time, sampled, setBack>>
shipVars    == <<head, upstream, main, origin, pr>>
pureVars    == <<weight, symbols, hits, imports, entries, maxDepth, indexed, scope, table, options, thing, cluster,
                 rules, policy, logs, days, filter, tree, touched, unread, hygiene, notes, home, templates>>

CONSTANTS
    Lines, Weights, Names, Symbols, MaxWeight, MaxLines, Scores, Hits, Gap,     \* chunks
    File, Unsupported, Depths, Named, Tests, Scopes, Few, Many,                 \* imports, summary
    Strategies,                                                                 \* parser
    Caller, Servers, Resolvers, Edits,                                          \* finder
    Call, Role, Made,                                                           \* tools
    Amounts, Calls,                                                             \* budget
    Count, Version, Changes, Runs,                                              \* release
    Rows, Columns, Cells, Limits,                                               \* csv
    MaxLogs, Now, DayLength, Given,                                             \* tokens
    Opener, NewColumns, MostTold, MaxRows,                                      \* ledger
    Operator, Session, MaxEvents, MaxClock,                                     \* halts
    Latency, TrackWindow, MaxTime, MaxSamples,                                  \* latency
    Drafts, Commits,                                                            \* hygiene
    MaxNotes, MaxIssues,                                                        \* vault
    Size, Capability, RowLimits,                                                \* graph
    Nodes, Targets, Iterations                                                  \* search

Entries == {<<1>>, <<3, 1>>}
Answers == {<< <<1>>, <<>> >>, << <<1, 3>>, <<1>> >>, << <<>>, <<>> >>}

Usual == [total |-> 15, limits |-> [code |-> 8, summary |-> 3, messages |-> 4], warn |-> 80]
Tight == [total |-> 3, limits |-> [code |-> 0, other |-> 2], warn |-> 50]
Configs == {Usual, Tight}

\* No index, one that knows a file of each kind, one that knows the entry points, a whole one.
Indexes == {{}, {1, 4}, {2, 3}, File}

Needs == <<{}, {1}>>

Digits == {<<"1">>, <<"2">>}
Text   == {<<>>, <<"q", ",">>}
Wanted == {<<"1">>, <<"q", ",">>}

Source(k, p, l) == [kind |-> k, path |-> p, label |-> l, language |-> "ts", topic |-> 0]
Doc(t) == [kind |-> "doc", path |-> <<>>, label |-> "doc", language |-> "md", topic |-> t]
Thing ==
    {Source("file", <<"auth", "a">>, "a"), Source("file", <<"auth", "in", "b">>, "b"), Source("file", <<"c">>, "c"),
     Source("symbol", <<"auth", "in", "b">>, "s"), Source("symbol", <<"c">>, "s"), Doc(1)}
Rule(under, allow, deny) == [under |-> under, allow |-> allow, deny |-> deny]
RuleLists ==
    {<<>>,
     <<Rule(<<"auth">>, {"read"}, {}), Rule(<<>>, {}, {"read"})>>,
     <<Rule(<<"auth", "in">>, {}, {"read"}), Rule(<<"auth">>, {"read"}, {})>>}
Policies == {[allowed |-> {<<"auth", "a">>, <<"auth", "in", "b">>, <<"c">>}, denied |-> {<<"c">>}]}

\* Two texts, of which the last is no program.
Hash == [t \in {"a", "b"} |-> IF t = "a" THEN 1 ELSE 2]

\* Logs with an event of now, one from before the window, one without a date or usage.
Event(type, when, dated, used) ==
    [type |-> type, at |-> when, dated |-> dated, used |-> used, input |-> 1, cacheRead |-> 4, cacheCreate |-> 2, output |-> 3]
Events == {Event("assistant", Now, TRUE, TRUE), [Event("assistant", Now - DayLength, TRUE, TRUE) EXCEPT !.input = 9],
           Event("assistant", 0, TRUE, TRUE), Event("assistant", Now, FALSE, TRUE),
           Event("assistant", Now, TRUE, FALSE), Event("garbage", Now, TRUE, TRUE)}
Log == [cwd : {"x"}, lines : {<<e>> : e \in Events}, breaks : {9}]
  \cup [cwd : {"y"}, lines : {<<e, Event("assistant", Now, TRUE, TRUE)>> : e \in Events}, breaks : {1, 9}]
Rate == [input |-> 15, cacheRead |-> 1, cacheCreate |-> 18, output |-> 75]

Entry == {[session |-> "s", tool |-> t, result |-> r, tokens |-> IF t = "t" THEN 0 ELSE 5] :
             t \in {"t", "u"}, r \in {"success", "error"}}
Queries == [session : {"any", "s"}, tool : {"any", "t"}, result : {"any", "error"}, since : {0, 2}, limit : {0, 1}]

\* Three files, two in one folder with one name; a folder of snapshots, a result and its source.
Folder == <<"a", "b", "b">>
Base   == <<"x", "x", "y">>
Length == [c |-> 1, d |-> 1, e |-> 0]
Config == {[allowed |-> {}, scopes |-> {}, pairs |-> {}],
           [allowed |-> {"y"}, scopes |-> {{"b"}}, pairs |-> {[derived |-> {2}, source |-> {1}]}],
           [allowed |-> {"x"}, scopes |-> {{"a", "b"}}, pairs |-> {[derived |-> {1, 3}, source |-> {2}]}]}

\* Notes that differ from a plain one in what the rules look at; the name of the home is 9.
Axis  == <<"memory", "audit">>
Plain == [folder |-> "memory", axis |-> "memory", name |-> 1, title |-> 0, links |-> {}, status |-> "active",
          supersedes |-> 0, ref |-> 0, complete |-> TRUE, canonical |-> "none"]
Audited == [Plain EXCEPT !.folder = "audit", !.axis = "audit", !.name = 2]
Note ==
    {[Plain EXCEPT !.title = t, !.status = st] : t \in {0, 3}, st \in {"active", "archived"}}
    \cup {[Plain EXCEPT !.links = l, !.supersedes = n] : l \in {{2}, {3}, {2, 9}}, n \in {0, 3}}
    \cup {[Audited EXCEPT !.title = t, !.status = st, !.ref = r] : t \in {0, 3}, st \in {"active", "archived"}, r \in {0, 7}}
    \cup {[Audited EXCEPT !.links = {1}, !.axis = a] : a \in {"audit", "memory", "none"}}
    \cup {[Plain EXCEPT !.complete = FALSE], [Plain EXCEPT !.canonical = "broken", !.name = 4]}
Home == [where : {"00 Home.md", "Home.md"}, version : BOOLEAN, name : {9}, links : {{}, {1, 3}}]
   \cup {[where |-> "none", version |-> FALSE, name |-> 9, links |-> {}]}

Reading == INSTANCE CodeReading WITH text <- content, at <- parsing, uses <- made, read <- took, told <- parsed,
                                     Call <- Caller, Path <- {1}, Text <- {"a", "b"}, Faulty <- {"b"},
                                     Language <- [p \in {1} |-> "x"]
Finder  == INSTANCE SymbolFinder WITH started <- begun
Board   == INSTANCE ToolHandler WITH at <- doing, closedUnder <- torn, Kind <- {"use", "clear", "close"}
Agents  == INSTANCE ToolHandler WITH at <- doing, closedUnder <- torn, Kind <- {"pool", "shutdown", "close"}
Scripts == INSTANCE RepoScripts WITH Edits <- Changes, config <- hygiene, Path <- 1..3, Content <- {"c", "d", "e"}
Kept    == INSTANCE Records WITH crowded <- together
Graph   == INSTANCE GraphUse

Pinned ==
    /\ part # "chunks" => weight = <<0>> /\ symbols = {} /\ hits = <<>>
    /\ part \notin {"imports", "summary"} => imports = [f \in File |-> {}]
    /\ part # "imports" => entries = <<1>> /\ maxDepth = 9
    /\ IF part = "summary" THEN indexed \in Indexes ELSE indexed = {} /\ scope = File
    /\ part # "parser" => content = [p \in {1} |-> "gone"] /\ strategy = [x \in {"x"} |-> 0]
    /\ part # "tokens" => logs = <<>> /\ days = 0 /\ filter = {"all"}
    /\ part # "ledger" => columns = 0
    /\ part # "halts" => trail = <<>>
    /\ part # "hygiene" => origin = -1
    /\ part # "copies" =>
          /\ tree = [p \in 1..3 |-> "none"] /\ touched = [p \in 1..3 |-> 1] /\ unread = {}
          /\ hygiene = CHOOSE c \in Config : c.allowed = {}
    /\ part # "vault" => notes = <<>> /\ templates = TRUE /\ home = CHOOSE h \in Home : h.where = "none"
    /\ part # "csv" =>
          /\ table = << << <<>> >> >>
          /\ options = [hasHeaders |-> TRUE, maxRows |-> 0, limit |-> 0, where |-> <<>>, columns |-> "all"]
    /\ part # "graph" =>
          /\ thing = [n \in 1..Size |-> Doc(1)] /\ cluster = [n \in 1..Size |-> 0]
          /\ rules = <<>> /\ policy \in Policies
    /\ part # "search" => target = 0 /\ counts = (0 :> 1)
    /\ part # "npm" => package = [p \in 1..Count |-> [readable |-> TRUE, open |-> TRUE, ready |-> TRUE, version |-> 2]]

PartInit ==
    /\ part \in {"chunks", "imports", "finder", "board", "agents", "budget", "npm", "csv", "graph", "search",
                "summary", "parser", "tokens", "ledger", "hygiene", "copies", "vault",
                "halts", "latency"}
    /\ Pinned
    /\ Reading!ChunkInit /\ Reading!ImportInit /\ Reading!ParseInit /\ Finder!Init /\ Board!Init /\ Kept!BudgetInit
    /\ Scripts!ReleaseInit /\ Scripts!HygieneInit /\ Kept!CsvInit /\ Kept!TokenInit /\ Kept!LedgerInit
    /\ Kept!HaltInit /\ Kept!TrackInit
    /\ Graph!GraphInit /\ Graph!SearchInit /\ Scripts!VaultInit

Still(ps, v) == IF part \in ps THEN TRUE ELSE UNCHANGED v

PartNext ==
    /\ UNCHANGED part
    /\ \/ part = "finder" /\ Finder!Next
       \/ part = "board"  /\ Board!Next
       \/ part = "agents" /\ Agents!Next
       \/ part = "budget" /\ Kept!BudgetNext
       \/ part = "npm"    /\ Scripts!ReleaseNext
       \/ part = "search" /\ Graph!SearchNext
       \/ part = "parser" /\ Reading!ParseNext
       \/ part = "ledger" /\ Kept!LedgerNext
       \/ part = "halts" /\ Kept!HaltNext
       \/ part = "latency" /\ Kept!TrackNext
       \/ part = "hygiene" /\ Scripts!HygieneNext
    /\ UNCHANGED pureVars
    /\ Still({"finder"}, finderVars) /\ Still({"board", "agents"}, toolVars)
    /\ Still({"budget"}, budgetVars) /\ Still({"npm"}, releaseVars) /\ Still({"search"}, searchVars)
    /\ Still({"parser"}, parseVars) /\ Still({"ledger"}, ledgerVars) /\ Still({"hygiene"}, shipVars)
    /\ Still({"halts"}, haltVars) /\ Still({"latency"}, trackVars)

PartSpec ==
    PartInit /\ [][PartNext]_<<part, finderVars, toolVars, budgetVars, releaseVars, searchVars, parseVars, ledgerVars,
                               shipVars, haltVars, trackVars, pureVars>>

\* What each module states, for its part.
CodeIsCutWhole ==
    /\ part = "chunks" => Reading!ChunksAreWhole /\ Reading!HitsAreJoined
    /\ part = "parser" => Reading!ParsedAsRead
    /\ part = "csv" => Kept!CsvIsReadBack
AnswersAreWhole ==
    /\ part = "imports" => Reading!WalkIsWhole /\ Reading!PathsAreShortest
    /\ part = "summary" => Reading!SummaryCoversScope
    /\ part = "graph" => Graph!GraphIsToldAlike /\ Graph!RulesAreOrderless
    /\ part = "search" => Graph!NearestIsKept
    /\ part = "tokens" => Kept!ReportAddsUp
    /\ part = "ledger" => Kept!LedgerTellsAlike
    /\ part = "halts" => Kept!HaltIsKept
    /\ part = "latency" => Kept!LatencyTellsWindow
    /\ part = "vault" => Scripts!VaultIsJudged
    /\ part \in {"hygiene", "copies"} => Scripts!HygieneTells
NothingIsLeftBehind ==
    /\ part = "finder" => Finder!ServersAreOwned
    /\ part \in {"board", "agents"} => Board!StoresAreOwned /\ Board!PoolsAreOwned
    /\ part = "budget" => Kept!BudgetIsTold
    /\ part = "npm" => Scripts!EndTellsTheRegistry /\ Scripts!LatestIsStable

Symmetry == Permutations(Call) \cup Permutations(Caller)
===============================================================================
