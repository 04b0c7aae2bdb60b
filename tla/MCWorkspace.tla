----------------------------- MODULE MCWorkspace -----------------------------
(***************************************************************************)
(* What the code package keeps of a workspace, and what the scripts beside *)
(* it ask before a deploy, side by side in one run: `part` says which      *)
(* component moves, the others stay as they began.                         *)
(***************************************************************************)
EXTENDS TaskBoard

VARIABLES
    part,
    disk, snapshots, knows, doing, checked, recorded,
    file, options, stage, iteration, lastFixCount, errors, fixes, read, applied, initialErrors,
        status, edits, tangled, sound,
    tree, taken, diffs,
    written, cycle, shared,
    git, rooted, quoted, head, staged, work, fileIndex, state, step, indexing, changes, began, quiet,
    watching, reports, pendingChanges, debounceTimer, told, events, owed,
    tasks, clusters, candidates, hosts,
    graph, overlay, asked, answer,
    now, gated, products, advice, unjudged, groups, moves, since,
    site, stamp, commits, air, gateUp, register, deploy, look, hours, siteEdits, uploads, bound, sure

guardVars   == <<disk, snapshots, knows, doing, checked, recorded>>
fixerVars   == <<file, options, stage, iteration, lastFixCount, errors, fixes, read, applied,
                 initialErrors, status, edits, tangled, sound>>
diffVars    == <<tree, taken, diffs>>
tddVars     == <<written, cycle, shared>>
indexVars   == <<git, rooted, quoted, head, staged, work, fileIndex, state, step, indexing, changes, began, quiet>>
watchVars   == <<watching, reports, pendingChanges, debounceTimer, told, events, owed>>
similarVars == <<tasks, clusters, candidates, hosts>>
graphVars   == <<graph, overlay, asked, answer>>
gateVars    == <<now, gated, products, advice, unjudged, groups, moves, since>>
deployVars  == <<site, stamp, commits, air, gateUp, register, deploy, look, hours, siteEdits,
                 uploads, bound, sure>>

CONSTANTS
    t1, t2, t3, t4, k,                              \* board
    Agent, Guarded, Versions, NoContent,            \* guard
    MaxIterations, MaxFixes, Edits,                 \* fixer
    Cycle, Test, Code, Right,                       \* tdd: implementations the tests accept
    Path, Body, NoFile, Changes,                    \* diff, index
    Name, NoName, Ignored, Debounce, Events,        \* watch
    Node, Kind, KindSets, MaxHops, Limits,          \* graph
    Product, Horizon, Moves,                        \* gate
    Public, Page, Asset, Gated, Unseen, Put, MaxHours   \* deploy

\* The processes of the board are alike.
Symmetry == Permutations(Process)

-----------------------------------------------------------------------------
\* A line of three tasks, the first and the last on one topic, one keyed; as it is, with
\* the first task closed and the keyed one failed, to be run again, and with the first
\* archived while its child and the copy are open.
MCTopic == [la |-> "site", lb |-> "site", lc |-> "mail"]
Line == [t \in {t1, t2, t3} |->
            CASE t = t1 -> [NewRow("la", None) EXCEPT !.notes = {0}]
              [] t = t2 -> NewRow("lc", t1)
              [] t = t3 -> [NewRow("lb", t2) EXCEPT !.key = k]]
Done == [Line EXCEPT ![t1].status = "completed", ![t1].closed = TRUE, ![t3].status = "failed"]
Away == [Line EXCEPT ![t1].status = "failed", ![t1].obsolete = TRUE]
MCBoards == {Line, Done, Away}

\* Three lines with nothing wrong, one thing or two.
Flawed(n, f) == [id |-> n, flaws |-> f]
SomeFiles == {<<Flawed(1, a), Flawed(2, b), Flawed(3, c)>> :
                a \in {{}, {"unused"}, {"other"}},
                b \in {{}, {"semi"}, {"semi", "unused"}, {"unused"}},
                c \in {{}, {"quotes"}}}

\* Every file of up to four lines of two kinds.
ShortFiles == UNION {[1..n -> {"x", "y"}] : n \in 0..4}

\* Labels alike two by two in a row, one with two designators; rows that are old, running, done.
SomeLabel(text, prefix, product, desig) ==
    [text |-> text, prefix |-> prefix, product |-> product, desig |-> desig]
Labels == [a |-> SomeLabel("a", "os", "p", <<<<"os", 1>>>>),
           b |-> SomeLabel("b", "os", "none", <<>>),
           c |-> SomeLabel("c", "os", "p", <<<<"os", 2>>>>),
           d |-> SomeLabel("a", "fix", "q", <<<<"os", 1>>, <<"os", 2>>>>),
           e |-> SomeLabel("e", "fix", "quay", <<>>)]
Abbreviated == {<<"q", "quay">>}
Close == {{"a", "b"}, {"b", "c"}, {"a", "e"}}
Likeness == [s \in {{x, y} : x, y \in {"a", "b", "c", "e"}} |-> IF s \in Close THEN 78 ELSE 55]
Entry(l, st, ph, age, ob) ==
    [label |-> l, status |-> st, phase |-> ph, age |-> age, obsolete |-> ob, renewed |-> age = 3,
     parent |-> IF l = "e" THEN 1 ELSE 0, refs |-> IF l \in {"c", "e"} THEN {"r"} ELSE {}]
Entries == {Entry(l, "pending", ph, age, FALSE) : l \in DOMAIN Labels, ph \in {"todo", "built"}, age \in {1, 3}}
    \cup {Entry("a", "completed", "todo", 2, FALSE), Entry("b", "running", "todo", 4, FALSE),
          Entry("e", "pending", "todo", 2, TRUE)}
SomeBoards == {r \o <<Entry("b", "pending", "todo", 2, FALSE), Entry("c", "pending", "todo", 2, FALSE)>> :
                  r \in [1..2 -> Entries]}

\* A line, a star with a node that is not there, double edges and a loop, a ring; clusters
\* that overlap, repeat a member or an id.
Vertex(i, kind) == [id |-> i, kind |-> kind]
Arc(i, a, b) == [id |-> i, source |-> a, target |-> b]
Group(i, members) == [id |-> i, members |-> members]
InOrder    == <<Vertex(1, "doc"), Vertex(2, "symbol"), Vertex(3, "doc"), Vertex(4, "fact")>>
Repeated   == <<Vertex(2, "doc"), Vertex(1, "symbol"), Vertex(2, "fact"), Vertex(3, "symbol")>>
LineOfArcs == <<Arc(1, 1, 2), Arc(2, 2, 3), Arc(3, 3, 4)>>
Star       == <<Arc(1, 1, 5), Arc(1, 2, 1), Arc(2, 1, 3), Arc(2, 3, 4)>>
Doubled    == <<Arc(1, 1, 2), Arc(2, 1, 2), Arc(3, 4, 4), Arc(4, 2, 1)>>
Ring       == <<Arc(1, 1, 3), Arc(2, 3, 4), Arc(3, 4, 1), Arc(4, 2, 4)>>
Overlap    == <<Group(1, <<1, 2>>), Group(2, <<2, 3>>)>>
Spoilt     == <<Group(1, <<5>>), Group(1, <<3, 3, 4>>), Group(2, <<3>>), Group(3, <<1>>)>>
Inputs == [nodes : {InOrder}, edges : {<<>>, LineOfArcs, Star, Doubled, Ring}, clusters : {<<>>}]
     \cup [nodes : {InOrder, Repeated}, edges : {Star}, clusters : {Overlap, Spoilt}]

Weights == [kind \in {"doc", "symbol", "fact"} |->
                CASE kind = "doc" -> 4 [] kind = "symbol" -> 2 [] kind = "fact" -> 0]

\* Two copies and a task that is like them, whose owner has tagged it; and a task from
\* before progress was recorded, with one that is like it.
Held(l, st, ph, progress) ==
    [Entry(l, st, ph, 0, FALSE) EXCEPT !.renewed = FALSE] @@
    [updatedAt |-> 0, progressAt |-> progress, until |-> -1, renewedAt |-> -1, saysMissing |-> l = "b"]
GatedBoards == {<<Held("a", "pending", "todo", 0), Held("a", "pending", "built", 0), Held("b", "running", "todo", 0)>>,
                <<Held("a", "pending", "todo", -1), Held("b", "pending", "todo", 0)>>}
TaggedWith == [l \in DOMAIN Labels |-> IF l = "b" THEN Product ELSE {}]
NamedIn    == [l \in DOMAIN Labels |-> IF l \in {"a", "b"} THEN Product ELSE {}]

\* One site that is edited and left, and one that is deployed twice.
SiteBounds == {[horizon |-> 3, edits |-> 2, uploads |-> 0], [horizon |-> 0, edits |-> 1, uploads |-> 2]}

-----------------------------------------------------------------------------
Guard   == INSTANCE EditGuard WITH at <- doing, File <- Guarded, Content <- Versions
Fixer   == INSTANCE AutoFix WITH at <- stage, Files <- SomeFiles,
                                 disk <- tree, snapshots <- taken, Texts <- ShortFiles,
                                 Accepts <- Test \X Right
Indexer == INSTANCE FileIndex WITH at <- step, run <- indexing, edits <- changes,
                                   Content <- Body, Edits <- Changes
Similar == INSTANCE TaskSimilarity WITH Label <- Labels, Like <- Likeness, Boards <- SomeBoards,
                                        Short <- Abbreviated, Common <- 2,
                                        StaleDays <- 1, MinGroup <- 2, RunningHours <- 48
Graph   == INSTANCE KnowledgeGraph WITH Inputs <- Inputs, Weight <- Weights
Gate    == INSTANCE TaskHygiene WITH tasks <- gated, left <- moves, Boards <- GatedBoards,
                Label <- Labels, Like <- Likeness, Short <- Abbreviated, Common <- 4,
                Tagged <- TaggedWith, Named <- NamedIn,
                StaleDays <- 1, RunningHours <- 24, RenewMaxDays <- 1
Deploy  == INSTANCE DeployGate WITH work <- site, now <- hours, edits <- siteEdits,
                File <- Public, Content <- Put, Bounds <- SiteBounds

\* A part that does not move stands in one of its initial states.
PartInit ==
    /\ part \in {"board", "guard", "fixer", "diff", "tdd", "index", "watch", "similar", "graph", "gate", "deploy"}
    /\ part # "board"   => board = Line
    /\ part # "guard"   => disk = [f \in Guarded |-> CHOOSE v \in Versions : TRUE]
    /\ part # "fixer"   => /\ file = CHOOSE f \in SomeFiles : TRUE
                           /\ options = [dryRun |-> FALSE, confident |-> FALSE, resolves |-> TRUE]
    /\ part # "diff"    => tree = [p \in Path |-> <<>>]
    /\ part # "tdd"     => written = [test |-> Fixer!Absent, code |-> Fixer!Absent]
    /\ part # "index"   => git = FALSE /\ head = [p \in Path |-> NoFile]
    /\ part # "similar" => tasks = CHOOSE b \in SomeBoards : TRUE
    /\ part # "gate"    => gated = CHOOSE b \in GatedBoards : TRUE
    /\ part # "deploy"  => bound = CHOOSE b \in SiteBounds : TRUE
    /\ Init /\ Guard!Init /\ Fixer!Init /\ Fixer!DiffInit /\ Fixer!TddInit /\ Indexer!Init /\ Indexer!WatchInit
    /\ Similar!Init /\ Graph!Init /\ Gate!Init /\ Deploy!Init

Still(p, v) == IF part = p THEN TRUE ELSE UNCHANGED v

PartNext ==
    /\ UNCHANGED part
    /\ \/ part = "board"   /\ Next
       \/ part = "guard"   /\ Guard!Next
       \/ part = "fixer"   /\ Fixer!Next
       \/ part = "diff"    /\ Fixer!DiffNext
       \/ part = "tdd"     /\ Fixer!TddNext
       \/ part = "index"   /\ Indexer!Next
       \/ part = "watch"   /\ Indexer!WatchNext
       \/ part = "similar" /\ Similar!Next
       \/ part = "graph"   /\ Graph!Next
       \/ part = "gate"    /\ Gate!Next
       \/ part = "deploy"  /\ Deploy!Next
    /\ Still("board", vars)        /\ Still("guard", guardVars)
    /\ Still("fixer", fixerVars)   /\ Still("diff", diffVars)
    /\ Still("tdd", tddVars)
    /\ Still("index", indexVars)   /\ Still("watch", watchVars)
    /\ Still("similar", similarVars) /\ Still("graph", graphVars)
    /\ Still("gate", gateVars)     /\ Still("deploy", deployVars)

PartSpec ==
    PartInit /\ [][PartNext]_<<part, vars, guardVars, fixerVars, diffVars, tddVars, indexVars, watchVars,
                               similarVars, graphVars, gateVars, deployVars>>

\* What each module states, for its part.
BoardStaysSound       == part = "board" => TreeStaysATree /\ OneOpenPerKey /\ NoNoteLost
EditsAreSafe ==
    /\ part = "guard" => Guard!PlannedOnTheFile
    /\ part = "fixer" => Fixer!SoundLinesSurvive
    /\ part = "tdd" => Fixer!CyclesTellTests
LeastIsTold           == part = "diff" => Fixer!LeastIsTold
NoChangeIsMissed ==
    /\ part = "index" => Indexer!IndexFollowsTree
    /\ part = "watch" => Indexer!NoChangeForgotten
ClustersAreComponents == part = "similar" => Similar!ClustersAreComponents
GateIsFair            == part = "gate" => Gate!OneIsKept /\ Gate!SilenceEnds
ReleasesAreTold       == part = "deploy" => Deploy!ProvedIsTrue /\ Deploy!WaitingIsTold
GraphTellsItsEdges    == part = "graph" => Graph!OverlayIsPartition /\ Graph!NearerOrHeavierFirst
===============================================================================
