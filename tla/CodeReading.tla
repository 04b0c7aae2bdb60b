------------ MODULE CodeReading ----------------------------------------------
(***************************************************************************)
(* How the code package reads code: files cut into chunks, the graph of    *)
(* their imports and the summary made of it, and the parser that keeps     *)
(* what it has made.                                                       *)
(***************************************************************************)
EXTENDS Naturals, Sequences, FiniteSets, SequencesExt, FiniteSetsExt

(***************************************************************************)
(* Cutting a source file into pieces for retrieval along its functions and *)
(* classes (packages/code/src/indexer/cast-chunker.ts), and joining the    *)
(* hits of a search that lie next to each other                            *)
(* (packages/code/src/retrieval/grep-rag.ts).  A line is what it weighs;   *)
(* a symbol is its lines and its name, which keeps equal ranges apart.     *)
(***************************************************************************)
CONSTANTS
    Lines,      \* files have up to so many lines
    Weights,    \* non-blank characters of a line
    Names,      \* names of symbols
    Symbols,    \* bound: symbols of a file
    MaxWeight, MaxLines,
    Scores, Hits, Gap

VARIABLES
    weight,     \* the file: the weight of each of its lines
    symbols,    \* what the parser found in it
    hits        \* hits of a search in one file, in any order

SymbolsOf(n) == [start : 1..n, end : 1..n, name : Names]

ChunkInit ==
    /\ \/ /\ weight \in UNION {[1..n -> Weights] : n \in 1..Lines}
          /\ symbols \in UNION {kSubset(k, {s \in SymbolsOf(Len(weight)) : s.start <= s.end}) : k \in 0..Symbols}
          /\ hits = <<>>
       \/ /\ weight = <<0>> /\ symbols = {}
          /\ hits \in UNION {[1..k -> [start : 1..Lines, end : 1..Lines, score : Scores]] : k \in 1..Hits}
          /\ \A i \in DOMAIN hits : hits[i].start <= hits[i].end

\* nonWsSize()
WeightOf(a, b) == FoldLeft(+, 0, SubSeq(weight, a, b))

Before(s, t) == s.start < t.start \/ (s.start = t.start /\ (s.end > t.end \/ (s.end = t.end /\ s.name < t.name)))
Within(s, a, b) == a <= s.start /\ s.end <= b
Holds(p, s) == p.start <= s.start /\ s.end <= p.end /\ <<p.start, p.end>> # <<s.start, s.end>>

\* hardSplit(): pieces of a region, as many lines as fit into each.
RECURSIVE HardSplit(_, _, _)
HardSplit(a, b, kind) ==
    IF a > b THEN <<>>
    ELSE LET fits == {e \in a..b : \A k \in a + 1..e : k - a < MaxLines /\ WeightOf(a, k) <= MaxWeight}
         IN <<[start |-> a, end |-> Max(fits), kind |-> kind]>> \o HardSplit(Max(fits) + 1, b, kind)

\* A region as the symbols that no other of them holds, and what lies between.
Placed(a, roots) ==
    FoldLeft(LAMBDA acc, s :
        LET gap == IF s.start > acc.cursor THEN <<[start |-> acc.cursor, end |-> s.start - 1, syms |-> {}]>> ELSE <<>>
        IN [out |-> acc.out \o gap \o <<[start |-> s.start, end |-> s.end, syms |-> {s}]>>, cursor |-> s.end + 1],
        [out |-> <<>>, cursor |-> a], roots)
Blocks_NoTail(a, b, roots) == Placed(a, roots).out
Blocks(a, b, roots) ==
    LET p == Placed(a, roots)
    IN IF p.cursor <= b THEN Append(p.out, [start |-> p.cursor, end |-> b, syms |-> {}]) ELSE p.out

Oversized(blk) == WeightOf(blk.start, blk.end) > MaxWeight \/ blk.end - blk.start + 1 > MaxLines

\* packRegion(): blocks are merged while they fit, one too large is cut further.
RECURSIVE Pack(_, _, _)
Pack(a, b, S) ==
    LET roots  == {s \in S : Within(s, a, b) /\ ~ \E p \in S \ {s} : Holds(p, s)}
        flush(acc) == IF acc.from = 0 THEN acc.out ELSE Append(acc.out, [start |-> acc.from, end |-> acc.to, kind |-> "symbol"])
        cut(blk) == LET inner == {c \in S \ blk.syms : Within(c, blk.start, blk.end)}
                    IN  CASE blk.syms = {} -> HardSplit(blk.start, blk.end, "gap")
                          [] blk.syms # {} /\ inner = {} -> HardSplit(blk.start, blk.end, "split")
                          [] OTHER -> Pack(blk.start, blk.end, inner)
        add(acc, blk) ==
            IF Oversized(blk) THEN [out |-> flush(acc) \o cut(blk), from |-> 0, to |-> 0]
            ELSE IF acc.from # 0 /\ WeightOf(acc.from, blk.end) > MaxWeight
                 THEN [out |-> flush(acc), from |-> blk.start, to |-> blk.end]
                 ELSE [acc EXCEPT !.from = IF @ = 0 THEN blk.start ELSE @, !.to = blk.end]
    IN  IF roots = {} THEN HardSplit(a, b, "gap")
        ELSE flush(FoldLeft(add, [out |-> <<>>, from |-> 0, to |-> 0],
                            Blocks(a, b, SetToSortSeq(roots, Before))))

chunkSource == Pack(1, Len(weight), symbols)

\* mergeOverlappingHits(), for the hits in one file.
Sorted(hs) == SortSeq(hs, LAMBDA g, h : g.start < h.start \/ (g.start = h.start /\ g.end < h.end))
mergeOverlappingHits ==
    FoldLeft(LAMBDA out, h :
        IF out # <<>> /\ h.start <= Last(out).end + Gap
        THEN [out EXCEPT ![Len(out)] = [@ EXCEPT !.end = Max({@, h.end}), !.score = Max({@, h.score})]]
        ELSE Append(out, h), <<>>, Sorted(hits))

-----------------------------------------------------------------------------
Apart(s, t) == s.end < t.start \/ t.end < s.start
Covers(c, l) == c.start <= l /\ l <= c.end

\* "Every line of the source lands in exactly one chunk" (cast-chunker.ts:14),
\* in the order of the file, where symbols lie apart or one within another; in
\* any case none is lost.  A piece that weighs too much is one line, and a piece
\* cuts only a symbol too large to be kept whole.
ChunksAreWhole ==
    LET chunks == chunkSource
        tidy == \A s, t \in symbols : s = t \/ Apart(s, t) \/ Holds(s, t) \/ Holds(t, s)
    IN  hits = <<>> =>
        /\ \A l \in DOMAIN weight : \E i \in DOMAIN chunks : Covers(chunks[i], l)
        /\ tidy => \A i, j \in DOMAIN chunks : i < j => chunks[i].end < chunks[j].start
        /\ \A i \in DOMAIN chunks :
              tidy /\ WeightOf(chunks[i].start, chunks[i].end) > MaxWeight => chunks[i].start = chunks[i].end
        /\ tidy => \A s \in symbols, i \in DOMAIN chunks :
              \/ Apart(s, chunks[i]) \/ Within(s, chunks[i].start, chunks[i].end) \/ Oversized([start |-> s.start, end |-> s.end])

\* Hits that overlap or are within the gap become one, with the best score among
\* them, whatever order they came in; what was hit stays covered, and what is
\* covered was hit or lies in a gap (mergeOverlappingHits).
HitsAreJoined ==
    LET out == mergeOverlappingHits
        near(i) == {j \in DOMAIN hits : out[i].start <= hits[j].start /\ hits[j].end <= out[i].end}
    IN  /\ \A i, j \in DOMAIN out : i < j => out[i].end + Gap < out[j].start
        /\ \A j \in DOMAIN hits : \E i \in DOMAIN out : j \in near(i)
        /\ \A i \in DOMAIN out :
              /\ out[i].score = Max({hits[j].score : j \in near(i)})
              /\ \A l \in out[i].start..out[i].end : \E j \in near(i) : hits[j].start <= l /\ l <= hits[j].end + Gap

-----------------------------------------------------------------------------
(***************************************************************************)
(* The graph of the files a set of entry points imports                    *)
(* (packages/code/src/analysis/RecursiveScout.ts): a walk in depth that    *)
(* takes each file once, as deep as it is told to, and notes the cycles it *)
(* meets; the files nobody imports and those that import nothing; the path *)
(* from one file to another; and the summary of a scope that is made from  *)
(* the files the index has, or from those a glob finds (mcp/handler.ts).   *)
(***************************************************************************)
CONSTANTS
    File,           \* numbers; a file imports others in their order
    Unsupported,    \* files no parser is for
    Entries,        \* sequences of entry points
    Depths,         \* values of maxDepth
    Named, Tests,   \* files with the name of an entry point, and of a test
    Scopes, Few, Many   \* sets of files with a prefix; entry points taken, roots taken

VARIABLES
    imports,        \* [File -> the files it imports that exist]
    entries, maxDepth,
    indexed,        \* the files in the index
    scope           \* those the scope is a prefix of

ImportInit ==
    /\ imports \in [File -> SUBSET File]
    /\ \A f \in File : f \notin imports[f] /\ (f \in Unsupported => imports[f] = {})
    /\ entries \in Entries /\ maxDepth \in Depths
    /\ indexed \in SUBSET File /\ scope \in Scopes

Order(set) == SetToSortSeq(set, <)

\* walkDependencies(): the order of the checks is that of the code, so that a file
\* on the path counts as a cycle though it was visited.
RECURSIVE Walk(_, _, _)
Walk(f, path, st) ==
    IF Len(path) > maxDepth THEN st
    ELSE IF f \in ToSet(path)
         THEN [st EXCEPT !.cycles = Append(@, SubSeq(path, SelectInSeq(path, LAMBDA g : g = f), Len(path)))]
    ELSE IF f \in st.visited THEN st
    ELSE IF f \in Unsupported THEN [st EXCEPT !.visited = @ \cup {f}]
    ELSE FoldLeft(LAMBDA s, d : Walk(d, Append(path, f), s),
                  [st EXCEPT !.visited = @ \cup {f}, !.nodes = @ \cup {f}], Order(imports[f]))

Walked(from) == FoldLeft(LAMBDA s, e : Walk(e, <<>>, s), [visited |-> {}, nodes |-> {}, cycles |-> <<>>], from)

\* buildDependencyGraph(), after the walk.
buildDependencyGraph(from) ==
    LET w == Walked(from)
        dependents == [f \in w.nodes |-> {g \in w.nodes : f \in imports[g]}]
    IN  [nodes |-> w.nodes, dependents |-> dependents,
         roots |-> {f \in w.nodes : dependents[f] = {}},
         leaves |-> {f \in w.nodes : imports[f] = {}},
         circularDeps |-> w.cycles]

\* findImportPath(): in breadth; the queue holds paths.
RECURSIVE Search(_, _, _, _)
Search(queue, to, visited, nodes) ==
    IF queue = <<>> THEN <<>>
    ELSE LET path == Head(queue)
             file == Last(path)
             next == IF file \in nodes THEN Order(imports[file] \ (visited \cup {file})) ELSE <<>>
         IN  IF file = to THEN path
             ELSE IF file \in visited THEN Search(Tail(queue), to, visited, nodes)
             ELSE Search(Tail(queue) \o [i \in DOMAIN next |-> Append(path, next[i])], to, visited \cup {file}, nodes)
findImportPath(from, to, nodes) == Search(<<<<from>>>>, to, {}, nodes)

\* analyzeDependency(): entry points have to be given; what it tells of a file.
analyzeDependency ==
    IF entries = <<>> THEN [refused |-> TRUE, nodes |-> {}]
    ELSE LET g == buildDependencyGraph(entries)
         IN [refused |-> FALSE,
             nodes |-> {[path |-> f, dependencies |-> imports[f], dependents |-> g.dependents[f]] : f \in g.nodes}]

\* summarizeCodebase(): where it starts, of the indexed files in the scope: an
\* index is taken for all there is ...
Taken(seq, n) == SubSeq(seq, 1, Min({n, Len(seq)}))
InScope == Order(indexed \cap scope)
EntryPoints(files, named) ==
    IF indexed # {} THEN IF named # <<>> THEN Taken(named, Few) ELSE Taken(files, Few)
    ELSE Taken(Order(IF scope \cap Named # {} THEN scope \cap Named ELSE scope \ Tests), Few)
\* ... and a graph with less than half of it is made again from its first files.
Half(g, files) == Len(files) <= Few \/ 2 * Cardinality(g.nodes) >= Len(files)
GraphOf(first, files) == IF Half(first, files) THEN first ELSE buildDependencyGraph(Taken(files, Many))
SummaryOf(starts, graph) ==
    [failed |-> starts = <<>>, files |-> graph.nodes, entryPoints |-> graph.roots,
     exports |-> SelectSeq(Taken(starts, 3), LAMBDA f : f \in graph.nodes)]
summarizeCodebase(starts, files) == SummaryOf(starts, GraphOf(buildDependencyGraph(starts), files))

-----------------------------------------------------------------------------
\* What can be reached in so many steps from a set of files.
Reach(from, n) ==
    LET far[k \in Nat] == IF k = 0 THEN from ELSE far[k - 1] \cup UNION {imports[f] : f \in far[k - 1]} IN far[n]
\* Files from which f can be reached in one step or more, going through `within` only.
Above(f, within) ==
    LET up[n \in Nat] == IF n = 0 THEN {g \in within : f \in imports[g]}
                         ELSE up[n - 1] \cup {g \in within : imports[g] \cap up[n - 1] # {}}
    IN up[Cardinality(File)]

\* With no limit to the depth the graph has every file the entries lead to that
\* can be parsed, and with one nothing that is further away.  Each cycle told is
\* one of the files, and where no depth cuts the walk, there is none told only
\* if there is none (walkDependencies).
WalkIsWhole ==
    LET g == buildDependencyGraph(entries)
        deep == maxDepth >= Cardinality(File)
    IN  /\ g.nodes \subseteq Reach(ToSet(entries), maxDepth) \ Unsupported
        /\ deep => g.nodes = Reach(ToSet(entries), Cardinality(File)) \ Unsupported
        /\ \A i \in DOMAIN g.circularDeps :
              LET c == g.circularDeps[i]
              IN \A k \in DOMAIN c : c[(k % Len(c)) + 1] \in imports[c[k]]
        /\ \A n \in analyzeDependency.nodes : \A d \in n.dependents : \E m \in analyzeDependency.nodes :
              m.path = d /\ n.path \in m.dependencies
        /\ deep => (g.circularDeps = <<>> <=> \A f \in g.nodes : f \notin Above(f, g.nodes))

\* A path is one of imports and none is shorter; there is no path only if no
\* chain of imports leads there (findImportPath).
PathsAreShortest ==
    LET nodes == buildDependencyGraph(entries).nodes
    IN \A from \in nodes, to \in File :
          LET p == findImportPath(from, to, nodes)
              steps == {n \in 0..Cardinality(File) : LET far[k \in Nat] == IF k = 0 THEN {from}
                                ELSE UNION {imports[f] : f \in far[k - 1] \cap nodes} IN to \in far[n]}
          IN  IF p = <<>> THEN steps = {}
              ELSE /\ p[1] = from /\ Last(p) = to /\ steps # {} /\ Len(p) = Min(steps) + 1
                   /\ \A i \in 1..Len(p) - 1 : p[i + 1] \in imports[p[i]]

\* A summary covers at least half of what is indexed in its scope, or the first
\* files of it, as many as are taken, all that can be parsed; nothing the
\* scope's files do not lead to is in it; and it fails only if there is nothing
\* in the scope, or an index that knows nothing of it: then nobody looks at the
\* disk.  Where the first files replace the entry points, an entry point that
\* comes after them may be lost (summarizeCodebase).
Covering(files, taken, starts, s) ==
    /\ Len(files) > Few /\ maxDepth >= Cardinality(File) =>
          2 * Cardinality(s.files) >= Len(files) \/ taken \ Unsupported \subseteq s.files
    /\ s.files \subseteq Reach(scope, Cardinality(File))
    /\ s.failed => scope \cap indexed = {} /\ (indexed # {} \/ scope \subseteq Tests)
    /\ \A f \in ToSet(starts) \ Unsupported : f \notin s.files => Len(files) > Many /\ f \notin taken
CoversFrom(files, starts) == Covering(files, ToSet(Taken(files, Many)), starts, summarizeCodebase(starts, files))
CoversScope(files) == CoversFrom(files, EntryPoints(files, SelectSeq(files, LAMBDA f : f \in Named)))
SummaryCoversScope == CoversScope(InScope)

-----------------------------------------------------------------------------
(***************************************************************************)
(* Parsing files with the strategy their extension has                     *)
(* (packages/code/src/parsers/TreeSitterAdapter.ts): what was made of a    *)
(* file is kept under its path, with a hash of its text of 32 bits, and    *)
(* told again while the hash is the same.  Calls overlap where they read.  *)
(***************************************************************************)
CONSTANTS
    Call, Path, Text,
    Hash,           \* [Text -> number]: two texts may have the same
    Language,       \* [Path -> extension]
    Faulty,         \* texts a parser throws on
    Strategies      \* bound: strategies registered

VARIABLES
    text,           \* [Path -> what the file has, "gone" for none]
    strategy,       \* [extension -> strategy registered last, 0 for none]
    cache,          \* [Path -> what was made of it]
    at, fileOf, uses, \* [Call -> where it is, its file, its strategy]
    read,           \* history: [Call -> what it has read]
    told,           \* [Call -> answer]
    seen            \* history: [Call -> what its file had since it began]

parseVars == <<text, strategy, cache, at, fileOf, uses, read, told, seen>>

Extension == {Language[p] : p \in Path}
Nothing == [made |-> FALSE, strategy |-> 0, text |-> "gone", error |-> "none"]
Failed(s, e) == [Nothing EXCEPT !.strategy = s, !.error = e]
Registered == CHOOSE n \in 0..Strategies : \A x \in Extension : strategy[x] <= n /\ (n = 0 \/ \E y \in Extension : strategy[y] = n)

\* The strategies there are by default are registered by the constructor.
ParseInit ==
    /\ text \in [Path -> Text \cup {"gone"}]
    /\ strategy \in [Extension -> {0, 1}]
    /\ cache = [p \in Path |-> Nothing]
    /\ at = [c \in Call |-> "idle"] /\ fileOf \in [Call -> Path] /\ uses = [c \in Call |-> 0]
    /\ read = [c \in Call |-> "gone"] /\ told = [c \in Call |-> Nothing] /\ seen = [c \in Call |-> {}]

\* registerStrategy(): what was registered last has the extension.
Register(x) ==
    /\ Registered < Strategies
    /\ strategy' = [strategy EXCEPT ![x] = Registered + 1]
    /\ UNCHANGED <<text, cache, at, fileOf, uses, read, told, seen>>

\* parseFile(): an extension no strategy is for is answered at once.
Parse(c) ==
    LET p == fileOf[c] s == strategy[Language[p]]
    IN /\ at[c] = "idle"
       /\ uses' = [uses EXCEPT ![c] = s] /\ seen' = [seen EXCEPT ![c] = {text[p]}]
       /\ at' = [at EXCEPT ![c] = IF s = 0 THEN "done" ELSE "reading"]
       /\ told' = [told EXCEPT ![c] = IF s = 0 THEN Failed(0, "unsupported") ELSE @]
       /\ UNCHANGED <<text, strategy, cache, fileOf, read>>

Read(c) ==
    /\ at[c] = "reading"
    /\ read' = [read EXCEPT ![c] = text[fileOf[c]]]
    /\ at' = [at EXCEPT ![c] = IF text[fileOf[c]] = "gone" THEN "done" ELSE "parsing"]
    /\ told' = [told EXCEPT ![c] = IF text[fileOf[c]] = "gone" THEN Failed(uses[c], "unread") ELSE @]
    /\ UNCHANGED <<text, strategy, cache, fileOf, uses, seen>>

Kept_AnyText(p, t) == cache[p].made
Kept(p, t) == cache[p].made /\ Hash[cache[p].text] = Hash[t]

\* parseSource(): an error is told and not kept.
Make(c) ==
    LET p == fileOf[c] t == read[c]
        new == IF t \in Faulty THEN Failed(uses[c], "thrown")
               ELSE [made |-> TRUE, strategy |-> uses[c], text |-> t, error |-> "none"]
    IN /\ at[c] = "parsing" /\ at' = [at EXCEPT ![c] = "done"]
       /\ told' = [told EXCEPT ![c] = IF Kept(p, t) THEN cache[p] ELSE new]
       /\ cache' = IF Kept(p, t) \/ ~ new.made THEN cache ELSE [cache EXCEPT ![p] = new]
       /\ UNCHANGED <<text, strategy, fileOf, uses, read, seen>>

\* invalidateCache(); clearCache() is that of all.
Invalidate(ps) ==
    /\ \E p \in ps : cache[p].made
    /\ cache' = [p \in Path |-> IF p \in ps THEN Nothing ELSE cache[p]]
    /\ UNCHANGED <<text, strategy, at, fileOf, uses, read, told, seen>>

Edit(p) ==
    /\ \E t \in (Text \cup {"gone"}) \ {text[p]} : text' = [text EXCEPT ![p] = t]
    /\ seen' = [c \in Call |-> IF fileOf[c] = p /\ at[c] = "reading" THEN seen[c] \cup {text'[p]} ELSE seen[c]]
    /\ UNCHANGED <<strategy, cache, at, fileOf, uses, read, told>>

Again(c) ==
    /\ at[c] = "done" /\ at' = [at EXCEPT ![c] = "idle"]
    /\ told' = [told EXCEPT ![c] = Nothing] /\ read' = [read EXCEPT ![c] = "gone"]
    /\ seen' = [seen EXCEPT ![c] = {}] /\ uses' = [uses EXCEPT ![c] = 0]
    /\ UNCHANGED <<text, strategy, cache, fileOf>>

ParseNext ==
    \/ \E c \in Call : Parse(c) \/ Read(c) \/ Make(c) \/ Again(c)
    \/ \E x \in Extension : Register(x)
    \/ \E p \in Path : Edit(p)
    \/ \E ps \in {{p} : p \in Path} \cup {Path} : Invalidate(ps)
ParseSpec == ParseInit /\ [][ParseNext]_parseVars

-----------------------------------------------------------------------------
\* However calls, edits and strategies interleave, what is told of a file was made
\* of a text that it had while it was asked, or of one with the same hash, by
\* a strategy its extension has had by now.  (Not always the one it had when it
\* was asked: "a later registerStrategy call still wins", TreeSitterAdapter.ts:64-66,
\* only once the file changes.)
ParsedAsRead ==
    \A c \in Call : at[c] = "done" =>
        LET r == told[c]
        IN  /\ r.made => /\ \E t \in seen[c] : t # "gone" /\ Hash[t] = Hash[r.text]
                         /\ r.strategy \in 1..strategy[Language[fileOf[c]]]
                         /\ r.text \notin Faulty
            /\ (\A s, t \in Text : Hash[s] = Hash[t] => s = t) /\ r.made => r.text \in seen[c]
            /\ ~ r.made => CASE r.error = "unsupported" -> uses[c] = 0
                             [] r.error = "unread" -> "gone" \in seen[c]
                             [] OTHER -> r.strategy = uses[c] /\ read[c] \in Faulty
===============================================================================
