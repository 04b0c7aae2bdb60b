------------ MODULE GraphUse -------------------------------------------------
(***************************************************************************)
(* The knowledge graph as it is read, and the search for a number of       *)
(* clusters.                                                               *)
(***************************************************************************)
EXTENDS Naturals, Sequences, FiniteSets, SequencesExt, FiniteSetsExt, Integers, TLC

(***************************************************************************)
(* Those who ask the knowledge graph which cluster a file or a symbol is   *)
(* in: find_symbol and summarize_codebase (graph-querier.ts and handler.ts *)
(* of packages/code), the access rules for clusters (cluster-acl.ts of     *)
(* packages/scope) and the annotations of audit rows                       *)
(* (semantic-annotator.ts of packages/audit); and the names the clusters   *)
(* get (clusterer.ts of packages/graph).  Communities are arbitrary; nodes *)
(* and clusters are numbers in the order of their ids.                     *)
(***************************************************************************)
CONSTANTS
    Size,           \* nodes: 1..Size
    Thing,          \* what a node may be: [kind, path, label, language, topic]
    RuleLists,      \* sequences of [under, allow, deny]
    Policies,       \* [allowed, denied]: sets of paths
    Capability, RowLimits

VARIABLES
    thing,          \* [node -> Thing]
    cluster,        \* [node -> its cluster, 0 for none]
    rules, policy

Node == 1..Size

GraphInit ==
    /\ thing \in [Node -> Thing]
    \* A community is known by its first member.
    /\ cluster \in {f \in [Node -> 0..Size] : \A n \in Node : f[n] # 0 => f[n] <= n /\ f[f[n]] = f[n]}
    /\ rules \in RuleLists /\ policy \in Policies

Members(c) == {n \in Node : cluster[n] = c}
Clusters == {cluster[n] : n \in Node} \ {0}

-----------------------------------------------------------------------------
\* commonDirectoryPrefix(): without the name of the file.
commonDirectoryPrefix(paths) ==
    LET common == {k \in 0..Min({Len(p) - 1 : p \in paths}) :
                      \A p, q \in paths : SubSeq(p, 1, k) = SubSeq(q, 1, k)}
    IN SubSeq(CHOOSE p \in paths : TRUE, 1, Max(common))

\* labelFor(): the directory of the files, the topic of most documents, or a part of the id.
labelFor(c) ==
    LET files  == {thing[n].path : n \in {m \in Members(c) : thing[m].kind \in {"file", "symbol"}}}
        docs   == {n \in Members(c) : thing[n].kind = "doc" /\ thing[n].topic # 0}
        topics == {thing[n].topic : n \in docs}
        of(t)  == Cardinality({n \in docs : thing[n].topic = t})
        dir    == IF \A n \in Members(c) : thing[n].kind \in {"file", "symbol"}
                  THEN commonDirectoryPrefix(files) ELSE <<>>
    IN  CASE dir # <<>> -> [dir |-> dir, topic |-> 0, id |-> 0]
          [] dir = <<>> /\ topics # {} ->
                [dir |-> <<>>, id |-> 0,
                 topic |-> CHOOSE t \in topics : \A u \in topics : of(t) > of(u) \/ (of(t) = of(u) /\ t <= u)]
          [] OTHER -> [dir |-> <<>>, topic |-> 0, id |-> c]
Unlabelled == [dir |-> <<>>, topic |-> 0, id |-> 0]
LabelOf(n) == IF cluster[n] = 0 THEN Unlabelled ELSE labelFor(cluster[n])

\* findSymbol() and findByPath() of the graph.
findSymbol(name, language) ==
    SelectSeq([i \in Node |-> i], LAMBDA n : thing[n].kind = "symbol" /\ thing[n].label = name
                                             /\ (language = "any" \/ thing[n].language = language))
findByPath(path) ==
    LET found == {n \in Node : thing[n].kind = "file" /\ thing[n].path = path}
    IN IF found = {} THEN 0 ELSE Min(found)

\* find_symbol with a graph: a cluster that is named is kept to, whether or not it has the symbol.
findSymbolInCluster(name, label, language) ==
    SelectSeq(findSymbol(name, language), LAMBDA n : cluster[n] # 0 /\ LabelOf(n) = label)
FindSymbol(name, label, language) ==
    LET hits == IF label = Unlabelled THEN findSymbol(name, language)
                ELSE findSymbolInCluster(name, label, language)
    IN [source |-> IF hits # <<>> \/ label # Unlabelled THEN "graph" ELSE "scan", hits |-> hits]

\* clusterSummary(), and what summarize_codebase leaves of it for one cluster.
clusterSummary(limit) ==
    LET rows == SetToSortSeq(Clusters, LAMBDA c, d : Cardinality(Members(c)) > Cardinality(Members(d))
                                 \/ (Cardinality(Members(c)) = Cardinality(Members(d)) /\ c < d))
    IN SubSeq(rows, 1, Min({limit, Len(rows)}))
RowsTold(limit, label) ==
    SelectSeq(clusterSummary(limit), LAMBDA c : label = Unlabelled \/ labelFor(c) = label)

\* isAllowed() of FileMatcher.
isAllowed(path) == path \notin policy.denied /\ path \in policy.allowed

Matches(rule, label) == IsPrefix(rule.under, label.dir)

\* authorize(): the rules in their order, until one denies.
Verdict_First(rs, label, capability) ==
    LET hit == SelectSeq(rs, LAMBDA r : Matches(r, label) /\ capability \in r.allow \cup r.deny)
    IN IF hit # <<>> /\ capability \in hit[1].deny /\ capability \notin hit[1].allow THEN "deny" ELSE "allow"
Verdict(rs, label, capability) ==
    FoldLeft(LAMBDA v, r : IF v = "deny" \/ ~ Matches(r, label) THEN v
                           ELSE IF capability \in r.deny THEN "deny" ELSE v, "allow", rs)
authorize(rs, path, capability) ==
    LET node == findByPath(path)
    IN  IF ~ isAllowed(path) THEN "deny"
        ELSE IF node = 0 \/ cluster[node] = 0 \/ rs = <<>> THEN "allow"
        ELSE Verdict(rs, LabelOf(node), capability)

\* annotate(), as far as the cluster of the row's subject goes.
annotate(path, symbol) ==
    LET hits == findSymbol(symbol, "any")
        head == IF path # <<>> THEN findByPath(path) ELSE IF hits = <<>> THEN 0 ELSE hits[1]
    IN [node |-> head, label |-> IF head = 0 THEN Unlabelled ELSE LabelOf(head),
        ambiguous |-> path = <<>> /\ Len(hits) > 1]

-----------------------------------------------------------------------------
Paths == {thing[n].path : n \in Node}
LabelsInUse == {thing[n].label : n \in Node}

\* Whoever asks is told the same of a file or a symbol: what an audit row is
\* annotated with is the cluster find_symbol has it in; asking cluster by
\* cluster finds each symbol of a cluster, once for each label, and never falls
\* back on a scan; a directory that names a cluster has all its members; and
\* all rows of a summary that is long enough are there for a label (labelFor,
\* findSymbolInCluster, annotate, clusterSummary).
GraphIsToldAlike ==
    LET labels == {labelFor(c) : c \in Clusters}
    IN  /\ \A name \in LabelsInUse :
              LET all == ToSet(findSymbol(name, "any"))
              IN  /\ {n \in all : cluster[n] # 0} = UNION {ToSet(FindSymbol(name, l, "any").hits) : l \in labels}
                  /\ \A l \in labels : FindSymbol(name, l, "any").source = "graph"
                  /\ all # {} => /\ annotate(<<>>, name).node \in all
                                 /\ annotate(<<>>, name).ambiguous <=> Cardinality(all) > 1
        /\ \A n \in Node : cluster[n] # 0 /\ LabelOf(n).dir # <<>> => IsPrefix(LabelOf(n).dir, thing[n].path)
        /\ \A l \in labels : {c \in Clusters : labelFor(c) = l} = ToSet(RowsTold(Size, l))
        /\ \A k \in RowLimits : \A i \in 1..Len(clusterSummary(k)) :
              \A c \in Clusters \ ToSet(clusterSummary(k)) :
                 Cardinality(Members(c)) <= Cardinality(Members(clusterSummary(k)[i]))

\* The rules for clusters only ever take away from what the paths allow, whatever
\* their order and wherever they are split over two lists, and a rule that denies
\* a directory denies each file of a cluster with its name (authorize).
RulesAreOrderless ==
    \A path \in Paths, cap \in Capability :
        /\ authorize(rules, path, cap) = authorize(Reverse(rules), path, cap)
        /\ authorize(rules, path, cap) = "allow" => isAllowed(path)
        /\ \A i \in DOMAIN rules :
              LET n == findByPath(path)
              IN n # 0 /\ cluster[n] # 0 /\ cap \in rules[i].deny /\ IsPrefix(rules[i].under, LabelOf(n).dir) =>
                    authorize(rules, path, cap) = "deny"

-----------------------------------------------------------------------------
(***************************************************************************)
(* The search for clusters of a wanted size                                *)
(* (runLouvainWithTargetSize of packages/graph/src/clusterer.ts): Louvain  *)
(* again and again, with a resolution half as large again or two thirds of *)
(* it.  How many communities it finds at a resolution is arbitrary, and    *)
(* the same each time it is asked.                                         *)
(***************************************************************************)
CONSTANTS Nodes, Targets, Iterations

VARIABLES
    target,     \* targetSize, 0 for none
    counts,     \* how many communities Louvain finds, by the power of 3/2 of the resolution
    best,       \* the power the result was found at
    resolution, \* the power that was tried last
    tries, done

searchVars == <<target, counts, best, resolution, tries, done>>

SearchInit ==
    /\ target \in Targets /\ best = 0 /\ resolution = 0 /\ tries = 0 /\ done = (target = 0)
    /\ counts \in {0 :> c : c \in 1..Nodes}

\* Math.round of nodes over the target, at least one.
desiredClusterCount == Max({1, (2 * Nodes + target) \div (2 * target)})

Far(c) == IF c > desiredClusterCount THEN c - desiredClusterCount ELSE desiredClusterCount - c

\* The average is within a quarter of the target.
Near(c) == 4 * (IF Nodes > target * c THEN Nodes - target * c ELSE target * c - Nodes) <= target * c

\* Only what is no further from the wanted number is taken.
Better_Always(next) == TRUE
Better(next) == Far(next) <= Far(counts[best])

Step ==
    /\ ~ done
    /\ IF tries = Iterations \/ Near(counts[best])
       THEN done' = TRUE /\ UNCHANGED <<counts, best, resolution, tries>>
       ELSE /\ resolution' = IF Nodes > target * counts[best] THEN resolution + 1 ELSE resolution - 1
            /\ \E c \in 1..Nodes :
                  /\ resolution' \in DOMAIN counts => c = counts[resolution']
                  /\ counts' = [r \in DOMAIN counts \cup {resolution'} |-> IF r = resolution' THEN c ELSE counts[r]]
                  /\ best' = IF Better(c) THEN resolution' ELSE best
            /\ tries' = tries + 1 /\ UNCHANGED done
    /\ UNCHANGED target

SearchNext == Step
SearchSpec == SearchInit /\ [][SearchNext]_searchVars

-----------------------------------------------------------------------------
\* The result is one of those that were found, none that was found is nearer the
\* wanted number of clusters, and it is given up before the last try only where
\* the average is near the target (runLouvainWithTargetSize).
NearestIsKept ==
    /\ target # 0 => \A r \in DOMAIN counts : Far(counts[best]) <= Far(counts[r])
    /\ done /\ target # 0 /\ tries < Iterations => Near(counts[best])
===============================================================================
