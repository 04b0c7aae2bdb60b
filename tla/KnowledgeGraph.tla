----------------------------- MODULE KnowledgeGraph ----------------------------
(***************************************************************************)
(* packages/graph: InMemoryGraphBuilder, the traversals of GraphologyGraph,*)
(* retrieveWeighted() and rankBySource(), and the overlay that             *)
(* CommunityDetectionClusterer makes of the communities Louvain finds,     *)
(* which are arbitrary here.  Ids are numbers, in the order of the strings.*)
(* The topic, label and source of a node come with its kind.  hopDecay is  *)
(* one half, and a score is told in parts of the smallest one.  A query     *)
(* changes nothing, so that one of each graph is enough.                   *)
(***************************************************************************)
EXTENDS Integers, SequencesExt

CONSTANTS
    Node, Kind,
    Inputs,         \* what is built: sequences of nodes, edges and clusters
    KindSets,       \* the filters that are asked for
    Weight,         \* by kind: weightForSource()
    MaxHops, Limits

VARIABLES
    graph,          \* nodes: id -> kind; edges: id -> ends; clusters: id -> members; membership
    overlay,        \* of the last cluster()
    asked, answer   \* the last query, and what it gave

vars == <<graph, overlay, asked, answer>>

NoGraph == [nodes |-> [n \in {} |-> 0], edges |-> [e \in {} |-> 0],
            clusters |-> [c \in {} |-> 0], membership |-> [n \in {} |-> 0]]
NoQuery == [of |-> "none"]
NoOverlay == [assignment |-> [n \in {} |-> {}], cohesion |-> [c \in {} |-> 0]]

Init == graph = NoGraph /\ overlay = NoOverlay /\ asked = NoQuery /\ answer = <<>>

With(f, x, v) == [y \in DOMAIN f \cup {x} |-> IF y = x THEN v ELSE f[y]]

--------------------------------------------------------------------------------

\* The first of each id is kept; an edge counts as soon as its ends are known.
AddNode(nodes, n) == IF n.id \in DOMAIN nodes THEN nodes ELSE With(nodes, n.id, n.kind)

Edges(nodes, es) ==
    LET Known(e) == e.source \in DOMAIN nodes /\ e.target \in DOMAIN nodes
        Take(edges, e) == IF e.id \in DOMAIN edges \/ ~ Known(e) THEN edges
                          ELSE With(edges, e.id, <<e.source, e.target>>)
    IN  FoldLeft(Take, [e \in {} |-> 0], es)

\* A member is looked for among the clusters of the input, and not in those before.
Valid_Twice(m, members, nodes) == SelectSeq(members, LAMBDA n : n \in DOMAIN nodes)

\* A member that is unknown, or belongs to a cluster already, is dropped; and so is a
\* cluster that has none left.
Valid(m, members, nodes) ==
    SelectSeq(members, LAMBDA n : n \in DOMAIN nodes /\ n \notin DOMAIN m)

AddCluster(s, c, nodes) ==
    LET valid == Valid(s.membership, c.members, nodes)
    IN  IF c.id \in DOMAIN s.clusters \/ valid = <<>> THEN s
        ELSE [clusters |-> With(s.clusters, c.id, valid),
              membership |-> [n \in DOMAIN s.membership \cup ToSet(valid) |->
                                IF n \in ToSet(valid) THEN c.id ELSE s.membership[n]]]

Build(input) ==
    /\ graph = NoGraph
    /\ LET nodes == FoldLeft(AddNode, [n \in {} |-> 0], input.nodes)
           s == FoldLeft(LAMBDA acc, c : AddCluster(acc, c, nodes),
                         [clusters |-> [c \in {} |-> 0], membership |-> [n \in {} |-> 0]],
                         input.clusters)
       IN  graph' = [nodes |-> nodes, edges |-> Edges(nodes, input.edges),
                     clusters |-> s.clusters, membership |-> s.membership]
    /\ UNCHANGED <<overlay, asked, answer>>

--------------------------------------------------------------------------------

Adjacent(x) ==
    {y \in DOMAIN graph.nodes : \E e \in DOMAIN graph.edges : graph.edges[e] \in {<<x, y>>, <<y, x>>}}

\* The nodes of the last hop are not remembered.
Onward_Again(frontier, visited) ==
    LET next == UNION {Adjacent(x) : x \in frontier} \ frontier
    IN  SetToSortSeq(next, <)

\* The nodes a hop on, as the sorted frontier comes upon them.
Onward(frontier, visited) ==
    LET next == UNION {Adjacent(x) : x \in frontier} \ visited
        From(y) == CHOOSE x \in frontier : y \in Adjacent(x) /\ \A z \in frontier : y \in Adjacent(z) => x <= z
    IN  SetToSortSeq(next, LAMBDA a, b : From(a) < From(b) \/ (From(a) = From(b) /\ a < b))

\* All that is met within so many hops, with the number of the hop.
Walk(seeds, hops) ==
    LET step[h \in 0..hops] ==
            IF h = 0 THEN [met |-> <<>>, last |-> seeds, visited |-> seeds]
            ELSE LET s == step[h - 1]
                     new == Onward(s.last, s.visited)
                 IN  [met |-> s.met \o [i \in DOMAIN new |-> [node |-> new[i], hops |-> h]],
                      last |-> ToSet(new), visited |-> s.visited \cup ToSet(new)]
    IN  step[hops].met

\* neighbors() looks at the limit once it has taken a node.
Neighbours(q) ==
    LET Fits(m) == /\ graph.nodes[m.node] \in q.kinds
                   /\ q.same => /\ (m.node \in DOMAIN graph.membership) = (q.seed \in DOMAIN graph.membership)
                                /\ m.node \in DOMAIN graph.membership =>
                                       graph.membership[m.node] = graph.membership[q.seed]
        found == SelectSeq(Walk({q.seed}, q.hops), Fits)
        most == IF q.limit = 0 THEN 1 ELSE q.limit
    IN  SubSeq(found, 1, IF Len(found) < most THEN Len(found) ELSE most)

Ask(seed, hops, limit, kinds, same) ==
    /\ graph # NoGraph /\ asked = NoQuery /\ overlay = NoOverlay /\ seed \in DOMAIN graph.nodes
    /\ asked' = [of |-> "neighbors", seed |-> seed, hops |-> hops, limit |-> limit,
                 kinds |-> kinds, same |-> same]
    /\ answer' = Neighbours(asked')
    /\ UNCHANGED <<graph, overlay>>

Score(m) == Weight[graph.nodes[m.node]] * 2 ^ (MaxHops - m.hops)

Ranked(S) ==
    SetToSortSeq(S, LAMBDA a, b : Score(a) > Score(b) \/ (Score(a) = Score(b) /\ a.node < b.node))

Top(s, limit) == IF limit = 0 \/ Len(s) <= limit THEN s ELSE SubSeq(s, 1, limit)

\* retrieveWeighted(); with no hops to go it is the rankBySource() of its seeds.
Retrieved(q) ==
    LET seeds == q.seeds \cap DOMAIN graph.nodes
        met == ToSet(Walk(seeds, q.hops))
                   \cup (IF q.include THEN {[node |-> s, hops |-> 0] : s \in seeds} ELSE {})
    IN  Top(Ranked({m \in met : /\ graph.nodes[m.node] \in q.kinds
                                /\ q.drop => Weight[graph.nodes[m.node]] > 0}), q.limit)

Retrieve(seeds, hops, limit, kinds, include, drop) ==
    /\ graph # NoGraph /\ asked = NoQuery /\ overlay = NoOverlay
    /\ asked' = [of |-> "retrieve", seeds |-> seeds, hops |-> hops, limit |-> limit,
                 kinds |-> kinds, include |-> include, drop |-> drop]
    /\ answer' = Retrieved(asked')
    /\ UNCHANGED <<graph, overlay>>

--------------------------------------------------------------------------------

\* The edges that are within a community, and those that leave it.
Intra(found, c) == {e \in DOMAIN graph.edges : /\ graph.edges[e][1] # graph.edges[e][2]
                                               /\ {found[graph.edges[e][1]], found[graph.edges[e][2]]} = {c}}
Inter(found, c) == {e \in DOMAIN graph.edges : /\ found[graph.edges[e][1]] # found[graph.edges[e][2]]
                                               /\ c \in {found[graph.edges[e][1]], found[graph.edges[e][2]]}}

\* Without edges Louvain is not asked, and a node is a community of its own.
Communities ==
    IF \A e \in DOMAIN graph.edges : graph.edges[e][1] = graph.edges[e][2]
    THEN {[n \in DOMAIN graph.nodes |-> n]}
    ELSE [DOMAIN graph.nodes -> {n \in Node : n <= Cardinality(DOMAIN graph.nodes)}]

\* A cluster is known by its members, whatever number its community has.
Cluster ==
    /\ graph # NoGraph /\ graph.nodes # NoGraph.nodes /\ asked = NoQuery /\ overlay = NoOverlay
    /\ \E found \in Communities :
            LET members(c) == {n \in DOMAIN graph.nodes : found[n] = c}
                all == {found[n] : n \in DOMAIN graph.nodes}
                Of(ms) == CHOOSE c \in all : members(c) = ms
            IN  overlay' = [assignment |-> [n \in DOMAIN graph.nodes |-> members(found[n])],
                            cohesion |-> [ms \in {members(c) : c \in all} |->
                                [intra |-> Cardinality(Intra(found, Of(ms))),
                                 inter |-> Cardinality(Inter(found, Of(ms)))]]]
    /\ UNCHANGED <<graph, asked, answer>>

Next ==
    \/ \E input \in Inputs : Build(input)
    \/ \E seed \in Node, hops \in 0..MaxHops, limit \in Limits, kinds \in KindSets, same \in BOOLEAN :
            Ask(seed, hops, limit, kinds, same)
    \/ \E seeds \in SUBSET Node, hops \in 0..MaxHops, limit \in Limits, kinds \in KindSets,
          include, drop \in BOOLEAN : Retrieve(seeds, hops, limit, kinds, include, drop)
    \/ Cluster

Spec == Init /\ [][Next]_vars

--------------------------------------------------------------------------------

(* Whatever is in an input, repeated, unknown or claimed twice: an edge of the  *)
(* graph has two ends in it, and its clusters and the cluster of a node tell    *)
(* the same (builder.ts l.57-150); the cohesion of the clusters that are found  *)
(* counts every edge between different nodes once (clusterer.ts l.430-456).     *)
OverlayIsPartition ==
    /\ \A e \in DOMAIN graph.edges : ToSet(graph.edges[e]) \subseteq DOMAIN graph.nodes
    /\ \A c \in DOMAIN graph.clusters : graph.clusters[c] # <<>>
    /\ \A n \in Node, c \in DOMAIN graph.clusters :
            n \in ToSet(graph.clusters[c]) <=> n \in DOMAIN graph.membership /\ graph.membership[n] = c
    /\ DOMAIN graph.membership \subseteq DOMAIN graph.nodes
    /\ overlay # NoOverlay =>
            2 * Cardinality({e \in DOMAIN graph.edges : graph.edges[e][1] # graph.edges[e][2]}) =
                FoldSet(LAMBDA ms, sum : sum + 2 * overlay.cohesion[ms].intra + overlay.cohesion[ms].inter,
                        0, DOMAIN overlay.cohesion)

Walkable(a, b, h) ==
    \E p \in [0..h -> DOMAIN graph.nodes] :
        p[0] = a /\ p[h] = b /\ \A i \in 0..h - 1 : p[i + 1] \in Adjacent(p[i]) \cup {p[i]}

(* What a query gives is as near as it says and no nearer; "a closer node never *)
(* loses to a farther one of equal source" (retrieval.ts l.35), nor a heavier   *)
(* source to a lighter one as near; and neighbors() leaves out for its limit    *)
(* nothing nearer than what it gives.                                           *)
NearerOrHeavierFirst ==
    LET seeds == IF asked.of = "retrieve" THEN asked.seeds \cap DOMAIN graph.nodes ELSE {asked.seed}
        Near(n, h) == \E s \in seeds : Walkable(s, n, h)
    IN  asked.of # "none" =>
            /\ \A i \in DOMAIN answer : /\ Near(answer[i].node, answer[i].hops)
                                        /\ answer[i].hops > 0 => ~ Near(answer[i].node, answer[i].hops - 1)
            /\ \A i, j \in DOMAIN answer : i < j =>
                    LET x == answer[i]
                        y == answer[j]
                        wx == Weight[graph.nodes[x.node]]
                        wy == Weight[graph.nodes[y.node]]
                    IN  /\ x.node # y.node
                        /\ asked.of = "neighbors" => x.hops <= y.hops
                        /\ asked.of = "retrieve" /\ wx = wy /\ wx > 0 => x.hops <= y.hops
                        /\ asked.of = "retrieve" /\ x.hops = y.hops => wx >= wy
            /\ asked.of = "neighbors" /\ asked.limit > 0 /\ ~ asked.same =>
                    LET near == {n \in DOMAIN graph.nodes \ {asked.seed} :
                                    graph.nodes[n] \in asked.kinds /\ Near(n, asked.hops)}
                    IN  Len(answer) = IF Cardinality(near) < asked.limit THEN Cardinality(near) ELSE asked.limit
================================================================================
