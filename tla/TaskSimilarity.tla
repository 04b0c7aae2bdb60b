---------------------------- MODULE TaskSimilarity -----------------------------
(***************************************************************************)
(* task-similarity.ts of packages/code, and triage() which proposes what   *)
(* to do with the open tasks of a board.  What TF-IDF makes of two texts   *)
(* is a constant: the larger of cosine and containment, in percent.  Words *)
(* of a label that set tasks apart (os-01, B2, v0.3) are its designators.  *)
(* Ids are the places of the tasks in the list that is given.              *)
(***************************************************************************)
EXTENDS Integers, SequencesExt

CONSTANTS
    Label,          \* [text, prefix, product, desig: sequence of <<kind, value>>]
    Like,           \* by a set of two texts: percent
    Short,          \* pairs of a product's name and one it begins with
    Common,         \* a reference of more tasks than these says nothing
    Boards,         \* lists of tasks, as the store gives them
    StaleDays, MinGroup, RunningHours

VARIABLES
    tasks,
    clusters,       \* clusterSimilar()
    candidates,     \* triage(): by task
    hosts           \* findSimilar(): the label of a probe, and those it is like

vars == <<tasks, clusters, candidates, hosts>>

Same == 80
Related == 50

NoProbe == [label |-> "none"]

Init == tasks \in Boards /\ clusters = {} /\ candidates = <<>> /\ hosts = NoProbe

IsOpen(t) == t.status \in {"pending", "running"}
Open == SelectSeq([i \in DOMAIN tasks |-> i], LAMBDA i : IsOpen(tasks[i]))

--------------------------------------------------------------------------------

Least(a, b) == IF a < b THEN a ELSE b
Most(a, b) == IF a > b THEN a ELSE b
Clamp(x) == Most(0, Least(100, x))

\* Of several designators of a kind the last one stands for it, on the left only.
Siblings(a, b) ==
    \E i \in DOMAIN a, j \in DOMAIN b :
        /\ a[i][1] = b[j][1] /\ a[i] # b[j]
        /\ \A k \in DOMAIN a : k > i => a[k][1] # a[i][1]

\* sameProduct(), of labels that name one.
NameProducts(a, b) == "none" \notin {a.product, b.product}
SameProduct(a, b) ==
    a.product = b.product \/ {<<a.product, b.product>>, <<b.product, a.product>>} \cap Short # {}

\* refDf: how many of the tasks that are compared refer to it.
Bearers(ref) == {i \in ToSet(Open) : ref \in tasks[i].refs}

Bonus(x, y) ==
    LET a == Label[x.label]
        b == Label[y.label]
        shared == Cardinality({ref \in x.refs \cap y.refs : Cardinality(Bearers(ref)) <= Common})
    IN
      (IF a.prefix = b.prefix THEN 4 ELSE 0)
    + (IF NameProducts(a, b) /\ SameProduct(a, b) THEN 4 ELSE 0)
    + (IF shared > 0 THEN Least(25, 15 + 5 * (shared - 1)) ELSE 0)

Penalty(x, y) ==
    LET a == Label[x.label].desig
        b == Label[y.label].desig
    IN  (IF NameProducts(Label[x.label], Label[y.label]) /\ ~ SameProduct(Label[x.label], Label[y.label])
         THEN 15 ELSE 0)
      + (IF a # <<>> /\ b # <<>> /\ ToSet(a) # ToSet(b) THEN 20 ELSE 0)

\* scoreIndexed(): the same words are the same task, whatever else differs.
Score(x, y) ==
    LET a == Label[x.label]
        b == Label[y.label]
        cap == IF Siblings(a.desig, b.desig) THEN 45 ELSE 100
    IN  IF a.text = b.text THEN 100
        ELSE Least(cap, Clamp(Like[{a.text, b.text}] + Bonus(x, y) - Penalty(x, y)))

--------------------------------------------------------------------------------

\* allPairs(): each pair once, the earlier task on the left; the best comes first.
Pairs(min) ==
    LET all == {p \in ToSet(Open) \X ToSet(Open) : p[1] < p[2] /\ Score(tasks[p[1]], tasks[p[2]]) >= min}
        S(p) == Score(tasks[p[1]], tasks[p[2]])
    IN  SetToSortSeq(all, LAMBDA p, q : \/ S(p) > S(q)
                                        \/ S(p) = S(q) /\ p[1] < q[1]
                                        \/ S(p) = S(q) /\ p[1] = q[1] /\ p[2] < q[2])

\* The root of a tree; the paths it halves on its way lead to the same root.
Find(parent, x) ==
    LET up[n \in 0..Len(tasks)] == IF n = 0 THEN x ELSE parent[up[n - 1]]
    IN  up[Len(tasks)]

\* Mutant: a task is hung below the other one, and not a tree below a tree.
Union_Leaves(parent, p) == [parent EXCEPT ![p[1]] = Find(parent, p[2])]

Union(parent, p) == [parent EXCEPT ![Find(parent, p[1])] = Find(parent, p[2])]

Roots == FoldLeft(Union, [i \in DOMAIN tasks |-> i], Pairs(Same))

PhaseRank == [todo |-> 0, doing |-> 1, built |-> 2, deployed |-> 3, verified |-> 4]

\* The furthest phase, then the oldest, then the first.
PickTarget(S) ==
    CHOOSE i \in S : \A j \in S \ {i} :
        LET x == tasks[i]
            y == tasks[j]
        IN  \/ PhaseRank[x.phase] > PhaseRank[y.phase]
            \/ PhaseRank[x.phase] = PhaseRank[y.phase] /\ x.age > y.age
            \/ PhaseRank[x.phase] = PhaseRank[y.phase] /\ x.age = y.age /\ i < j

\* clusterSimilar(): those of one root, if a pair names them; all but the target are
\* to be merged into it, with the score they have with it and not that of the edge.
Clusters ==
    LET pairs == ToSet(Pairs(Same))
        named == {p[1] : p \in pairs} \cup {p[2] : p \in pairs}
        roots == Roots
        Group(r) == {i \in named : Find(roots, i) = r}
    IN  {LET g == Group(r)
             target == PickTarget(g)
         IN  [members |-> g, target |-> target,
              merges |-> [i \in g \ {target} |-> Score(tasks[i], tasks[target])]]
         : r \in {Find(roots, i) : i \in named}}

--------------------------------------------------------------------------------

Group(i) == {j \in ToSet(Open) : Label[tasks[j].label].prefix = Label[tasks[i].label].prefix}
AllOld(S) == Cardinality(S) >= MinGroup /\ \A j \in S : tasks[j].age > StaleDays
ParentDone(t) == t.parent \in DOMAIN tasks /\ tasks[t.parent].status = "completed"

\* triage(): a task is proposed once, for the first reason there is; a renewed one is
\* neither archived nor abandoned, but may be merged.
KindOf(i) ==
    LET t == tasks[i] IN
    CASE t.obsolete /\ ~ t.renewed -> "archive"
      [] t.status = "running" /\ 24 * t.age > RunningHours /\ ~ t.renewed -> "abandon"
      [] \E c \in clusters' : i \in DOMAIN c.merges -> "merge"
      [] AllOld(Group(i)) /\ ~ t.renewed -> "archive"
      [] ParentDone(t) -> "close"
      [] OTHER -> "none"

Triage ==
    /\ candidates = <<>> /\ hosts = NoProbe
    /\ clusters' = Clusters
    /\ candidates' = [i \in DOMAIN tasks |->
            IF ~ IsOpen(tasks[i]) THEN [kind |-> "none"]
            ELSE IF KindOf(i) = "merge"
                 THEN [kind |-> "merge", into |-> (CHOOSE c \in clusters' : i \in DOMAIN c.merges).target]
                 ELSE [kind |-> KindOf(i)]]
    /\ UNCHANGED <<tasks, hosts>>

\* findSimilar(): the probe is on the left of each, wherever its task will be.
Similar(probe) ==
    LET S(i) == Score(probe, tasks[i])
    IN  SetToSortSeq({i \in ToSet(Open) : S(i) >= Related},
                     LAMBDA i, j : S(i) > S(j) \/ (S(i) = S(j) /\ i < j))

Create(l) ==
    /\ hosts = NoProbe /\ candidates = <<>>
    /\ hosts' = LET probe == [label |-> l, refs |-> {}]
                    found == Similar(probe)
                IN  [label |-> l, found |-> found,
                     host |-> IF found # <<>> /\ Score(probe, tasks[found[1]]) >= Same
                              THEN found[1] ELSE 0]
    /\ UNCHANGED <<tasks, clusters, candidates>>

Next == Triage \/ (\E l \in DOMAIN Label : Create(l))

Spec == Init /\ [][Next]_vars

--------------------------------------------------------------------------------

Edge(i, j) == i # j /\ Score(tasks[Least(i, j)], tasks[Most(i, j)]) >= Same
Linked(i, j) ==
    LET near[n \in 0..Len(tasks)] ==
            IF n = 0 THEN {i} ELSE near[n - 1] \cup {y \in ToSet(Open) : \E x \in near[n - 1] : Edge(x, y)}
    IN  j \in near[Len(tasks)]

(* "Clusters por componente conexa (A~B, B~C -> um cluster)": two open tasks are *)
(* in one cluster just when edges lead from one to the other, in whatever order *)
(* the pairs are joined; a cluster keeps one task, which is as far as any, and  *)
(* all the others go into it (clusterSimilar, pickTarget, l.372-477).  A task   *)
(* that is kept is proposed as no source, and a create that finds a host finds  *)
(* none that is more alike.                                                     *)
ClustersAreComponents ==
    /\ candidates # <<>> =>
        /\ \A i, j \in ToSet(Open) : i # j =>
                (Linked(i, j) <=> \E c \in clusters : {i, j} \subseteq c.members)
        /\ \A c \in clusters :
                /\ DOMAIN c.merges = c.members \ {c.target} /\ c.target \in c.members
                /\ \A i \in c.members : PhaseRank[tasks[i].phase] <= PhaseRank[tasks[c.target].phase]
        /\ \A i \in DOMAIN tasks : candidates[i].kind = "merge" =>
                candidates[candidates[i].into].kind # "merge"
    /\ hosts # NoProbe /\ hosts.host # 0 =>
        \A i \in ToSet(Open) : Score([label |-> hosts.label, refs |-> {}], tasks[i])
            <= Score([label |-> hosts.label, refs |-> {}], tasks[hosts.host])
================================================================================
