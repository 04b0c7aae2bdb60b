------------------------------ MODULE Marketplace ------------------------------
(***************************************************************************)
(* The marketplace: the HTTP handlers of gateway.ts over registry.ts,      *)
(* discovery.ts and routing.ts of packages/marketplace.  A bill is a row   *)
(* that nothing but a report reads, and is left out.  A handler awaits the *)
(* body of its request before it looks at anything, and runs in one go     *)
(* after that.  Nothing reports the latency of a node or a failed call, so *)
(* that nodes differ in price and tag, and reliability stays 1.  Time goes *)
(* by in parts of the interval of pruneStale().                            *)
(***************************************************************************)
EXTENDS Integers, FiniteSets

CONSTANTS
    Node,
    Price,          \* prices there are
    Stale,          \* HEARTBEAT_TIMEOUT_MS
    Every,          \* interval of pruneStale()
    Past,           \* how long ago a node of a database that is there may have beaten
    Horizon         \* bound of the clock

VARIABLES
    now,
    nodes,      \* rows of the registry
    nextPrune,
    routed,     \* the last answer of /route: the node and what was asked
    gone        \* history: nodes that were unregistered; ids do not come back

vars == <<now, nodes, nextPrune, routed, gone>>

Nobody == [node |-> "none", age |-> 0, best |-> TRUE, pruned |-> FALSE]

\* A database may be there, whose nodes are as they were left.
Row == [price : Price, tagged : BOOLEAN, status : {"online", "offline"}, beat : {-Past, 0}]

Init ==
    /\ now = 0 /\ nextPrune = Every
    /\ nodes \in UNION {[known -> Row] : known \in SUBSET Node} /\ routed = Nobody /\ gone = {}

Register(n, price, tagged) ==
    /\ n \notin DOMAIN nodes \cup gone
    /\ nodes' = [m \in DOMAIN nodes \cup {n} |->
                    IF m = n THEN [price |-> price, tagged |-> tagged, status |-> "online", beat |-> now]
                    ELSE nodes[m]]
    /\ UNCHANGED <<now, nextPrune, routed, gone>>

Unregister(n) ==
    /\ n \in DOMAIN nodes
    /\ nodes' = [m \in DOMAIN nodes \ {n} |-> nodes[m]] /\ gone' = gone \cup {n}
    /\ UNCHANGED <<now, nextPrune, routed>>

Heartbeat(n) ==
    /\ n \in DOMAIN nodes
    /\ nodes' = [nodes EXCEPT ![n].beat = now, ![n].status = "online"]
    /\ UNCHANGED <<now, nextPrune, routed, gone>>

\* search(): nodes that are online and not too dear.
Candidates(limit) ==
    {n \in DOMAIN nodes : nodes[n].status = "online" /\ nodes[n].price <= limit}

Extreme(S, up) == CHOOSE x \in S : \A y \in S : IF up THEN x >= y ELSE x <= y

\* The score of route() times 100 and the range of the prices, without its part for
\* reliability, which is the same for all: the price counts 0.15, a tag 0.05.
Score(n, all, prefer) ==
    LET prices == {nodes[m].price : m \in all}
        span == Extreme(prices, TRUE) - Extreme(prices, FALSE)
        range == IF span = 0 THEN 1 ELSE span
    IN  (IF prefer /\ nodes[n].tagged THEN 5 * range ELSE 0)
        - (IF span = 0 THEN 0 ELSE 15 * (nodes[n].price - Extreme(prices, FALSE)))

\* Whether no other candidate is as good in price and tag and better in one.
Undominated(n, all, prefer) ==
    ~\E m \in all :
        /\ nodes[m].price <= nodes[n].price
        /\ prefer /\ nodes[n].tagged => nodes[m].tagged
        /\ nodes[m].price < nodes[n].price \/ (prefer /\ nodes[m].tagged /\ ~nodes[n].tagged)

Route(limit, prefer) ==
    LET all == Candidates(limit) IN
    /\ all # {}
    /\ \E n \in all :
          /\ \A m \in all : Score(n, all, prefer) >= Score(m, all, prefer)
          /\ routed' = [node |-> n, age |-> now - nodes[n].beat,
                        best |-> Undominated(n, all, prefer), pruned |-> nextPrune > Every]
    /\ UNCHANGED <<now, nodes, nextPrune, gone>>

\* Mutant: a node is given an interval more.
Prune_Late ==
    /\ now = nextPrune /\ nextPrune' = nextPrune + Every
    /\ nodes' = [n \in DOMAIN nodes |->
          IF nodes[n].beat + Stale + Every < now THEN [nodes[n] EXCEPT !.status = "offline"]
          ELSE nodes[n]]
    /\ UNCHANGED <<now, routed, gone>>

\* pruneStale(), on its interval.
Prune ==
    /\ now = nextPrune /\ nextPrune' = nextPrune + Every
    /\ nodes' = [n \in DOMAIN nodes |->
          IF nodes[n].beat < now - Stale THEN [nodes[n] EXCEPT !.status = "offline"]
          ELSE nodes[n]]
    /\ UNCHANGED <<now, routed, gone>>

\* The interval is on time.
Tick ==
    /\ now < Horizon /\ now < nextPrune /\ now' = now + 1
    /\ UNCHANGED <<nodes, nextPrune, routed, gone>>

Next ==
    \/ \E n \in Node :
          \/ \E price \in Price, tagged \in BOOLEAN : Register(n, price, tagged)
          \/ Unregister(n) \/ Heartbeat(n)
    \/ \E limit \in Price, prefer \in BOOLEAN : Route(limit, prefer)
    \/ Prune \/ Tick

Spec == Init /\ [][Next]_vars

--------------------------------------------------------------------------------
\* From the first pruning on (a database may hold nodes that are long dead) calls are
\* routed to nodes that gave a sign of life within the timeout and one interval of
\* pruning, since nothing but a heartbeat puts a node online again; and always to none
\* that another one beats in price and tag.
RoutesToLive == routed.best /\ (routed.pruned => routed.age <= Stale + Every)
================================================================================
