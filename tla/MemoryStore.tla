------------ MODULE MemoryStore ----------------------------------------------
(***************************************************************************)
(* The stores of packages/memory: entries with their vectors, and the      *)
(* store of facts that has two implementations.                            *)
(***************************************************************************)
EXTENDS Naturals, FiniteSets, Sequences, SequencesExt, FiniteSetsExt

(***************************************************************************)
(* The firm's memory (packages/memory): entries in SQLite, a vector of the *)
(* text of each in LanceDB.  The stores of prompts and of facts run the    *)
(* same steps, and one of them is modelled, in one namespace.  The calls   *)
(* of one process interleave at their awaits; another may run it down.     *)
(*                                                                         *)
(* A text is the number of the put() that brought it.  Whether a text      *)
(* matches a query is given; which vectors are near to one is left open,   *)
(* and so is the order of what a search found by its score.  Searches for  *)
(* vectors alone, or with a least score, are left out: with the default    *)
(* one every vector counts, being near by at least 1/5.                    *)
(***************************************************************************)
CONSTANTS
    Call,       \* the calls that will be made, numbered
    Entry,      \* ids
    Matches,    \* the texts a query matches by its words
    Limits,     \* limits of a search
    Found,      \* the limit of a search that states none
    Listed      \* the limit of list() when none is stated

VARIABLES
    rows,       \* the text of the entries there are
    table,      \* whether the LanceDB table has been created
    vectors,    \* its records; two of one entry differ in `of`, the call that added them
    at, entry,  \* of a call: where it is, its entry
    hits,       \* what the vector search of a call found
    snapshot,   \* the entries there were when a search began
    wanted,     \* its limit
    result,     \* its answer
    unsteady    \* history: entries whose calls overlapped or failed

vars == <<rows, table, vectors, at, entry, hits, snapshot, wanted, result, unsteady>>

None == 0

Init ==
    /\ rows = [e \in {} |-> None] /\ table = FALSE /\ vectors = {}
    /\ at = [c \in Call |-> "new"] /\ entry = [c \in Call |-> None]
    /\ hits = [c \in Call |-> {}] /\ snapshot = [c \in Call |-> rows]
    /\ wanted = [c \in Call |-> Found] /\ result = [c \in Call |-> {}] /\ unsteady = {}

Busy(c) == at[c] \notin {"new", "done", "failed"}
Sharing(c, e) == {d \in Call \ {c} : Busy(d) /\ entry[d] = e}
Goes(c, where) == at' = [at EXCEPT ![c] = where]

--------------------------------------------------------------------------------
\* put(): the row is stored before its text is embedded.
Put(c, e) ==
    /\ at[c] = "new" /\ Goes(c, "embed") /\ entry' = [entry EXCEPT ![c] = e]
    /\ rows' = [f \in DOMAIN rows \cup {e} |-> IF f = e THEN c ELSE rows[f]]
    /\ unsteady' = unsteady \cup IF Sharing(c, e) # {} THEN {e} ELSE {}
    /\ UNCHANGED <<table, vectors, hits, snapshot, wanted, result>>

\* delete(): the row goes first, then its vectors.
Delete(c, e) ==
    /\ at[c] = "new" /\ Goes(c, "remove") /\ entry' = [entry EXCEPT ![c] = e]
    /\ rows' = [f \in DOMAIN rows \ {e} |-> rows[f]]
    /\ unsteady' = unsteady \cup IF Sharing(c, e) # {} THEN {e} ELSE {}
    /\ UNCHANGED <<table, vectors, hits, snapshot, wanted, result>>

Of(e) == {v \in vectors : v.entry = e}

\* Mutant: the record is added and the old one is left.
Clean_None(c) ==
    /\ at[c] = "clean" /\ Goes(c, "add")
    /\ UNCHANGED <<rows, table, vectors, entry, hits, snapshot, wanted, result, unsteady>>

\* upsert(): records of the entry are deleted, and then one is added.
Clean(c) ==
    /\ at[c] = "clean" /\ Goes(c, "add")
    /\ vectors' = vectors \ Of(entry[c])
    /\ UNCHANGED <<rows, table, entry, hits, snapshot, wanted, result, unsteady>>

Add(c) ==
    /\ at[c] = "add" /\ Goes(c, "done")
    /\ vectors' = vectors \cup {[entry |-> entry[c], of |-> c]}
    /\ UNCHANGED <<rows, table, entry, hits, snapshot, wanted, result, unsteady>>

\* The text is embedded, and the names of the tables are read.
Embed(c) ==
    /\ at[c] = "embed" /\ Goes(c, IF table THEN "clean" ELSE "create")
    /\ UNCHANGED <<rows, table, vectors, entry, hits, snapshot, wanted, result, unsteady>>

Fails(c) ==
    /\ Goes(c, "failed")
    /\ unsteady' = unsteady \cup ({entry[c]} \ {None})
    /\ UNCHANGED <<rows, table, vectors, entry, hits, snapshot, wanted, result>>

\* createTable(): one that was made since the names were read is an error.  The
\* table is made with the record, which is deleted again.
CreateTable(c) ==
    /\ at[c] = "create"
    /\ IF table THEN Fails(c)
       ELSE /\ table' = TRUE /\ Goes(c, "clean")
            /\ vectors' = {[entry |-> entry[c], of |-> c]}
            /\ UNCHANGED <<rows, entry, hits, snapshot, wanted, result, unsteady>>

Drop(c) ==
    /\ at[c] = "remove" /\ Goes(c, "done")
    /\ vectors' = vectors \ Of(entry[c])
    /\ UNCHANGED <<rows, table, entry, hits, snapshot, wanted, result, unsteady>>

--------------------------------------------------------------------------------
\* LIMIT, or slice() of what has no order of its own.
Cut(S, n) == IF Cardinality(S) <= n THEN {S} ELSE kSubset(n, S)

\* search(): the candidates are listed first.
Search(c) ==
    /\ at[c] = "new" /\ Goes(c, "nearest")
    /\ snapshot' = [snapshot EXCEPT ![c] = rows]
    /\ \E n \in Limits \cup {Found} : wanted' = [wanted EXCEPT ![c] = n]
    /\ UNCHANGED <<rows, table, vectors, entry, hits, result, unsteady>>

\* vectorSearch(): the nearest of the records there are, three for each entry that
\* is wanted, or none if it fails.
Nearest(c) ==
    /\ at[c] = "nearest" /\ Goes(c, "join")
    /\ \E near \in SUBSET vectors :
          /\ Cardinality(near) <= 3 * wanted[c]
          /\ hits' = [hits EXCEPT ![c] = near]
    /\ UNCHANGED <<rows, table, vectors, entry, snapshot, wanted, result, unsteady>>

\* Mutant: every record that is near counts, not every entry.
Answer_PerRecord(c, listed) ==
    LET near == {v \in hits[c] : v.entry \in listed}
    IN  {[entry |-> v.entry, by |-> v.of] : v \in near}
        \cup {[entry |-> e, by |-> None] :
                 e \in {e \in listed \ {v.entry : v \in near} : snapshot[c][e] \in Matches}}

\* Candidates that are near, and those of the others the words match.
Answer(c, listed) ==
    LET near == {v.entry : v \in hits[c]} \cap listed
    IN  {[entry |-> e, by |-> "vector"] : e \in near}
        \cup {[entry |-> e, by |-> "lexical"] :
                 e \in {e \in listed \ near : snapshot[c][e] \in Matches}}

\* The candidates are a part of the entries where list() stopped at its limit, and
\* the answer the best of what was found.
Join(c) ==
    /\ at[c] = "join" /\ Goes(c, "done")
    /\ \E listed \in Cut(DOMAIN snapshot[c], Listed) :
       \E best \in Cut(Answer(c, listed), wanted[c]) : result' = [result EXCEPT ![c] = best]
    /\ UNCHANGED <<rows, table, vectors, entry, hits, snapshot, wanted, unsteady>>

\* Embedding or LanceDB throws; or the process is killed and started again.
Fail(c) == at[c] \in {"embed", "clean", "add", "remove"} /\ Fails(c)

Crash ==
    /\ \E c \in Call : Busy(c)
    /\ at' = [c \in Call |-> IF Busy(c) THEN "failed" ELSE at[c]]
    /\ unsteady' = unsteady \cup ({entry[c] : c \in {d \in Call : Busy(d)}} \ {None})
    /\ UNCHANGED <<rows, table, vectors, entry, hits, snapshot, wanted, result>>

Next ==
    \/ \E c \in Call :
          \/ \E e \in Entry : Put(c, e) \/ Delete(c, e)
          \/ Embed(c) \/ CreateTable(c) \/ Clean(c) \/ Add(c) \/ Drop(c)
          \/ Search(c) \/ Nearest(c) \/ Join(c) \/ Fail(c)
    \/ Crash

Spec == Init /\ [][Next]_vars

--------------------------------------------------------------------------------
\* The two stores agree where nothing failed or overlapped: between calls an
\* entry has one vector, of the text it has, and what was deleted has none.
VectorsFollowRows ==
    \A e \in Entry \ unsteady :
        (\A c \in Call : Busy(c) => entry[c] # e) =>
            Of(e) = IF e \in DOMAIN rows THEN {[entry |-> e, of |-> rows[e]]} ELSE {}

\* However far apart they are, a search finds the entries its words match, each
\* once, and only entries that were there: vectors that are stale, lost, doubled
\* or orphaned do not show.  An entry with the words is missing only where the
\* answer is as long as was wanted, or there were more entries than list() gives.
SearchIsWhole ==
    \A c \in Call :
        /\ \A r, s \in result[c] : r.entry = s.entry => r = s
        /\ \A r \in result[c] : r.entry \in DOMAIN snapshot[c]
        /\ at[c] = "done" /\ Cardinality(result[c]) # wanted[c] /\ Cardinality(DOMAIN snapshot[c]) <= Listed =>
               \A e \in DOMAIN snapshot[c] :
                   snapshot[c][e] \in Matches => \E r \in result[c] : r.entry = e

-----------------------------------------------------------------------------
(***************************************************************************)
(* The two implementations of the store of facts (packages/memory): the    *)
(* reference in memory (in-memory-store.ts) and the one in SQLite          *)
(* (sqlite-store.ts), given the same calls.  A text is the set of its      *)
(* words; which entries a vector search brings is left open, and it may    *)
(* fail.  The order of rows SQLite reads without ORDER BY is open too.     *)
(***************************************************************************)
CONSTANTS
    Ids, Fact,      \* what may be put: [title, body, tags, kind, created], 0 for no date
    Queries,        \* sets of words
    Filters,        \* [tags, kind, limit]: {}, 0 and {} for none, {n} for a limit
    Puts            \* bound: calls

VARIABLES
    data,           \* the Map: entries in the order they were first put
    stored,           \* [id -> row]
    now             \* calls so far

factVars == <<data, stored, now>>

FactsInit == data = <<>> /\ stored = [i \in {} |-> 0] /\ now = 0

At(id) == SelectInSeq(data, LAMBDA e : e.id = id)
Stamped(id, f, created) == [id |-> id, fact |-> f, created |-> created, updated |-> now + 1]
First(a, b) == IF a = 0 THEN b ELSE a

\* put() of each: what is known of the creation is kept by SQLite only.
PutFact(id, f) ==
    /\ now < Puts /\ now' = now + 1
    /\ data' = IF At(id) = 0 THEN Append(data, Stamped(id, f, First(f.created, now + 1)))
               ELSE [data EXCEPT ![At(id)] = Stamped(id, f, f.created)]
    /\ LET created == IF id \in DOMAIN stored THEN stored[id].created ELSE First(f.created, now + 1)
       IN stored' = [i \in DOMAIN stored \cup {id} |-> IF i = id THEN Stamped(id, f, created) ELSE stored[i]]

DeleteFact(id) ==
    /\ now < Puts /\ now' = now + 1
    /\ data' = SelectSeq(data, LAMBDA e : e.id # id)
    /\ stored' = [i \in DOMAIN stored \ {id} |-> stored[i]]

FactsNext == \E id \in Ids : DeleteFact(id) \/ \E f \in Fact : PutFact(id, f)
FactsSpec == FactsInit /\ [][FactsNext]_factVars

-----------------------------------------------------------------------------
Tagged(e, o) == o.tags = {} \/ e.fact.tags \cap o.tags # {}
OfKind(e, o) == o.kind = 0 \/ e.fact.kind = o.kind
LimitOf(o) == CHOOSE n \in o.limit : TRUE
Row == {stored[i] : i \in DOMAIN stored}

\* list(): a limit of 0 is none, and it counts what was filtered ...
MemoryList(o) ==
    LET all == SelectSeq(data, LAMBDA e : OfKind(e, o) /\ Tagged(e, o))
    IN IF o.limit \in {{}, {0}} THEN all ELSE SubSeq(all, 1, Min({LimitOf(o), Len(all)}))
\* ... and SQLite stops at a limit, `most` where none is stated, whichever rows it
\* met, and tags are looked at after it.
SqliteLists(o, most) ==
    {{e \in part : Tagged(e, o)} :
        part \in Cut({e \in Row : OfKind(e, o)}, IF o.limit = {} THEN most ELSE LimitOf(o))}

\* lexicalScore(), times ten for each word of the query.
Score(q, e) ==
    6 * Cardinality(q \cap (e.fact.title \cup e.fact.body)) + 3 * Cardinality(q \cap e.fact.title)
        + Cardinality(q \cap e.fact.tags)
Good(q, e) == q # {} /\ 2 * Score(q, e) >= Cardinality(q)

\* search() in memory: the limit also says where it looks.
MemorySearch(q, o) == {e \in ToSet(MemoryList(o)) : Good(q, e)}
\* search() in SQLite: those the vectors bring, and those with the words, as many
\* as are wanted, the best first.  How near a vector is, is left open.
WantedOf(o) == IF o.limit = {} THEN Found ELSE LimitOf(o)
SqliteSearches(q, o, near, most) ==
    UNION {LET all == {e \in listed : e.id \in near \/ Good(q, e)}
           IN  {best \in Cut(all, WantedOf(o)) :
                   \A e \in best, f \in all \ best :
                      e.id \in near \/ f.id \in near \/ Score(q, e) >= Score(q, f)} :
              listed \in SqliteLists([o EXCEPT !.limit = {}], most)}

MemoryStats == [facts |-> Len(data), updated |-> Max({e.updated : e \in ToSet(data)} \cup {0})]
SqliteStats == [facts |-> Cardinality(DOMAIN stored), updated |-> Max({e.updated : e \in Row} \cup {0})]

-----------------------------------------------------------------------------
Known(e) == <<e.id, e.fact, e.updated>>
Same(s, t) == {Known(e) : e \in s} = {Known(e) : e \in t}
Among(s, t) == {Known(e) : e \in s} \subseteq {Known(e) : e \in t}

\* "Delivery is substitution, not a rewrite" (in-memory-store.ts:11): after the same
\* calls both hold the same facts and tell the same numbers, and while there are no
\* more than list() gives, they list the same without a limit.  What is found in
\* memory is found in SQLite, unless its answer is as long as was wanted, and what
\* is found beyond that is near; without vectors both find the same.  They differ in
\* what is told of the creation once a fact is put again, in a limit of 0, in a limit
\* beside tags, and in that SQLite always has a limit.
BackendsAgree ==
    /\ Same(ToSet(data), Row) /\ MemoryStats = SqliteStats
    /\ \A e \in ToSet(data) : e.created = stored[e.id].created \/ e.created = e.fact.created
    /\ \A o \in Filters, most \in 1..Listed :
          /\ \A l \in SqliteLists(o, most) :
                /\ Cardinality(l) <= Len(MemoryList(o))
                /\ o.limit = {} /\ Len(data) <= most => Same(ToSet(MemoryList(o)), l)
                /\ o.limit \notin {{}, {0}} /\ o.tags = {} => Cardinality(l) = Len(MemoryList(o))
          /\ \A q \in Queries : \A near \in {n \in SUBSET Ids : Cardinality(n) <= 3 * WantedOf(o)} :
             \A answer \in SqliteSearches(q, o, near, most) :
                /\ \A e \in answer : Good(q, e) \/ e.id \in near
                /\ Len(data) <= most /\ Cardinality(answer) # WantedOf(o) =>
                      /\ Among(MemorySearch(q, o), answer)
                      /\ near = {} /\ o.limit = {} => Same(MemorySearch(q, o), answer)
===============================================================================
