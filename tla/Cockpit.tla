------------------------------- MODULE Cockpit -------------------------------
(***************************************************************************)
(* What the cockpit shows of the audit ledger and of firm memory, both     *)
(* written by other processes while it looks (server.ts,                   *)
(* attachAuditTailSse and /api/fm-browse; utils/cockpit-data.ts).          *)
(* The tail polls for rows newer than the newest it has shown; the browser *)
(* asks for one page at a time, the last updated first.                    *)
(***************************************************************************)
EXTENDS Naturals, Sequences, FiniteSets, SequencesExt, FiniteSetsExt

CONSTANTS
    Op,         \* operations that are put on the ledger
    Newer,      \* rows a poll reads (50 in the code)
    Horizon,    \* the clock stops here
    Fact,       \* numbers of the facts
    PageSize    \* facts on a page

VARIABLES
    clock,      \* in milliseconds, the width of a timestamp
    began,      \* [Op -> when it started, 0 before]
    ledger,     \* timestamps of the rows, in the order of their insertion
    tail,       \* "off", "empty" (no ledger when it was attached) or "on"
    lastTs,     \* the newest timestamp shown; 0 for none
    shown,      \* rows of the ledger shown, by their place in it
    polled,     \* history: rows there were at the last poll
    updatedAt,  \* [Fact -> updated_at, 0 while there is none]
    pages,      \* the pages a browser has got in one walk
    more,       \* hasMore of the last of them
    steady      \* history: no fact was written since the walk began

vars == <<clock, began, ledger, tail, lastTs, shown, polled, updatedAt, pages, more, steady>>
tailVars == <<tail, lastTs, shown, polled>>
pageVars == <<updatedAt, pages, more, steady>>

Init ==
    /\ clock = 1 /\ began = [o \in Op |-> 0] /\ ledger = <<>>
    /\ tail = "off" /\ lastTs = 0 /\ shown = <<>> /\ polled = 0
    /\ updatedAt = [f \in Fact |-> 0] /\ pages = <<>> /\ more = TRUE /\ steady = TRUE

Tick == clock < Horizon /\ clock' = clock + 1 /\ UNCHANGED <<began, ledger, tailVars, pageVars>>

\* withAudit(): the timestamp is taken first, the row appended when the operation has ended.
Begin(o) ==
    /\ began[o] = 0
    /\ began' = [began EXCEPT ![o] = clock]
    /\ UNCHANGED <<clock, ledger, tailVars, pageVars>>

Record(o) ==
    /\ began[o] \in 1..Horizon
    /\ ledger' = Append(ledger, began[o])
    /\ began' = [began EXCEPT ![o] = Horizon + 1]
    /\ UNCHANGED <<clock, tailVars, pageVars>>

\* A row comes before another by its timestamp, then by its place.
Older(i, j) == ledger[i] < ledger[j] \/ (ledger[i] = ledger[j] /\ i < j)

\* tailAudit(): the newest rows past a timestamp; here with the oldest first, as they are sent.
tailAudit_AtLeast(since) ==
    LET rows == SetToSortSeq({i \in DOMAIN ledger : ledger[i] >= since}, Older)
    IN SubSeq(rows, Max({1, Len(rows) - Newer + 1}), Len(rows))
tailAudit(since) ==
    LET rows == SetToSortSeq({i \in DOMAIN ledger : ledger[i] > since}, Older)
    IN SubSeq(rows, Max({1, Len(rows) - Newer + 1}), Len(rows))

Show(rows) ==
    /\ shown' = shown \o rows
    /\ lastTs' = Max({lastTs} \cup {ledger[i] : i \in ToSet(rows)})
    /\ polled' = Len(ledger)

\* Without a ledger file there will be heartbeats only, also when one appears; a
\* file may be there before its first row.
Attach ==
    /\ tail = "off"
    /\ \/ ledger = <<>> /\ tail' = "empty" /\ UNCHANGED <<lastTs, shown, polled>>
       \/ tail' = "on" /\ Show(tailAudit(0))
    /\ UNCHANGED <<clock, began, ledger, pageVars>>

Poll ==
    /\ tail = "on"
    /\ Show(tailAudit(lastTs))
    /\ UNCHANGED <<clock, began, ledger, tail, pageVars>>

Detach ==
    /\ tail # "off"
    /\ tail' = "off" /\ lastTs' = 0 /\ shown' = <<>> /\ polled' = 0
    /\ UNCHANGED <<clock, began, ledger, pageVars>>

\* Another process writes a fact.
Put(f) ==
    /\ updatedAt[f] # clock
    /\ updatedAt' = [updatedAt EXCEPT ![f] = clock]
    /\ steady' = (pages = <<>>)
    /\ UNCHANGED <<clock, began, ledger, tailVars, pages, more>>

Stored == {f \in Fact : updatedAt[f] # 0}
\* ORDER BY updated_at DESC; rows with the same one come in an order that stays the same.
Listing == SetToSortSeq(Stored, LAMBDA f, g :
              \/ updatedAt[f] > updatedAt[g]
              \/ (updatedAt[f] = updatedAt[g] /\ f > g))

\* browseFm(): LIMIT and OFFSET of the page asked for.
Page(n) ==
    LET offset == (n - 1) * PageSize
    IN SubSeq(Listing, offset + 1, Min({offset + PageSize, Cardinality(Stored)}))

hasMore_Short(n) == n * PageSize + 1 < Cardinality(Stored)
hasMore(n) == (n - 1) * PageSize + Len(Page(n)) < Cardinality(Stored)

Browse ==
    /\ more
    /\ pages' = Append(pages, Page(Len(pages) + 1))
    /\ more' = hasMore(Len(pages) + 1)
    /\ UNCHANGED <<clock, began, ledger, tailVars, updatedAt, steady>>

Reload ==
    /\ pages # <<>>
    /\ pages' = <<>> /\ more' = TRUE /\ steady' = TRUE
    /\ UNCHANGED <<clock, began, ledger, tailVars, updatedAt>>

Next ==
    \/ Tick \/ Attach \/ Poll \/ Detach \/ Browse \/ Reload
    \/ \E o \in Op : Begin(o) \/ Record(o)
    \/ \E f \in Fact : Put(f)

Spec == Init /\ [][Next]_vars

-----------------------------------------------------------------------------
\* The panel shows no row twice and none before an older one, though rows are
\* put on the ledger with the time their operation began; after a poll nothing
\* there is newer than what it shows (attachAuditTailSse, tailAudit).
TailInOrder ==
    /\ \A i, j \in DOMAIN shown : i < j => Older(shown[i], shown[j])
    /\ tail = "on" => \A i \in 1..polled : ledger[i] <= lastTs

\* Where no fact is written during the walk, a browser that pages on as long as
\* there is more has seen every fact once (browseFm).
WalkSeesAll ==
    steady => LET seen == FlattenSeq(pages)
              IN  /\ \A i, j \in DOMAIN seen : i # j => seen[i] # seen[j]
                  /\ ~ more => ToSet(seen) = Stored
===============================================================================
