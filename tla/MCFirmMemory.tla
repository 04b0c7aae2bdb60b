----------------------------- MODULE MCFirmMemory -----------------------------
(***************************************************************************)
(* The calls of a node, and what Atrium does with firm memory, its ledger  *)
(* and the hooks of its host, side by side in one run: `part` says which   *)
(* component moves, the others stay as they began.                         *)
(***************************************************************************)
EXTENDS NodeChain, Sequences, TLC

VARIABLES
    part,
    lines, facts, entries, saved, run, op, left,
    runs, child, feed, posts, stopping, told,
    clock, began, rows, tail, lastTs, shown, polled, updatedAt, pages, more, steady,
    modified, trashed, imported, mark, sync, edits, syncs,
    memory, wal, packed, open, stored, push, drive, restore, faults, torn,
    form, settings, scripts, config, toolMap, installing, own, spoilt, orphaned, reply, budget

ingestVars  == <<lines, facts, entries, saved, run, op, left>>
wizardVars  == <<runs, child, feed, posts, stopping, told>>
cockpitVars == <<clock, began, rows, tail, lastTs, shown, polled, updatedAt, pages, more, steady>>
driveVars   == <<modified, trashed, imported, mark, sync, edits, syncs>>
mirrorVars  == <<memory, wal, packed, open, stored, push, drive, restore, faults, torn>>
hookVars    == <<form, settings, scripts, config, toolMap, installing, own, spoilt, orphaned, reply, budget>>

CONSTANTS
    n1, n2, s1, s2, c1, c2, c3,                                     \* calls
    f1, f2, File, Length, Process, Concurrency, MaxTurns, Runs, Mishaps,    \* ingest
    Run, Client, Cap,                                               \* wizard
    Op, Newer, Horizon, Fact, PageSize,                             \* cockpit
    Doc, DocsAPage, Edits, Syncs,                                   \* drive
    MaxFacts, Secret, Bundles, Crashes,                             \* mirror
    Dir, OwnHooks, Lookalike, ByHand, Installs                      \* hooks

\* A node that authenticates with a session of two calls, and one that does not with a session
\* of one, one node at a time; and the first of them alone.
EachOnItsNode == [s \in {s1, s2} |-> IF s = s1 THEN n1 ELSE n2]
TwoAndOne     == [c \in {c1, c2, c3} |-> IF c = c3 THEN s2 ELSE s1]
StandsStill(n) ==
    /\ UNCHANGED <<phase[n], paused[n], killed[n]>>
    /\ \A s \in Session : NodeOf[s] = n => UNCHANGED token[s]
    /\ \A c \in Call : Home(c) = n => UNCHANGED at[c]
OneSession    == [s \in {s1} |-> n1]
BothCalls     == [c \in {c1, c2} |-> s1]

\* A line, an empty line and one without its break; a line cut by nothing.
Texts == {<<1, 0, 2>>, <<0, 1, 0>>}

\* The second session file gets one line at most.
Sessions == INSTANCE Ingest WITH ledger <- entries, Lines <- Length, Faults <- Mishaps
Panel    == INSTANCE Cockpit WITH ledger <- rows
Bundled  == INSTANCE Mirror WITH saved <- packed, at <- stored, Faults <- Crashes, Lines <- Texts
Hooks    == INSTANCE HookFiles WITH command <- installing, left <- budget, Edits <- ByHand,
                                    Commands <- Installs

PartInit ==
    /\ part \in {"calls", "open", "ingest", "wizard", "cockpit", "drive", "mirror", "hooks"}
    /\ part \notin {"calls", "open"} => token = [s \in Session |-> "good"]
    /\ part # "ingest" => lines = [f \in File |-> <<>>]
    /\ part # "hooks" => form = [f \in Hooks!SettingsFile |-> "absent"]
    /\ Init /\ Sessions!Init /\ Panel!Init /\ Bundled!WizardInit /\ Sessions!DriveInit /\ Bundled!Init
    /\ Hooks!Init

Still(ps, v) == IF part \in ps THEN TRUE ELSE UNCHANGED v

PartNext ==
    /\ UNCHANGED part
    /\ \/ part = "calls"   /\ Next /\ \A n \in Node \ {n1} : StandsStill(n)
       \/ part = "open"    /\ Next /\ \A n \in Node \ {n2} : StandsStill(n)
       \/ part = "ingest"  /\ Sessions!Next /\ Len(lines'[f2]) <= 1
       \/ part = "wizard"  /\ Bundled!WizardNext
       \/ part = "cockpit" /\ Panel!Next
       \/ part = "drive"   /\ Sessions!DriveNext
       \/ part = "mirror"  /\ Bundled!Next
       \/ part = "hooks"   /\ Hooks!Next
    /\ Still({"calls", "open"}, vars)          /\ Still({"ingest"}, ingestVars)
    /\ Still({"wizard"}, wizardVars)   /\ Still({"cockpit"}, cockpitVars)
    /\ Still({"drive"}, driveVars)     /\ Still({"mirror"}, mirrorVars)
    /\ Still({"hooks"}, hookVars)

PartSpec ==
    PartInit /\ [][PartNext]_<<part, vars, ingestVars, wizardVars, cockpitVars, driveVars, mirrorVars, hookVars>>

\* The calls of a node on their own.
CallsSpec == part = "calls" /\ PartSpec

\* What each module states, for its part.
MarksAreCovered ==
    /\ part = "ingest" => Sessions!CheckpointIsCovered
    /\ part = "drive" => Sessions!MarkIsCovered
    /\ part = "mirror" => Bundled!MarkIsStored
ScreensTellWhatIs ==
    /\ part = "wizard" => Bundled!FeedsAreWhole
    /\ part = "cockpit" => Panel!TailInOrder /\ Panel!WalkSeesAll
HooksAreLeftWhole == part = "hooks" => Hooks!ForeignHooksSurvive /\ Hooks!NoDanglingHook

Symmetry == Permutations(Process)
===============================================================================
