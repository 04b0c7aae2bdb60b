------------ MODULE RepoScripts ----------------------------------------------
(***************************************************************************)
(* Scripts of the repository itself: the release of its packages and the   *)
(* gate at the end of a session.                                           *)
(***************************************************************************)
EXTENDS Naturals, Sequences, FiniteSets, SequencesExt, FiniteSetsExt, Integers

(***************************************************************************)
(* Publishing the public packages to npm (scripts/publish-npm.mjs): the    *)
(* manifest's packages one by one, a package read and checked first and    *)
(* then published by npm, which reads it again; a failure is noted and the *)
(* run goes on.  Somebody may edit the packages meanwhile, and the network *)
(* may fail before or after the registry has taken a package.              *)
(***************************************************************************)
CONSTANTS
    Count,      \* packages of the manifest: 1..Count, a package after those it needs
    Needs,      \* [package -> packages it depends on]
    Version,    \* numbers: the odd ones are prereleases
    Edits, Runs \* bounds

VARIABLES
    package,    \* [package -> what is on disk]
    registry,   \* packages with their versions
    latest,     \* [package -> version the latest tag is on, 0 for none]
    run,        \* the run: real, package it is at, what it has read
    results,    \* what it says of the packages so far
    edits, runs, \* how many
    put,        \* history: what this run put into the registry
    between     \* history: packages edited between check and publication

releaseVars == <<package, registry, latest, run, results, edits, runs, put, between>>

Packages == 1..Count
Disk == [readable : BOOLEAN, open : BOOLEAN, ready : BOOLEAN, version : Version]
Prerelease(v) == v % 2 = 1

Idle == [real |-> FALSE, i |-> 0, read |-> 0, exit |-> "none"]

ReleaseInit ==
    /\ package \in [Packages -> {d \in Disk : d.readable /\ d.version = Min(Version)}]
    /\ registry = {} /\ latest = [p \in Packages |-> 0]
    /\ run = Idle /\ results = [p \in {} |-> "ok"]
    /\ edits = 0 /\ runs = 0 /\ put = {} /\ between = {}

\* Somebody edits, builds or breaks a package.
Edit(p) ==
    /\ edits < Edits /\ edits' = edits + 1
    /\ \E d \in Disk : d # package[p] /\ package' = [package EXCEPT ![p] = d]
    /\ between' = IF run.i = p /\ run.read # 0 THEN between \cup {p} ELSE between
    /\ UNCHANGED <<registry, latest, run, results, runs, put>>

\* A real run needs somebody who is logged in.
Begin ==
    /\ run.i = 0 /\ runs < Runs
    /\ \E real, whoami \in BOOLEAN :
          IF real /\ ~ whoami
          THEN run' = [Idle EXCEPT !.exit = "failed"]
          ELSE run' = [real |-> real, i |-> 1, read |-> 0, exit |-> "none"]
    /\ put' = {} /\ runs' = runs + 1 /\ results' = [p \in {} |-> "ok"] /\ between' = {}
    /\ UNCHANGED <<package, registry, latest, edits>>

Says(how) == [p \in DOMAIN results \cup {run.i} |-> IF p = run.i THEN how ELSE results[p]]

\* What a run ends with: a dry one always well, a real one only if no package failed.
Ends_NotReady(res) == IF run.real /\ \E p \in Packages : res[p] = "not ready" THEN "failed" ELSE "ok"
Ends(res) == IF run.real /\ \E p \in Packages : res[p] # "ok" THEN "failed" ELSE "ok"

Next_(how) ==
    /\ results' = Says(how)
    /\ run' = IF run.i < Count THEN [run EXCEPT !.i = @ + 1, !.read = 0]
              ELSE [run EXCEPT !.i = 0, !.read = 0, !.exit = Ends(results')]

\* readPkg() and validateReadiness(): a package that is not open stops the whole run.
Check ==
    LET d == package[run.i]
    IN /\ run.i # 0 /\ run.read = 0
       /\ CASE ~ d.readable -> Next_("not ready")
            [] d.readable /\ ~ d.open ->
                  run' = [run EXCEPT !.i = 0, !.exit = "aborted"] /\ UNCHANGED results
            [] d.readable /\ d.open /\ ~ d.ready -> Next_("not ready")
            [] OTHER -> run' = [run EXCEPT !.read = d.version] /\ UNCHANGED results
       /\ UNCHANGED <<package, registry, latest, edits, runs, put, between>>

\* publishPackage(): the tag follows from the version that was read.
Publish ==
    LET p == run.i
        d == package[p]
        free == d.readable /\ <<p, d.version>> \notin registry
    IN /\ run.i # 0 /\ run.read # 0
       /\ \/ ~ run.real /\ UNCHANGED <<registry, latest, put>> /\ \E how \in {"ok", "failed"} : Next_(how)
          \/ run.real /\ UNCHANGED <<registry, latest, put>> /\ Next_("failed")
          \/ /\ run.real /\ free
             /\ registry' = registry \cup {<<p, d.version>>} /\ put' = put \cup {<<p, d.version>>}
             /\ latest' = IF Prerelease(run.read) THEN latest ELSE [latest EXCEPT ![p] = d.version]
             /\ \E how \in {"ok", "failed"} : Next_(how)
       /\ UNCHANGED <<package, edits, runs, between>>

ReleaseNext == Begin \/ Check \/ Publish \/ \E p \in Packages : Edit(p)
ReleaseSpec == ReleaseInit /\ [][ReleaseNext]_releaseVars

-----------------------------------------------------------------------------
\* A real run ends well only if it has put every package of the manifest into the
\* registry, each with a version of all it needs, so that whoever installs one
\* finds the others; where it ends otherwise, a package may be there without
\* what it needs, and the run has said of one of these that it failed.  A dry
\* run puts nothing there (publish-npm.mjs, main).
EndTellsTheRegistry ==
    LET have == {e[1] : e \in registry}
        lacking == {p \in {e[1] : e \in put} : ~ Needs[p] \subseteq have}
    IN  /\ run.i = 0 /\ run.exit = "ok" /\ run.real =>
              {e[1] : e \in put} = Packages /\ lacking = {}
        /\ (run.i # 0 \/ run.exit \in {"failed", "aborted"}) =>
              \A p \in lacking : \E q \in Needs[p] : q \in DOMAIN results /\ results[q] # "ok"
        /\ ~ run.real /\ run.i # 0 => put = {}

\* "explicit dist-tag so they don't move `latest`" (publish-npm.mjs:130): unless a
\* package is edited between the check and the publication.
LatestIsStable ==
    \A e \in put : latest[e[1]] = e[2] /\ Prerelease(e[2]) => e[1] \in between

-----------------------------------------------------------------------------
(***************************************************************************)
(* The gate at the end of a session (packages/repo-hygiene/hygiene.mjs):   *)
(* copies of a file in several folders, drafts, results older than their   *)
(* sources, and commits that were not shipped, beside somebody who works,  *)
(* pushes and merges.  Paths are numbers in the order git lists them.  The *)
(* part of check 6 for repositories without an origin is in DeployGate,    *)
(* and what check 7 asks in TaskHygiene.                                   *)
(***************************************************************************)
CONSTANTS
    Path, Folder, Base,     \* [Path -> its folder], [Path -> its name]
    Content, Length,        \* [Content -> its size]
    Config,                 \* [allowed: names, scopes: sets of folders, pairs: [derived, source]]
    Drafts,                 \* paths a draft pattern matches
    Commits                 \* bound

VARIABLES
    tree,           \* [Path -> what it has, "none" if git does not know it]
    touched,        \* [Path -> when it was written]
    unread,         \* files that cannot be read, only looked at
    config,
    head,           \* commits of the branch
    upstream,       \* how many of them its upstream has, -1 for no upstream
    main,           \* how many the main branch of the origin has
    origin,         \* how many origin/main has here, -1 for none
    pr              \* pull request of the branch: "none", "OPEN", "MERGED" or "CLOSED"

treeVars == <<tree, touched, unread, config>>
gitVars  == <<head, upstream, main, origin, pr>>
hygieneVars == <<treeVars, gitVars>>

HygieneInit ==
    /\ tree \in [Path -> Content \cup {"none"}] /\ touched \in [Path -> {1, 2}]
    /\ unread \in {{}} \cup {{p} : p \in Path} /\ config \in Config
    /\ head = 0 /\ upstream = -1 /\ main = 0 /\ origin \in {-1, 0} /\ pr = "none"

\* What people and the origin do meanwhile.
Commit == head < Commits /\ head' = head + 1 /\ UNCHANGED <<treeVars, upstream, main, origin, pr>>
Push == upstream < head /\ upstream' = head /\ UNCHANGED <<treeVars, head, main, origin, pr>>
OpenPr == upstream > main /\ pr # "OPEN" /\ pr' = "OPEN" /\ UNCHANGED <<treeVars, head, upstream, main, origin>>
Merge == pr = "OPEN" /\ main' = upstream /\ pr' = "MERGED" /\ UNCHANGED <<treeVars, head, upstream, origin>>
ClosePr == pr = "OPEN" /\ pr' = "CLOSED" /\ UNCHANGED <<treeVars, head, upstream, main, origin>>
Fetch == origin # main /\ origin' = main /\ UNCHANGED <<treeVars, head, upstream, main, pr>>

HygieneNext == Commit \/ Push \/ OpenPr \/ Merge \/ ClosePr \/ Fetch
HygieneSpec == HygieneInit /\ [][HygieneNext]_hygieneVars

-----------------------------------------------------------------------------
Tracked == {p \in Path : tree[p] # "none"}

\* Check 2: of the files whose size another has too, those with the same hash.
SameSize(p) == \E q \in Tracked \ {p} : Length[tree[q]] = Length[tree[p]]
Hashed == {p \in Tracked : Length[tree[p]] # 0 /\ SameSize(p) /\ p \notin unread}
Group(c) == {p \in Hashed : tree[p] = c}
Scoped(ps) == \E s \in config.scopes : \A p \in ps : Folder[p] \in s
Duplicates ==
    {g \in {Group(c) : c \in Content} :
        /\ Cardinality({Folder[p] : p \in g}) > 1
        /\ Base[Min(g)] \notin config.allowed
        /\ ~ Scoped(g)}

\* Check 5.
Newest(ps) == Max({touched[p] : p \in ps})
Stale ==
    UNION {LET srcs == Tracked \cap r.source drvs == Tracked \cap r.derived
           IN IF srcs = {} \/ drvs = {} THEN {} ELSE {p \in drvs : touched[p] < Newest(srcs)} : r \in config.pairs}

\* Check 6: evaluateUnshipped(), over what git and gh tell.
AheadOrigin == IF origin = -1 THEN 0 ELSE Max({head - origin, 0})
AheadUpstream == IF upstream = -1 THEN 0 ELSE head - upstream
Unshipped(gh) ==
    /\ Max({AheadOrigin, AheadUpstream}) > 0
    /\ ~ (gh /\ pr = "OPEN")

\* The exit code: errors count, and warnings if it is strict.
Errors(gh) == (Drafts \cap Tracked) \cup Stale # {} \/ Unshipped(gh)
Exit(strict, gh) == IF Errors(gh) \/ (strict /\ Duplicates # {}) THEN 1 ELSE 0

-----------------------------------------------------------------------------
\* No copy is missed because only files of a size another has are opened: two files
\* with the same text in two folders are told in one group, unless an allowed
\* name is the first of the group, or all lie in a folder of snapshots; and what
\* is told is a copy.  A commit that is neither in origin's main branch nor in an
\* open pull request ends the session badly, and one that is in main, as far as
\* was fetched, and in the branch's upstream does not (evaluateUnshipped).
HygieneTells ==
    /\ \A p, q \in Tracked \ unread :
          LET all == {r \in Tracked \ unread : tree[r] = tree[p]}
          IN  tree[p] = tree[q] /\ Folder[p] # Folder[q] /\ Length[tree[p]] # 0 =>
                \/ \E g \in Duplicates : {p, q} \subseteq g
                \/ \E r \in all : Base[r] \in config.allowed
                \/ Scoped(all)
    /\ \A g \in Duplicates : \A p, q \in g : tree[p] = tree[q] /\ Length[tree[p]] # 0
    /\ \A strict \in BOOLEAN :
          Exit(strict, TRUE) = 0 =>
             /\ origin # -1 \/ upstream # -1 => head <= main \/ pr = "OPEN" \/ (origin = -1 /\ head <= upstream)
             /\ \A r \in config.pairs : \A p \in Tracked \cap r.derived, q \in Tracked \cap r.source : touched[p] >= touched[q]
    /\ head <= origin /\ AheadUpstream = 0 => ~ Unshipped(FALSE)
    /\ origin <= main

--------------------------------------------------------------------------------
(***************************************************************************)
(* Loading a governance vault and judging it (packages/gvs: vault.ts and   *)
(* validator.ts), and what vault_validate and vault_index tell of it       *)
(* (packages/code, mcp/handler.ts).  Names of files and titles of notes    *)
(* are numbers; a note links to names.  Whether the rest of its            *)
(* frontmatter is complete is given.                                       *)
(***************************************************************************)
CONSTANTS
    Axis,           \* folders, in order: a sequence
    Note,           \* [folder, axis, name, title, links, status, supersedes, ref, complete, canonical]
    Home,           \* [where, version, name, links]: where is "00 Home.md", "Home.md" or "none"
    MaxNotes, MaxIssues

VARIABLES
    notes,          \* the notes of the vault, as its folders are read
    home, templates \* whether the templates are all there

vaultVars == <<notes, home, templates>>

-----------------------------------------------------------------------------
\* loadNote(): the frontmatter says the axis where it names one, else the folder does.
AxisOf(n) == IF n.axis \in ToSet(Axis) THEN n.axis ELSE n.folder
TitleOf(n) == IF n.title # 0 THEN n.title ELSE n.name

\* loadVault(): folder by folder, each note once; the home comes first.
InFolder(a) == SelectSeq(notes, LAMBDA n : n.folder = a)
All == FoldLeft(LAMBDA read, a : read \o InFolder(a), <<>>, Axis)

\* The vault in the order its notes are read in.
VaultInit ==
    /\ notes \in UNION {[1..n -> Note] : n \in 0..MaxNotes}
    /\ All = notes
    /\ home \in Home /\ templates \in BOOLEAN
VaultNext == FALSE /\ UNCHANGED vaultVars
VaultSpec == VaultInit /\ [][VaultNext]_vaultVars

Issue(rule, severity, at) == [rule |-> rule, severity |-> severity, at |-> at]

HomeIssues ==
    IF home.where = "none" THEN <<Issue("home-present", "error", 0)>>
    ELSE (IF home.where # "00 Home.md" THEN <<Issue("home-naming", "warning", 0)>> ELSE <<>>)
         \o (IF ~ home.version THEN <<Issue("home-gvs-version", "error", 0)>> ELSE <<>>)

\* Rules 1, 2 and 4, note by note: the schema wants the axis to be said, and right.
NoteIssues(i) ==
    LET n == notes[i]
        schema == n.complete /\ n.axis = AxisOf(n)
    IN  (IF n.axis \notin {"none", n.folder} THEN <<Issue("axis-consistency", "error", i)>> ELSE <<>>)
        \o (IF ~ schema THEN <<Issue("frontmatter-completeness", "error", i)>> ELSE <<>>)
        \o (IF n.canonical = "broken" THEN <<Issue("canonical-path", "warning", i)>> ELSE <<>>)

HomeName == IF home.where = "none" THEN {} ELSE {home.name}

\* Rule 3: titles and names of files are both what a link may name.
LinkTargets == {TitleOf(notes[i]) : i \in DOMAIN notes} \cup {notes[i].name : i \in DOMAIN notes}
           \cup HomeName
Broken(i, links) == [k \in 1..Cardinality(links \ LinkTargets) |-> Issue("wikilink-resolution", "warning", i)]

\* Rule 5: within the folder of the audit.
Refs(i) == \E j \in 1..i - 1 : notes[j].folder = "audit" /\ notes[j].ref = notes[i].ref
RefIssues(i) ==
    IF notes[i].folder = "audit" /\ notes[i].ref # 0 /\ Refs(i) THEN <<Issue("audit-uniqueness", "error", i)>> ELSE <<>>

\* Rule 7: links of active notes to titles of archived ones.
Archived == {TitleOf(notes[i]) : i \in {j \in DOMAIN notes : notes[j].status = "archived"}}
StatusIssues(i) ==
    LET bad == IF notes[i].status = "active" THEN (notes[i].links \cap Archived) \ {notes[i].supersedes} ELSE {}
    IN [k \in 1..Cardinality(bad) |-> Issue("status-consistency", "warning", i)]

Each(op(_)) == FlattenSeq([i \in DOMAIN notes |-> op(i)])
Issues ==
    HomeIssues \o (IF templates THEN <<>> ELSE <<Issue("templates-catalog", "error", 0)>>)
    \o Each(NoteIssues)
    \o (IF home.where = "none" THEN <<>> ELSE Broken(0, home.links))
    \o Each(LAMBDA i : Broken(i, notes[i].links)) \o Each(RefIssues) \o Each(StatusIssues)

Of(issues, severity) == SelectSeq(issues, LAMBDA e : e.severity = severity)
validateVault == [issues |-> Issues, conforming |-> Of(Issues, "error") = <<>>]

\* vaultValidate(): the first of each kind, and whether there are more.
Told(severity) ==
    LET all == Of(Issues, severity) IN SubSeq(all, 1, Min({MaxIssues, Len(all)}))
Truncated(severity) == Len(Of(Issues, severity)) > Len(Told(severity))
\* vaultIndex(): axis by axis, which is folder by folder.
Index == [i \in DOMAIN Axis |-> InFolder(Axis[i])]

-----------------------------------------------------------------------------
\* Each link of a note leads to a note or is told broken.  In a vault that conforms
\* the index has each note under the axis it names and an audit reference tells
\* one note.  A note that is active links to no archived note it does not
\* supersede without being told - where it links by a title, and nobody else has
\* that title: a link by the name of the file is a link, but rule 7 does not see
\* it (validator.ts:12).  No error is cut off without a word (vaultValidate).
VaultIsJudged ==
    LET issues == Issues
        conforming == validateVault.conforming
        About(rule, i) == \E k \in DOMAIN issues : issues[k].rule = rule /\ issues[k].at = i
    IN
    /\ \A i \in DOMAIN notes : (\E l \in notes[i].links \ HomeName : ~ \E j \in DOMAIN notes : l \in {TitleOf(notes[j]), notes[j].name})
                                <=> About("wikilink-resolution", i)
    /\ conforming =>
          /\ \A a \in DOMAIN Axis : \A k \in DOMAIN Index[a] : Index[a][k].axis = Axis[a]
          /\ \A i, j \in DOMAIN notes : notes[i].folder = "audit" /\ notes[j].folder = "audit" /\ notes[i].ref = notes[j].ref
                /\ notes[i].ref # 0 => i = j
          /\ home.where # "none" /\ templates
    /\ \A i, j \in DOMAIN notes : \A l \in notes[i].links :
          /\ notes[i].status = "active" /\ notes[j].status = "archived" /\ l = TitleOf(notes[j]) /\ l # notes[i].supersedes =>
                About("status-consistency", i)
    /\ \A i \in DOMAIN notes : About("status-consistency", i) =>
          \E j \in DOMAIN notes : notes[j].status = "archived" /\ TitleOf(notes[j]) \in notes[i].links
    /\ FoldFunction(LAMBDA s, t : Len(s) + t, 0, Index) = Len(notes)
    /\ \A sev \in {"error", "warning"} : Told(sev) = Of(issues, sev) \/ (Truncated(sev) /\ Len(Told(sev)) = MaxIssues)
    /\ conforming <=> Told("error") = <<>> /\ ~ Truncated("error")
===============================================================================
