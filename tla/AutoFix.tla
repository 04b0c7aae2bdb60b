------------ MODULE AutoFix --------------------------------------------------
(***************************************************************************)
(* What packages/code/src/autofix does with files: fixing them, and        *)
(* telling what has changed.                                               *)
(***************************************************************************)
EXTENDS Integers, SequencesExt, Naturals, Sequences, FiniteSets

(***************************************************************************)
(* auto_fix of packages/code: AutoFixer over FixGenerator and the two      *)
(* validators of Gatekeeper, on one file that its user may edit meanwhile. *)
(*                                                                         *)
(* A line is told by what is wrong with it: "semi" stands for the errors   *)
(* whose fix replaces the line with confidence, "quotes" for those whose   *)
(* fix has less of it, "unused" for a declaration that is removed, "other" *)
(* for what no pattern knows.  Every line is a declaration.  ESLint        *)
(* reports in the order of lines and columns under an absolute path, tsc   *)
(* only what is unused, under a path relative to where it ran: one file    *)
(* has two names, and the second need not lead anywhere from here.         *)
(***************************************************************************)
CONSTANTS
    Files,          \* what the file may be at first
    MaxIterations,
    MaxFixes,       \* maxFixesPerIteration
    Edits           \* bound of the edits of the user

VARIABLES
    file,           \* its lines
    options,        \* dryRun, the confidence asked for, and whether tsc's path resolves
    at,
    iteration,
    lastFixCount,
    errors,         \* of the last validation
    fixes,          \* to apply, and then those not applied yet, by name of the file
    read,           \* the lines applyFixes() has read
    applied,        \* totalFixesApplied, and those of this iteration
    initialErrors,
    status,
    edits, tangled, sound   \* history: edits made; whether fixes could meet; lines that were in order

vars == <<file, options, at, iteration, lastFixCount, errors, fixes, read, applied,
          initialErrors, status, edits, tangled, sound>>

Columns == <<"unused", "quotes", "semi", "other">>
Names == <<"eslint", "tsc">>

InOrder(f) == {f[i].id : i \in {j \in DOMAIN f : f[j].flaws = {}}}

Init ==
    /\ file \in Files
    /\ options \in [dryRun : BOOLEAN, confident : BOOLEAN, resolves : BOOLEAN]
    /\ at = "first" /\ iteration = 0 /\ lastFixCount = -1
    /\ errors = <<>> /\ fixes = [n \in {"eslint", "tsc"} |-> <<>>] /\ read = <<>>
    /\ applied = [total |-> 0, now |-> 0] /\ initialErrors = 0 /\ status = "none"
    /\ edits = 0 /\ tangled = FALSE /\ sound = InOrder(file)

\* What a validator says of the lines f.
Errors(n, f) ==
    LET sees == IF n = "tsc" THEN {"unused"} ELSE {"unused", "quotes", "semi", "other"}
        Of(i) == LET flaws == SelectSeq(Columns, LAMBDA x : x \in f[i].flaws \cap sees)
                 IN  [k \in DOMAIN flaws |-> [name |-> n, line |-> i, rule |-> flaws[k]]]
    IN  FlattenSeq([i \in DOMAIN f |-> Of(i)])

\* preflightCheck(): a validator that fails, or runs into its timeout, has no errors.
Preflight(failed) ==
    FlattenSeq([i \in 1..2 |-> IF Names[i] \in failed THEN <<>> ELSE Errors(Names[i], file)])

First(failed) ==
    /\ at = "first"
    /\ initialErrors' = Len(Preflight(failed))
    /\ IF initialErrors' = 0 THEN at' = "done" /\ status' = "clean"
       ELSE at' = "validate" /\ UNCHANGED status
    /\ UNCHANGED <<file, options, iteration, lastFixCount, errors, fixes, read, applied,
                   edits, tangled, sound>>

Validate(failed) ==
    /\ at = "validate"
    /\ IF iteration < MaxIterations
       THEN /\ iteration' = iteration + 1
            /\ errors' = Preflight(failed)
            /\ at' = IF errors' = <<>> THEN "final" ELSE "generate"
       ELSE at' = "final" /\ UNCHANGED <<iteration, errors>>
    /\ UNCHANGED <<file, options, lastFixCount, fixes, read, applied, initialErrors, status,
                   edits, tangled, sound>>

\* The fix of an error is made from the line that has its number now.
Fix(e) ==
    [name |-> e.name, line |-> e.line, action |-> IF e.rule = "unused" THEN "remove" ELSE "replace",
     replacement |-> [file[e.line] EXCEPT !.flaws = @ \ {e.rule}]]

Fixable(e) == /\ e.rule # "other" /\ e.line \in DOMAIN file
              /\ e.name = "tsc" => options.resolves
Eligible(e) == e.rule = "quotes" => ~ options.confident

\* Two fixes of one line, or fixes under two names, get in each other's way.
Meet(fs) == \E i, j \in DOMAIN fs : i < j /\ (fs[i].line = fs[j].line \/ fs[i].name # fs[j].name)

Generate ==
    /\ at = "generate"
    /\ LET fixed    == SelectSeq(errors, LAMBDA e : Fixable(e) /\ Eligible(e))
           eligible == [i \in DOMAIN fixed |-> Fix(fixed[i])]
           chosen   == SubSeq(eligible, 1, IF Len(eligible) < MaxFixes THEN Len(eligible) ELSE MaxFixes)
       IN  IF Len(eligible) \in {0, lastFixCount}
           THEN at' = "final" /\ UNCHANGED <<lastFixCount, fixes, applied, tangled>>
           ELSE /\ lastFixCount' = Len(eligible)
                /\ at' = IF options.dryRun THEN "final" ELSE "read"
                /\ fixes' = [n \in {"eslint", "tsc"} |-> SelectSeq(chosen, LAMBDA x : x.name = n)]
                /\ applied' = [applied EXCEPT !.now = 0]
                /\ tangled' = (tangled \/ Meet(chosen))
    /\ UNCHANGED <<file, options, iteration, errors, read, initialErrors, status, edits, sound>>

\* applyFixes(), one name after the other: read, change the lines, write.
Read ==
    /\ at = "read"
    /\ IF \A n \in DOMAIN fixes : fixes[n] = <<>>
       THEN /\ at' = IF applied.now = 0 THEN "final" ELSE "validate"
            /\ UNCHANGED read
       ELSE at' = "write" /\ read' = file
    /\ UNCHANGED <<file, options, iteration, lastFixCount, errors, fixes, applied,
                   initialErrors, status, edits, tangled, sound>>

\* The first line first: what is removed shifts the lines below.
Arranged_Up(fs) ==
    LET Before(i, j) == fs[i].line < fs[j].line \/ (fs[i].line = fs[j].line /\ i < j)
        Place(i) == Cardinality({j \in DOMAIN fs : Before(j, i)}) + 1
    IN  [p \in DOMAIN fs |-> fs[CHOOSE i \in DOMAIN fs : Place(i) = p]]

\* fileFixes.sort(): the last line first, and otherwise as they came.
Arranged(fs) ==
    LET Before(i, j) == fs[i].line > fs[j].line \/ (fs[i].line = fs[j].line /\ i < j)
        Place(i) == Cardinality({j \in DOMAIN fs : Before(j, i)}) + 1
    IN  [p \in DOMAIN fs |-> fs[CHOOSE i \in DOMAIN fs : Place(i) = p]]

Apply(s, fix) ==
    IF fix.line \notin DOMAIN s.lines THEN s
    ELSE [lines |-> IF fix.action = "remove" THEN RemoveAt(s.lines, fix.line)
                    ELSE [s.lines EXCEPT ![fix.line] = fix.replacement],
          count |-> s.count + 1]

Write ==
    /\ at = "write"
    /\ LET n == IF fixes["eslint"] # <<>> THEN "eslint" ELSE "tsc"
           s == FoldLeft(Apply, [lines |-> read, count |-> 0], Arranged(fixes[n]))
       IN  /\ file' = s.lines
           /\ applied' = [total |-> applied.total + s.count, now |-> applied.now + s.count]
           /\ fixes' = [fixes EXCEPT ![n] = <<>>]
    /\ at' = "read"
    /\ UNCHANGED <<options, iteration, lastFixCount, errors, read, initialErrors, status,
                   edits, tangled, sound>>

Final(failed) ==
    /\ at = "final"
    /\ LET remaining == Len(Preflight(failed))
       IN  status' = IF remaining = 0 THEN "clean"
                     ELSE IF applied.total > 0 /\ remaining < initialErrors THEN "fixed"
                     ELSE IF applied.total > 0 THEN "partial"
                     ELSE IF iteration >= MaxIterations THEN "max_iterations"
                     ELSE "no_fixes"
    /\ at' = "done"
    /\ UNCHANGED <<file, options, iteration, lastFixCount, errors, fixes, read, applied,
                   initialErrors, edits, tangled, sound>>

\* The user puts a line that is in order on top: it shifts what was reported, and is
\* lost if the file is about to be written.
Edit ==
    /\ edits < Edits /\ at # "done"
    /\ file' = <<[id |-> -edits, flaws |-> {}]>> \o file
    /\ edits' = edits + 1
    /\ sound' = sound \cup {-edits}
    /\ tangled' = (tangled \/ at \in {"generate", "read", "write"})
    /\ UNCHANGED <<options, at, iteration, lastFixCount, errors, fixes, read, applied,
                   initialErrors, status>>

Next ==
    \/ \E failed \in SUBSET {"eslint", "tsc"} : First(failed) \/ Validate(failed) \/ Final(failed)
    \/ Generate \/ Read \/ Write \/ Edit

Spec == Init /\ [][Next]_vars

--------------------------------------------------------------------------------

(* Lines nothing was wrong with are still there, unless two fixes were for one  *)
(* line, came under the two names of the file, or the user wrote between the    *)
(* validation and the fix (applyFixes, FixGenerator.ts l.233-283).              *)
SoundLinesSurvive == ~ tangled => sound \subseteq {file[i].id : i \in DOMAIN file}

-----------------------------------------------------------------------------
(***************************************************************************)
(* DiffTracker of packages/code/src/autofix: snapshots of files, and what  *)
(* is said to have changed since.  A file is a sequence of lines.  The     *)
(* table of the longest common subsequence is a recursive function, the    *)
(* walk along it that of computeLineDiffs().                               *)
(***************************************************************************)
CONSTANTS Path, Texts, NoFile

VARIABLES
    disk,
    snapshots,      \* the Map: path -> lines
    diffs           \* what the last diff() gave, path -> changes, while nothing has moved

diffVars == <<disk, snapshots, diffs>>

DiffInit ==
    /\ disk \in [Path -> Texts \cup {NoFile}]
    /\ snapshots = [p \in {} |-> <<>>] /\ diffs = [p \in {} |-> <<>>]

Table(a, b) ==
    LET dp[i \in 0..Len(a), j \in 0..Len(b)] ==
            IF i = 0 \/ j = 0 THEN 0
            ELSE IF a[i] = b[j] THEN dp[i - 1, j - 1] + 1
            ELSE IF dp[i - 1, j] > dp[i, j - 1] THEN dp[i - 1, j] ELSE dp[i, j - 1]
    IN  dp

\* The way back takes the wrong side.
longestCommonSubsequence_Astray(a, b) ==
    LET dp == Table(a, b)
        back[i \in 0..Len(a), j \in 0..Len(b)] ==
            IF i = 0 \/ j = 0 THEN <<>>
            ELSE IF a[i] = b[j] THEN Append(back[i - 1, j - 1], a[i])
            ELSE IF dp[i - 1, j] > dp[i, j - 1] THEN back[i, j - 1]
            ELSE back[i - 1, j]
    IN  back[Len(a), Len(b)]

\* The way back from the end of both: on equal numbers the second is cut short.
longestCommonSubsequence(a, b) ==
    LET dp == Table(a, b)
        back[i \in 0..Len(a), j \in 0..Len(b)] ==
            IF i = 0 \/ j = 0 THEN <<>>
            ELSE IF a[i] = b[j] THEN Append(back[i - 1, j - 1], a[i])
            ELSE IF dp[i - 1, j] > dp[i, j - 1] THEN back[i - 1, j]
            ELSE back[i, j - 1]
    IN  back[Len(a), Len(b)]

Add(i, x) == [line |-> i, type |-> "add", after |-> x]
Removal(i, x) == [line |-> i, type |-> "remove", before |-> x]
Change(i, x, y) == [line |-> i, type |-> "change", before |-> x, after |-> y]

computeLineDiffs(a, b) ==
    LET lcs == longestCommonSubsequence(a, b)
        On(s, i, k) == k <= Len(lcs) /\ i <= Len(s) /\ s[i] = lcs[k]
        walk[i \in 1..Len(a) + 1, j \in 1..Len(b) + 1, k \in 1..Len(lcs) + 1] ==
            CASE On(a, i, k) /\ On(b, j, k) -> walk[i + 1, j + 1, k + 1]
              [] On(a, i, k) /\ ~ On(b, j, k) -> <<Add(j, b[j])>> \o walk[i, j + 1, k]
              [] ~ On(a, i, k) /\ On(b, j, k) -> <<Removal(i, a[i])>> \o walk[i + 1, j, k]
              [] ~ On(a, i, k) /\ ~ On(b, j, k) ->
                    IF i <= Len(a) /\ j <= Len(b)
                    THEN <<Change(i, a[i], b[j])>> \o walk[i + 1, j + 1, k]
                    ELSE IF i <= Len(a) THEN <<Removal(i, a[i])>> \o walk[i + 1, j, k]
                    ELSE IF j <= Len(b) THEN <<Add(j, b[j])>> \o walk[i, j + 1, k]
                    ELSE <<>>
    IN  walk[1, 1, 1]

\* A file that cannot be read leaves the snapshot that was.
Snapshot(ps) ==
    /\ snapshots' = [p \in DOMAIN snapshots \cup {q \in ps : disk[q] # NoFile} |->
                        IF p \in ps /\ disk[p] # NoFile THEN disk[p] ELSE snapshots[p]]
    /\ diffs' = [p \in {} |-> <<>>] /\ UNCHANGED disk

DiffOf(p) ==
    IF disk[p] = NoFile THEN [i \in DOMAIN snapshots[p] |-> Removal(i, snapshots[p][i])]
    ELSE computeLineDiffs(snapshots[p], disk[p])

Diff ==
    /\ LET changed == {p \in DOMAIN snapshots : disk[p] = NoFile \/ DiffOf(p) # <<>>}
       IN  diffs' = [p \in changed |-> DiffOf(p)]
    /\ UNCHANGED <<disk, snapshots>>

Reset ==
    /\ snapshots # [p \in {} |-> <<>>] /\ snapshots' = [p \in {} |-> <<>>]
    /\ diffs' = [p \in {} |-> <<>>] /\ UNCHANGED disk

Store(p, f) ==
    /\ disk[p] # f /\ disk' = [disk EXCEPT ![p] = f]
    /\ diffs' = [q \in {} |-> <<>>] /\ UNCHANGED snapshots

DiffNext ==
    \/ \E ps \in (SUBSET Path) \ {{}} : Snapshot(ps)
    \/ Diff \/ Reset
    \/ \E p \in Path, f \in Texts \cup {NoFile} : Store(p, f)

DiffSpec == DiffInit /\ [][DiffNext]_diffVars

--------------------------------------------------------------------------------

Gone(ch) == {ch[i].line : i \in {j \in DOMAIN ch : ch[j].type # "add"}}
Came(ch) == Cardinality({j \in DOMAIN ch : ch[j].type # "remove"})

\* The lines of a that are not in the set `out`, in order.
Left(a, out) ==
    LET kept[i \in 0..Len(a)] == IF i = 0 THEN <<>>
                                 ELSE IF i \in out THEN kept[i - 1] ELSE Append(kept[i - 1], a[i])
    IN  kept[Len(a)]

Subsequences(a) == {Left(a, out) : out \in SUBSET (1..Len(a))}

(* What diff() tells of two files is least: the lines it leaves alone are in    *)
(* both, and no common part of the two is longer (DiffTracker.ts l.101-169).    *)
LeastIsTold ==
    \A p \in DOMAIN diffs : disk[p] # NoFile =>
        LET a == snapshots[p]
            b == disk[p]
            same == Left(a, Gone(diffs[p]))
        IN  /\ same \in Subsequences(b)
            /\ Len(same) + Came(diffs[p]) = Len(b)
            /\ \A s \in Subsequences(a) \cap Subsequences(b) : Len(s) <= Len(same)
-----------------------------------------------------------------------------
(***************************************************************************)
(* HypothesisEngine of packages/code/src/tdd: red, green, refactor, for    *)
(* calls of run_tdd that work on one test file and one implementation.     *)
(* Which implementations a test accepts is given; a test run that times    *)
(* out or finds no runner ends like one whose test failed, and a validator *)
(* that fails has no errors.  `neat` is what ESLint has nothing against,   *)
(* or can make so.                                                         *)
(***************************************************************************)
CONSTANTS
    Cycle,          \* the calls
    Test, Code,     \* what the two files may say
    Accepts         \* pairs of a test and the code it passes with

VARIABLES
    written,        \* the two files
    cycle,          \* of a call: where it is, its hypothesis, the phase it was told
    shared          \* history: calls that ran beside another

tddVars == <<written, cycle, shared>>

Text(is, neat) == [is |-> is, neat |-> neat]
Absent == Text(0, TRUE)
NoHypothesis == [test |-> 0, code |-> 0, neat |-> TRUE, autoFix |-> FALSE]

TddInit ==
    /\ written \in [test : {Absent}, code : {Absent} \cup {Text(i, TRUE) : i \in Code}]
    /\ cycle = [c \in Cycle |-> [at |-> "new", of |-> NoHypothesis, met |-> 0, phase |-> "none"]]
    /\ shared = {}

Works(c) == cycle[c].at \notin {"new", "done"}
Passes == <<written.test.is, written.code.is>> \in Accepts
Continues(c, where) == cycle' = [cycle EXCEPT ![c].at = where]
Told(c, phase) == cycle' = [cycle EXCEPT ![c].at = "done", ![c].phase = phase]

createHypothesis(c, h) ==
    /\ cycle[c].at = "new"
    /\ cycle' = [cycle EXCEPT ![c].at = "test", ![c].of = h]
    /\ LET others == {d \in Cycle \ {c} : Works(d)}
       IN  shared' = shared \cup others \cup IF others = {} THEN {} ELSE {c}
    /\ UNCHANGED written

WriteTest(c) ==
    /\ cycle[c].at = "test" /\ Continues(c, "red")
    /\ written' = [written EXCEPT !.test = Text(cycle[c].of.test, cycle[c].of.neat)]
    /\ UNCHANGED shared

\* RED: a test that passes with what is there says nothing new.
Red(c, runs) ==
    /\ cycle[c].at = "red"
    /\ IF Passes /\ runs THEN Told(c, "red")
       ELSE cycle' = [cycle EXCEPT ![c].at = "code", ![c].met = written.code.is]
    /\ UNCHANGED <<written, shared>>

WriteCode(c) ==
    /\ cycle[c].at = "code" /\ Continues(c, "green")
    /\ written' = [written EXCEPT !.code = Text(cycle[c].of.code, cycle[c].of.neat)]
    /\ UNCHANGED shared

\* GREEN
Green(c, runs) ==
    /\ cycle[c].at = "green"
    /\ IF Passes /\ runs THEN Continues(c, "refactor") ELSE Told(c, "green")
    /\ UNCHANGED <<written, shared>>

\* REFACTOR: with autoFix ESLint rewrites the files it looks at.  One step: what it had
\* read may be of before another cycle's write, but of cycles that meet nothing is said.
Refactor(c, sees) ==
    /\ cycle[c].at = "refactor"
    /\ LET fixed == [f \in {"test", "code"} |-> Text(written[f].is, TRUE)]
       IN  /\ written' = IF sees /\ cycle[c].of.autoFix THEN fixed ELSE written
           /\ Told(c, IF sees /\ \E f \in {"test", "code"} : ~ written'[f].neat
                      THEN "refactor" ELSE "complete")
    /\ UNCHANGED shared

\* A file that cannot be written, a sandbox that does not start.
Throws(c) == cycle[c].at \in {"test", "red", "code", "green"} /\ Told(c, "error")
             /\ UNCHANGED <<written, shared>>

TddNext ==
    \E c \in Cycle :
       \/ \E h \in [test : Test, code : Code, neat : BOOLEAN, autoFix : BOOLEAN] : createHypothesis(c, h)
       \/ WriteTest(c) \/ WriteCode(c) \/ Throws(c)
       \/ \E works \in BOOLEAN : Red(c, works) \/ Green(c, works) \/ Refactor(c, works)

TddSpec == TddInit /\ [][TddNext]_tddVars

(* "passes" is about what is on the disk: when a cycle that had the files for   *)
(* itself is complete, and before another begins, they hold its hypothesis, and *)
(* the test it wrote accepts the code it wrote; one that is told its test is    *)
(* not new has left the implementation alone, which the test accepts            *)
(* (HypothesisEngine.ts l.36-116).                                              *)
CyclesTellTests ==
    \A c \in Cycle \ shared :
        LET of == cycle[c].of IN
        /\ cycle[c].phase = "complete" => <<of.test, of.code>> \in Accepts
        /\ cycle[c].phase \in {"complete", "refactor"} /\ (\A d \in Cycle \ {c} : cycle[d].at = "new") =>
               written.test.is = of.test /\ written.code.is = of.code
        /\ cycle[c].phase = "red" /\ (\A d \in Cycle \ {c} : cycle[d].at = "new") =>
               written.test.is = of.test /\ Passes
===============================================================================
