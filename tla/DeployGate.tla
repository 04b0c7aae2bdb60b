------------------------------ MODULE DeployGate ------------------------------
(***************************************************************************)
(* What stands between a tree that was tested and what is on the air:      *)
(* deploy-integrity (status, pre, post, prova-no-ar, status --prod),       *)
(* deploy-lineage and the check of repo-hygiene for commits that were not  *)
(* deployed, of one product.  One deployer runs them; others edit and      *)
(* commit meanwhile.  The air is a Pages host: an upload may lose files,   *)
(* and a file that is not there is answered with the first page.           *)
(***************************************************************************)
EXTENDS Integers, FiniteSets, Sequences, FiniteSetsExt

CONSTANTS
    File, Page,             \* public files; the page that is the route of proof
    Asset,                  \* what Page refers to
    Gated, Unseen,          \* behind a gate; never fetched (_headers, .assetsignore)
    Content,
    MaxHours,               \* --max-age-hours
    Bounds                  \* [horizon, edits, uploads]

VARIABLES
    work, stamp,            \* the tree, and when its files were last written
    commits,                \* trees, the last one is HEAD
    air, gateUp,
    register,               \* commits DEPLOYMENTS.md cites
    deploy,                 \* [step, from, against, todo, failed]
    look,                   \* status --prod: [step, head, last, against, says, sure]
    now, edits, uploads, bound,
    sure                    \* history: the deploy recorded, if nothing was uploaded since

vars == <<work, stamp, commits, air, gateUp, register, deploy, look, now, edits, uploads, bound, sure>>

None == 0
Idle == [step |-> "idle", from |-> 0, against |-> 0, todo |-> {}, failed |-> FALSE]
NoLook == [step |-> "idle", head |-> 0, last |-> 0, against |-> 0, says |-> "", sure |-> 0]
First == [f \in File |-> CHOOSE c \in Content : TRUE]

Init ==
    /\ work = First /\ commits = <<First>> /\ stamp = [f \in File |-> 0]
    /\ air = [f \in File |-> None] /\ gateUp = TRUE /\ register = {}
    /\ deploy = Idle /\ look = NoLook /\ now = 0 /\ edits = 0 /\ uploads = 0 /\ bound \in Bounds /\ sure = 0

HEAD == Len(commits)
Files(tree) == {f \in File : tree[f] # None}
Diff(a, b) == {f \in File : a[f] # b[f]}
Dirty == work # commits[HEAD]

-------------------------------------------------------------------------------
(***************************************************************************)
(* Others                                                                  *)
(***************************************************************************)
Edit(f, c) ==
    /\ edits < bound.edits /\ edits' = edits + 1 /\ work[f] # c
    /\ work' = [work EXCEPT ![f] = c] /\ stamp' = [stamp EXCEPT ![f] = now]
    /\ UNCHANGED <<commits, air, gateUp, register, deploy, look, now, uploads, sure, bound>>

Commit ==
    /\ Dirty /\ commits' = Append(commits, work)
    /\ UNCHANGED <<work, stamp, air, gateUp, register, deploy, look, now, edits, uploads, sure, bound>>

Tick ==
    /\ now < bound.horizon /\ now' = now + 1
    /\ UNCHANGED <<work, stamp, commits, air, gateUp, register, deploy, look, edits, uploads, sure, bound>>

GateFalls ==
    /\ gateUp /\ gateUp' = FALSE
    /\ UNCHANGED <<work, stamp, commits, air, register, deploy, look, now, edits, uploads, sure, bound>>

-------------------------------------------------------------------------------
(***************************************************************************)
(* status: public changes that wait outside the commit, and for how long   *)
(***************************************************************************)
Waiting == Diff(work, commits[HEAD])

\* Mutant: the age of what was written last.
idadeHoras_Newest(files) ==
    IF files = {} THEN 0 ELSE now - Max({stamp[f] : f \in files})

\* idadeHoras(): the oldest of them; a file that was deleted has no age.
idadeHoras(files) ==
    IF files = {} THEN 0 ELSE now - Min({stamp[f] : f \in files})

Blocks == Dirty /\ Waiting # {} /\ idadeHoras(Waiting \cap Files(work)) > MaxHours

-------------------------------------------------------------------------------
(***************************************************************************)
(* A deployment: pre or deploy-lineage, the upload, post, the record       *)
(***************************************************************************)
Broken(tree) == tree[Page] # None /\ tree[Asset] = None

pre ==
    /\ deploy.step = "idle" /\ uploads < bound.uploads /\ Diff(work, commits[HEAD]) = {} /\ ~ Broken(commits[HEAD])
    /\ deploy' = [Idle EXCEPT !.step = "stage"]
    /\ UNCHANGED <<work, stamp, commits, air, gateUp, register, look, now, edits, uploads, sure, bound>>

lineage ==
    /\ deploy.step = "idle" /\ uploads < bound.uploads /\ ~ Dirty
    /\ deploy' = [Idle EXCEPT !.step = "folder", !.from = HEAD]
    /\ UNCHANGED <<work, stamp, commits, air, gateUp, register, look, now, edits, uploads, sure, bound>>

\* The stage is of HEAD; deploy-lineage sends the folder as it is by then.
Upload(lost) ==
    /\ deploy.step \in {"stage", "folder"} /\ uploads' = uploads + 1
    /\ LET tree == IF deploy.step = "folder" THEN work ELSE commits[HEAD]
       IN  air' = [f \in File |-> IF f \in lost THEN None ELSE tree[f]]
    /\ deploy' = [deploy EXCEPT !.step = "uploaded", !.from = IF @ = 0 THEN HEAD ELSE @]
    /\ sure' = 0 /\ look' = [look EXCEPT !.sure = 0]
    /\ UNCHANGED <<work, stamp, commits, gateUp, register, now, edits, bound>>

BeginPost ==
    /\ deploy.step = "uploaded"
    /\ deploy' = [deploy EXCEPT !.step = "post", !.against = HEAD, !.todo = Files(commits[HEAD]) \ Unseen]
    /\ UNCHANGED <<work, stamp, commits, air, gateUp, register, look, now, edits, uploads, sure, bound>>

\* What the host answers: a file that is not there with the first page, and 200.
Answer(f) ==
    IF f \in Gated /\ gateUp THEN [status |-> 401, of |-> f, body |-> None]
    ELSE IF air[f] # None THEN [status |-> 200, of |-> f, body |-> air[f]]
    ELSE IF air[Page] # None THEN [status |-> 200, of |-> Page, body |-> air[Page]]
    ELSE [status |-> 404, of |-> f, body |-> None]

\* The type of content, by which the first page is told from an asset.
tipoPlausivel(f, answer) == answer.of = f

\* By digest; what the host adds to a page, and to robots.txt, is left out of both sides.
Same(answer, tree, f) == answer.body = tree[f]

\* Mutant: whoever answers 200 is on the air.
Agrees_Status(f, tree) == Answer(f).status = IF f \in Gated THEN 401 ELSE 200

Agrees(f, tree) ==
    LET a == Answer(f) IN
    IF f \in Gated THEN a.status = 401
    ELSE a.status = 200 /\ tipoPlausivel(f, a) /\ Same(a, tree, f)

\* The next file of post(); three attempts may all have no answer.
Fetch(answered) ==
    /\ deploy.step = "post" /\ deploy.todo # {}
    /\ LET f == CHOOSE f \in deploy.todo : TRUE
       IN  deploy' = [deploy EXCEPT !.todo = @ \ {f},
                                    !.failed = @ \/ ~ answered \/ ~ Agrees(f, commits[deploy.against])]
    /\ UNCHANGED <<work, stamp, commits, air, gateUp, register, look, now, edits, uploads, sure, bound>>

GiveUp ==
    /\ deploy.step = "post" /\ deploy.todo = {} /\ deploy.failed /\ deploy' = Idle
    /\ UNCHANGED <<work, stamp, commits, air, gateUp, register, look, now, edits, uploads, sure, bound>>

\* Whoever deployed cites what he sent, or what post named.
Record(c) ==
    /\ deploy.step = "post" /\ deploy.todo = {} /\ ~ deploy.failed
    /\ c \in {deploy.from, deploy.against}
    /\ register' = register \cup {c} /\ deploy' = Idle /\ sure' = c
    /\ UNCHANGED <<work, stamp, commits, air, gateUp, look, now, edits, uploads, bound>>

-------------------------------------------------------------------------------
(***************************************************************************)
(* status --prod, and repo-hygiene without an origin                       *)
(***************************************************************************)
ultimoCommitDeploy == IF register = {} THEN None ELSE Max(register)

\* commitsSemDeploy(): none, if no deploy is on record.
Behind(last, head) == IF last = None THEN 0 ELSE head - last

evaluateUnshippedRegistro == Behind(ultimoCommitDeploy, HEAD) > 0

BeginLook ==
    /\ look.step = "idle"
    /\ look' = [NoLook EXCEPT !.step = "counted", !.head = HEAD, !.last = ultimoCommitDeploy, !.sure = sure]
    /\ UNCHANGED <<work, stamp, commits, air, gateUp, register, deploy, now, edits, uploads, sure, bound>>

\* provaNoAr() stages the HEAD there is by now, and asks for the route of proof.
StageLook ==
    /\ look.step = "counted" /\ look' = [look EXCEPT !.step = "proving", !.against = HEAD]
    /\ UNCHANGED <<work, stamp, commits, air, gateUp, register, deploy, now, edits, uploads, sure, bound>>

\* Whether there is anything to be proved of a route without a session.
Provable(f, tree) == tree[f] # None /\ f \notin Gated

\* classificarProva(): another status or type than was expected is no proof, except 404.
State(answered) ==
    LET tree == commits[look.against]
        a == Answer(Page)
    IN  CASE ~ Provable(Page, tree) \/ ~ answered -> "no proof"
          [] a.status = 404 -> "differs"
          [] a.status # 200 \/ ~ tipoPlausivel(Page, a) -> "no proof"
          [] ~ Same(a, tree, Page) -> "differs"
          [] OTHER -> "ok"

Says(state, n) ==
    CASE state = "ok" /\ n = 0 -> "proved"
      [] state = "ok" -> "record behind"
      [] state = "differs" -> "blocks"
      [] OTHER -> IF n > 0 THEN "blocks" ELSE "no proof"

EndLook(answered) ==
    /\ look.step = "proving"
    /\ look' = [look EXCEPT !.step = "told", !.says = Says(State(answered), Behind(look.last, look.head))]
    /\ UNCHANGED <<work, stamp, commits, air, gateUp, register, deploy, now, edits, uploads, sure, bound>>

\* What was told is read, and is then of the past.
Forget ==
    /\ look.step = "told" /\ look' = NoLook
    /\ UNCHANGED <<work, stamp, commits, air, gateUp, register, deploy, now, edits, uploads, sure, bound>>

Next ==
    \/ \E f \in File \ Unseen, c \in Content \cup {None} : Edit(f, c)
    \/ Commit \/ Tick \/ GateFalls \/ pre \/ lineage
    \/ \E lost \in SUBSET File : Cardinality(lost) <= 1 /\ Upload(lost)
    \/ BeginPost \/ (\E answered \in BOOLEAN : Fetch(answered))
    \/ GiveUp \/ (\E c \in 1..HEAD : Record(c))
    \/ BeginLook \/ StageLook \/ (\E answered \in BOOLEAN : EndLook(answered)) \/ Forget

Spec == Init /\ [][Next]_vars

-------------------------------------------------------------------------------
OnTheAir(tree) == \A f \in Files(tree) \ (Gated \cup Unseen) : air[f] = tree[f]

(***************************************************************************)
(* "Production == HEAD" of status --prod is said of one page and of the    *)
(* record, and repo-hygiene goes by the record alone.  Both are true of    *)
(* every file that post compares, if a deploy is on record and nothing was *)
(* uploaded since its post: whatever others commit between the tests, the  *)
(* upload, post and the record.                                            *)
(***************************************************************************)
ProvedIsTrue ==
    /\ look.says = "proved" /\ look.sure # 0 => OnTheAir(commits[look.head])
    /\ ~ evaluateUnshippedRegistro /\ sure # 0 => OnTheAir(commits[HEAD])

(***************************************************************************)
(* A file that is ready in the tree and has waited outside the commit for  *)
(* longer than the limit makes status fail, whatever is written besides it *)
(* (the incident the package was made for).                                *)
(***************************************************************************)
WaitingIsTold ==
    \A f \in Files(work) : work[f] # commits[HEAD][f] /\ now - stamp[f] > MaxHours => Blocks
===============================================================================
