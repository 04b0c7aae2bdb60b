------------------------------ MODULE HookFiles -------------------------------
(***************************************************************************)
(* The hooks Atrium puts into Claude Code: `batiste-fm install hooks` and  *)
(* its --uninstall (packages/atrium/src/commands/install-hooks.ts), the    *)
(* settings file they share with an operator who edits it by hand          *)
(* (utils/hook-config.ts), and the scripts of packages/atrium/bin that     *)
(* Claude Code then runs.  Settings are read, emptied and filled again,    *)
(* and a command may be killed at any step.  A settings file is what       *)
(* its `hooks` holds by event; other keys go through unread.               *)
(***************************************************************************)
EXTENDS Naturals, FiniteSets, SequencesExt

CONSTANTS
    Dir,                \* --hooks-dir
    OwnHooks,            \* commands of the operator's own hooks
    Lookalike,          \* those of them that have ATRIUM_MARKER in them
    Edits, Commands     \* bounds: what the operator edits, and commands run

VARIABLES
    form,               \* by file: "absent", "blank", "malformed" or "json"
    settings,           \* by file: its hooks by event
    scripts,            \* hook scripts that are there
    config,             \* atrium-hooks.json
    toolMap,            \* tool-map.json: the rules, {} when there is no file
    command,            \* the command that runs, its options and how far it is
    own,                \* by file and event: what the operator wants there
    spoilt,             \* history: files changed between a read and a write, or cut short by a kill
    orphaned,           \* history: hooks by file whose scripts were removed with those of another
    reply,              \* what a hook says that has just run
    left

history == <<spoilt, orphaned>>
vars == <<form, settings, scripts, config, toolMap, command, own, history, reply, left>>

SettingsFile == {"settings", "local"}
Event == {"SessionStart", "UserPromptSubmit", "PreToolUse"}

\* A hook of ours is its event and the directory its script is in.
Hook(e, d) == <<e, d>>
Ours == Event \X Dir

\* What removeHooks() takes for ours: any command with the marker.
Taken == Ours \cup Lookalike

NoHooks == [e \in Event |-> <<>>]
Idle    == [is |-> "idle"]
NoConfig == [there |-> FALSE, augment |-> FALSE, mapping |-> FALSE]

Init ==
    /\ form \in [SettingsFile -> {"absent", "malformed", "json"}] /\ form["local"] = "absent"
    /\ settings = [f \in SettingsFile |-> NoHooks]
    /\ scripts = {} /\ config = NoConfig /\ toolMap = {}
    /\ command = Idle /\ own = [f \in SettingsFile |-> NoHooks] /\ spoilt = {} /\ orphaned = {} /\ reply = "none"
    /\ left = [edits |-> Edits, commands |-> Commands]

-------------------------------------------------------------------------------
(***************************************************************************)
(* mergeHooks() and removeHooks()                                          *)
(***************************************************************************)
Names(entry) == ToSet(entry.hooks)

\* A plan joins the first entry with its matcher, unless it is there.
Merged(list, plan) ==
    LET same == {i \in DOMAIN list : list[i].matcher = "*"}
        at   == CHOOSE i \in same : \A j \in same : i <= j
    IN  IF same = {}
        THEN Append(list, [matcher |-> "*", hooks |-> <<plan>>])
        ELSE [list EXCEPT ![at].hooks = IF plan \in Names(list[at]) THEN @ ELSE Append(@, plan)]

mergeHooks(hooks, plans) ==
    [e \in Event |-> IF \E d \in Dir : Hook(e, d) \in plans
                     THEN Merged(hooks[e], CHOOSE p \in plans : p[1] = e)
                     ELSE hooks[e]]

\* What is taken for ours goes out of every entry, and what is left empty goes.
removeHooks(hooks) ==
    LET Kept(x) == [x EXCEPT !.hooks = SelectSeq(@, LAMBDA h : h \notin Taken)]
    IN  [e \in Event |-> SelectSeq([i \in DOMAIN hooks[e] |-> Kept(hooks[e][i])],
                                   LAMBDA x : x.hooks # <<>>)]

detectSettingsPath == IF form["local"] # "absent" THEN "local" ELSE "settings"

-------------------------------------------------------------------------------
(***************************************************************************)
(* install hooks [--uninstall]                                             *)
(***************************************************************************)
Wanted(opts) == {"SessionStart"} \cup {e \in {"UserPromptSubmit", "PreToolUse"} : e \in opts}

\* --settings-path names a file, or the command looks for one.
Start(is, opts, d, given) ==
    /\ command = Idle /\ left.commands > 0 /\ left' = [left EXCEPT !.commands = @ - 1]
    /\ command' = [is |-> is, opts |-> opts, dir |-> d, path |-> IF given \in SettingsFile THEN given ELSE detectSettingsPath,
                   step |-> IF is = "install" THEN "copy" ELSE "read", before |-> NoHooks]
    /\ UNCHANGED <<form, settings, scripts, config, toolMap, own, history>>

\* Scripts are copied and removed in this order.
First(events) ==
    LET order == <<"SessionStart", "UserPromptSubmit", "PreToolUse">>
    IN  SelectSeq(order, LAMBDA e : e \in events)[1]

At(is, step) == command.is = is /\ command.step = step
Goto(step)   == command' = [command EXCEPT !.step = step]

\* Mutant: the scripts of the hooks a flag asks for only.
Uncopied_Flagged == {e \in command.opts : Hook(e, command.dir) \notin scripts}

Uncopied == {e \in Wanted(command.opts) : Hook(e, command.dir) \notin scripts}

CopyScript ==
    /\ At("install", "copy")
    /\ IF Uncopied = {}
       THEN Goto("read") /\ UNCHANGED scripts
       ELSE scripts' = scripts \cup {Hook(First(Uncopied), command.dir)} /\ UNCHANGED command
    /\ orphaned' = {o \in orphaned : o[2] \notin scripts'}
    /\ UNCHANGED <<form, settings, config, toolMap, own, spoilt, left>>

\* Settings that cannot be parsed end the command; none at all, and blank ones, are {}.
Read ==
    /\ command # Idle /\ command.step = "read"
    /\ command' = IF form[command.path] = "malformed"
                  THEN Idle
                  ELSE [command EXCEPT !.step = "write", !.before = settings[command.path]]
    /\ UNCHANGED <<form, settings, scripts, config, toolMap, own, history, left>>

\* writeFile() empties the file it opens, and then fills it.
Open ==
    /\ command # Idle /\ command.step = "write"
    /\ form' = [form EXCEPT ![command.path] = "blank"]
    /\ settings' = [settings EXCEPT ![command.path] = NoHooks]
    /\ Goto("fill")
    /\ UNCHANGED <<scripts, config, toolMap, own, history, left>>

Write ==
    /\ command # Idle /\ command.step = "fill"
    /\ settings' = [settings EXCEPT ![command.path] =
            IF command.is = "install"
            THEN mergeHooks(command.before, {Hook(e, command.dir) : e \in Wanted(command.opts)})
            ELSE removeHooks(command.before)]
    /\ form' = [form EXCEPT ![command.path] = "json"]
    /\ Goto(IF command.is = "install" THEN "config" ELSE "remove")
    /\ UNCHANGED <<scripts, config, toolMap, own, history, left>>

WriteConfig ==
    /\ At("install", "config")
    /\ config' = [there |-> TRUE, augment |-> "UserPromptSubmit" \in command.opts, mapping |-> "PreToolUse" \in command.opts]
    /\ Goto(IF "PreToolUse" \in command.opts THEN "map" ELSE "smoke")
    /\ UNCHANGED <<form, settings, scripts, toolMap, own, history, left>>

\* TOOL_MAP: the native tool, and what its command has to look like ("" for anything).
TOOL_MAP == {<<"Bash", "search">>, <<"Bash", "typecheck">>, <<"Bash", "imports">>, <<"Bash", "eslint --fix">>,
             <<"TaskCreate", "">>, <<"TaskUpdate", "">>}

WriteToolMap ==
    /\ At("install", "map") /\ toolMap' = TOOL_MAP /\ Goto("smoke")
    /\ UNCHANGED <<form, settings, scripts, config, own, history, left>>

\* smokeTestSessionHook(): the script is run with an event, and any exit with 0 is well.
SmokeTest ==
    /\ At("install", "smoke") /\ command' = Idle
    /\ reply' = IF Hook("SessionStart", command.dir) \in scripts THEN "ok" ELSE "spawn error"
    /\ UNCHANGED <<form, settings, scripts, config, toolMap, own, history, left>>

RemoveScript ==
    /\ At("uninstall", "remove")
    /\ LET there == {e \in Event : Hook(e, command.dir) \in scripts}
       IN  IF there = {}
           THEN command' = Idle /\ UNCHANGED scripts
           ELSE scripts' = scripts \ {Hook(First(there), command.dir)} /\ UNCHANGED command
    /\ orphaned' = orphaned \cup ((SettingsFile \ {command.path}) \X (scripts \ scripts'))
    /\ UNCHANGED <<form, settings, config, toolMap, own, spoilt, left>>

\* What is being filled stays empty or half full.
Kill ==
    /\ command # Idle /\ command' = Idle
    /\ IF command.step = "fill"
       THEN /\ \E cut \in {"blank", "malformed"} : form' = [form EXCEPT ![command.path] = cut]
            /\ spoilt' = spoilt \cup {command.path}
       ELSE UNCHANGED <<form, spoilt>>
    /\ UNCHANGED <<settings, scripts, config, toolMap, own, orphaned, left>>

-------------------------------------------------------------------------------
(***************************************************************************)
(* The operator, and Claude Code                                           *)
(***************************************************************************)
\* A hook of the operator's: in an entry of its own, or in one that is there.
AddHook(f, e, h) ==
    /\ form[f] = "json" /\ left.edits > 0
    /\ h \notin UNION {Names(settings[f][e][i]) : i \in DOMAIN settings[f][e]}
    /\ \/ \E m \in {"*", "Bash"} :
              settings' = [settings EXCEPT ![f][e] = Append(@, [matcher |-> m, hooks |-> <<h>>])]
       \/ \E i \in DOMAIN settings[f][e] : settings' = [settings EXCEPT ![f][e][i].hooks = Append(@, h)]
    /\ own' = [own EXCEPT ![f][e] = Append(@, h)]
    /\ spoilt' = IF command # Idle /\ command.path = f /\ command.step = "write" THEN spoilt \cup {f} ELSE spoilt
    /\ left' = [left EXCEPT !.edits = @ - 1]
    /\ UNCHANGED <<form, scripts, config, toolMap, command, orphaned>>

\* A file for this machine alone, which commands to come will use.
AddLocalFile ==
    /\ form["local"] = "absent" /\ left.edits > 0
    /\ form' = [form EXCEPT !["local"] = "json"] /\ left' = [left EXCEPT !.edits = @ - 1]
    /\ UNCHANGED <<settings, scripts, config, toolMap, command, own, history>>

\* The hooks Claude Code runs for an event, whose scripts are there.
Invoked(e) == \E f \in SettingsFile, d \in Dir :
    /\ form[f] = "json" /\ Hook(e, d) \in scripts
    /\ \E i \in DOMAIN settings[f][e] : Hook(e, d) \in Names(settings[f][e][i])

Say(answers) == reply = "none" /\ reply' \in answers /\ UNCHANGED <<form, settings, scripts, config, toolMap, command, own, history, left>>

\* atrium-session-start.sh: the directory is on the list, and batiste-fm is installed.
StartSession ==
    /\ Invoked("SessionStart")
    /\ Say({IF ~config.there \/ ~listed THEN "none" ELSE IF installed THEN "ingesting" ELSE "not installed" :
              listed, installed \in BOOLEAN})

\* extract_bool_field: `false // empty` of jq is nothing; without jq a grep finds the word.
SwitchedOff(jq) == config.there /\ ~config.augment /\ ~jq

\* atrium-user-prompt.sh: the prompt goes on as it is unless everything is there to add to it.
SubmitPrompt ==
    /\ Invoked("UserPromptSubmit")
    /\ Say({IF ~SwitchedOff(jq) /\ long /\ installed /\ jq /\ hits THEN "augmented" ELSE "prompt" :
              jq, long, installed, hits \in BOOLEAN})

\* atrium-tool-mapping.sh, as lookup(): rules for the tool whose pattern the command has.
lookup(tool, looks) == {r \in toolMap : r[1] = tool /\ r[2] \in looks \cup {""}}
UseTool ==
    /\ Invoked("PreToolUse")
    /\ Say({IF jq /\ lookup(tool, looks) # {} THEN "nudged" ELSE "none" :
              jq \in BOOLEAN, tool \in {"Bash", "TaskCreate"}, looks \in {{}, {"search", "imports"}}})

HookRuns == StartSession \/ SubmitPrompt \/ UseTool

FilesChange ==
    \/ \E d \in Dir, given \in SettingsFile \cup {"none"} :
           \/ \E opts \in SUBSET {"UserPromptSubmit", "PreToolUse"} : Start("install", opts, d, given)
           \/ Start("uninstall", {}, d, given)
    \/ CopyScript \/ Read \/ Open \/ Write \/ WriteConfig \/ WriteToolMap \/ RemoveScript \/ Kill
    \/ \E f \in SettingsFile, e \in Event, h \in OwnHooks \cup Lookalike : AddHook(f, e, h)
    \/ AddLocalFile

Next == HookRuns \/ SmokeTest \/ (FilesChange /\ reply' = "none")

Spec == Init /\ [][Next]_vars

-------------------------------------------------------------------------------
Commanded(hooks, e) == FlattenSeq([i \in DOMAIN hooks[e] |-> hooks[e][i].hooks])

(***************************************************************************)
(* Whatever was installed and removed in between, over either file and     *)
(* also by commands that were killed, the operator's hooks are all there,  *)
(* and those of Atrium are there once.  Not so what is typed while a       *)
(* command is between reading and writing the file, what the file held     *)
(* when it is being written or was cut short by a kill just then, and what *)
(* has the marker in its command.                                          *)
(***************************************************************************)
BeingWritten(f) == command # Idle /\ command.path = f /\ command.step = "fill"

ForeignHooksSurvive ==
    \A f \in SettingsFile \ spoilt, e \in Event :
        LET all == Commanded(settings[f], e)
        IN  /\ BeingWritten(f) \/ ToSet(all) \ Taken = ToSet(own[f][e]) \ Lookalike
            /\ Cardinality(ToSet(all)) = Len(all)

(***************************************************************************)
(* No hook of Atrium names a script that is not there: scripts come before *)
(* their entries and go after them, also when a command is killed in       *)
(* between.  Only an uninstall over one file takes away the scripts that   *)
(* the other one names.                                                    *)
(***************************************************************************)
NoDanglingHook ==
    \A f \in SettingsFile, e \in Event : \A h \in ToSet(Commanded(settings[f], e)) \cap Ours :
        h \in scripts \/ <<f, h>> \in orphaned
===============================================================================
