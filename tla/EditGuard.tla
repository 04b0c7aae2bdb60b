------------------------------- MODULE EditGuard -------------------------------
(***************************************************************************)
(* EditConcurrencyGuard of packages/code: agents that read a file, plan an *)
(* edit and write it back, through one guard, while the user and his tools *)
(* write to the same file.  A hash is as good as the content it is of.  An *)
(* agent uses the guard as its header tells it to: the file is read, and   *)
(* recorded, and checked, and written, and recorded again, and others come *)
(* in between where the header awaits the file system.                     *)
(***************************************************************************)
EXTENDS Naturals

CONSTANTS
    Agent,
    File,
    Content,
    NoContent       \* a file that is not there; an agent that has read nothing

VARIABLES
    disk,
    snapshots,      \* the guard's Map, by path: shaAtRead and agentId
    knows,          \* by agent and file: the content its edit is planned on
    at,             \* by agent: what it is doing, and to which file
    checked,        \* history: the last edit that was let through
    recorded        \* history: agents whose record of a file another one has replaced

vars == <<disk, snapshots, knows, at, checked, recorded>>

Resting == [does |-> "rest"]
Fresh == [agent |-> "nobody"]

Init ==
    /\ disk \in [File -> Content]
    /\ snapshots = [f \in {} |-> 0]
    /\ knows = [a \in Agent |-> [f \in File |-> NoContent]]
    /\ at = [a \in Agent |-> Resting]
    /\ checked = Fresh
    /\ recorded = {}

With(f, sha, a) == [g \in DOMAIN snapshots \cup {f} |->
                        IF g = f THEN [sha |-> sha, agent |-> a] ELSE snapshots[g]]

\* Whoever had the record of f has it no more once a sets it.
Takes(a, f) == (recorded \cup {<<b, f>> : b \in Agent}) \ {<<a, f>>}

\* The content comes back from the file system, and is recorded when its reader goes on.
Read(a, f) ==
    /\ at[a] = Resting /\ disk[f] # NoContent
    /\ at' = [at EXCEPT ![a] = [does |-> "record", file |-> f, content |-> disk[f]]]
    /\ UNCHANGED <<disk, snapshots, knows, checked, recorded>>

recordRead(a) ==
    /\ at[a].does = "record"
    /\ snapshots' = With(at[a].file, at[a].content, a)
    /\ knows' = [knows EXCEPT ![a][at[a].file] = at[a].content]
    /\ recorded' = Takes(a, at[a].file)
    /\ at' = [at EXCEPT ![a] = Resting]
    /\ UNCHANGED <<disk, checked>>

Ok(f) == f \in DOMAIN snapshots /\ disk[f] # NoContent /\ disk[f] = snapshots[f].sha

\* An edit that is let through changes what its agent knows into something else.
checkBeforeEdit(a, f, new) ==
    /\ at[a] = Resting /\ knows[a][f] \notin {NoContent, new}
    /\ Ok(f)
    /\ checked' = [agent |-> a, file |-> f, knew |-> knows[a][f], found |-> disk[f],
                   own |-> <<a, f>> \notin recorded]
    /\ at' = [at EXCEPT ![a] = [does |-> "write", file |-> f, content |-> new]]
    /\ UNCHANGED <<disk, snapshots, knows, recorded>>

\* ConcurrentEditError: the agent gives up what it planned, and has to read again.
Refused(a, f) ==
    /\ at[a] = Resting /\ knows[a][f] # NoContent
    /\ ~ Ok(f)
    /\ knows' = [knows EXCEPT ![a][f] = NoContent]
    /\ UNCHANGED <<disk, snapshots, at, checked, recorded>>

Write(a) ==
    /\ at[a].does = "write"
    /\ disk' = [disk EXCEPT ![at[a].file] = at[a].content]
    /\ at' = [at EXCEPT ![a].does = "update"]
    /\ UNCHANGED <<snapshots, knows, checked, recorded>>

\* The baseline of the next edit is taken from the disk, not from what was written.
updateAfterEdit_FromDisk(a) ==
    /\ at[a].does = "update"
    /\ snapshots' = With(at[a].file, disk[at[a].file], a)
    /\ knows' = [knows EXCEPT ![a][at[a].file] = at[a].content]
    /\ recorded' = Takes(a, at[a].file)
    /\ at' = [at EXCEPT ![a] = Resting]
    /\ UNCHANGED <<disk, checked>>

\* The agent of the record stays the one that is given, or was there.
updateAfterEdit(a) ==
    /\ at[a].does = "update"
    /\ snapshots' = With(at[a].file, at[a].content, a)
    /\ knows' = [knows EXCEPT ![a][at[a].file] = at[a].content]
    /\ recorded' = Takes(a, at[a].file)
    /\ at' = [at EXCEPT ![a] = Resting]
    /\ UNCHANGED <<disk, checked>>

\* forget() of a file, by whoever; reset() is that of all files.
forget(fs) ==
    /\ fs \cap DOMAIN snapshots # {}
    /\ snapshots' = [g \in DOMAIN snapshots \ fs |-> snapshots[g]]
    /\ UNCHANGED <<disk, knows, at, checked, recorded>>

\* The user, a linter or a plugin writes to the file, or takes it away.
Meddle(f, c) ==
    /\ disk[f] # c
    /\ disk' = [disk EXCEPT ![f] = c]
    /\ UNCHANGED <<snapshots, knows, at, checked, recorded>>

Next ==
    \/ \E a \in Agent : recordRead(a) \/ Write(a) \/ updateAfterEdit(a)
    \/ \E a \in Agent, f \in File : Read(a, f) \/ Refused(a, f)
    \/ \E a \in Agent, f \in File, new \in Content : checkBeforeEdit(a, f, new)
    \/ \E f \in File, c \in Content \cup {NoContent} : Meddle(f, c)
    \/ \E f \in File : forget({f})
    \/ forget(File)

Spec == Init /\ [][Next]_vars

--------------------------------------------------------------------------------

(* An edit that was let through was planned on what the file held when it was   *)
(* checked, unless another agent has put its own record in the place of that of *)
(* the editor (recordRead, checkBeforeEdit and updateAfterEdit, l.82-156).      *)
PlannedOnTheFile == checked # Fresh /\ checked.own => checked.knew = checked.found
================================================================================
