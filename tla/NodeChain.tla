------------------------------- MODULE NodeChain -------------------------------
(***************************************************************************)
(* The call path of a node built by packages/aidk (create-node.ts): audit  *)
(* with its kill switch, then authentication, then scope, then the tool.   *)
(*                                                                         *)
(* A tool call runs without interruption up to its next await.  There are  *)
(* three: the verification of the token, the tool itself, and the measured *)
(* usage the audit layer asks for before it writes the row of the call.    *)
(* In between, operators use the kill switch, tokens lapse, and the node   *)
(* closes or crashes.  The ledger is a file: a crash keeps its rows.       *)
(*                                                                         *)
(* What a tool answers, and the verdicts of the two scope checks on the    *)
(* arguments of a call, are arbitrary.                                     *)
(***************************************************************************)
EXTENDS Naturals

CONSTANTS
    Node,
    Session,
    NodeOf,         \* the node a session was opened on
    Call,
    SessionOf,      \* the session a call is made in
    Authenticating, \* the nodes that authenticate (presets.ts)
    KeyStored,      \* whether the auth layer is given a key store
    Faults          \* among "append" (the row is not written) and "crash"

ASSUME NodeAssumption ==
    /\ NodeOf \in [Session -> Node] /\ SessionOf \in [Call -> Session]
    /\ Authenticating \subseteq Node /\ KeyStored \in BOOLEAN
    /\ Faults \subseteq {"append", "crash"}

VARIABLES
    phase,      \* of a node
    paused,     \* KillSwitch.paused of a node
    killed,     \* KillSwitch.killedSessions of a node
    token,      \* the token a session was opened with
    at,         \* where a call is
    outcome,    \* of the layers below audit: what the row will say
    ledger,     \* the result column of the row of a call
    answer,     \* what its caller got
    ran,        \* history: the calls whose tool was started
    unsent,     \* history: calls that were still to come when their session was killed
    unstarted,  \* history: calls whose tool was not started when their session was killed
    revoked     \* history: calls whose tool was not started when their token was revoked

switchVars == <<paused, killed>>
callVars == <<at, outcome, ledger, answer, ran>>
historyVars == <<unsent, unstarted, revoked>>
vars == <<phase, switchVars, token, callVars, historyVars>>

Home(c) == NodeOf[SessionOf[c]]

TypeOK ==
    /\ phase \in [Node -> {"open", "closing", "closed", "down"}]
    /\ paused \in [Node -> BOOLEAN] /\ killed \in [Node -> SUBSET Session]
    /\ token \in [Session -> {"good", "expired", "revoked"}]
    /\ at \in [Call -> {"new", "verifying", "running", "recording", "done"}]
    /\ outcome \in [Call -> {"success", "error"}]
    /\ ledger \in [Call -> {"none", "success", "error", "denied"}]
    /\ answer \in [Call -> {"none", "success", "error", "lost"}]
    /\ ran \subseteq Call /\ unsent \subseteq unstarted /\ unstarted \subseteq Call
    /\ revoked \subseteq Call

Init ==
    /\ phase = [n \in Node |-> "open"]
    /\ paused = [n \in Node |-> FALSE] /\ killed = [n \in Node |-> {}]
    /\ token \in [Session -> {"good", "expired"}]
    /\ \A s \in Session : NodeOf[s] \notin Authenticating => token[s] = "good"
    /\ at = [c \in Call |-> "new"] /\ outcome = [c \in Call |-> "success"]
    /\ ledger = [c \in Call |-> "none"] /\ answer = [c \in Call |-> "none"]
    /\ ran = {} /\ unsent = {} /\ unstarted = {} /\ revoked = {}

--------------------------------------------------------------------------------
\* The layers, from the outside in.

\* isAllowed() of the id the audit layer made for the session.
Allowed(s) == ~paused[NodeOf[s]] /\ s \notin killed[NodeOf[s]]

LedgerOpen(n) == phase[n] \in {"open", "closing"}

\* append(): it throws once the ledger is closed, or when the write fails.
Appended(c, row) ==
    /\ LedgerOpen(Home(c)) /\ ledger' = [ledger EXCEPT ![c] = row]

AppendThrows(c) ==
    /\ ~LedgerOpen(Home(c)) \/ "append" \in Faults
    /\ UNCHANGED ledger

\* A caller whose connection is gone gets nothing.
Answers(c, result) ==
    /\ at' = [at EXCEPT ![c] = "done"]
    /\ \/ /\ phase[Home(c)] \in {"open", "closing"} /\ answer' = [answer EXCEPT ![c] = result]
       \/ /\ phase[Home(c)] # "open" /\ answer' = [answer EXCEPT ![c] = "lost"]

\* The scope layer lets the tool start, or throws over an argument.
Scoped(c) ==
    \/ /\ at' = [at EXCEPT ![c] = "running"] /\ ran' = ran \cup {c} /\ UNCHANGED outcome
    \/ /\ at' = [at EXCEPT ![c] = "recording"] /\ outcome' = [outcome EXCEPT ![c] = "error"]
       /\ UNCHANGED ran

\* A call arrives at the audit layer of its session.
Receive(c) ==
    /\ at[c] = "new" /\ phase[Home(c)] \in {"open", "closing"}
    /\ \/ /\ ~Allowed(SessionOf[c])
          /\ Appended(c, "denied") \/ AppendThrows(c)
          /\ Answers(c, "error")
          /\ UNCHANGED <<outcome, ran>>
       \/ /\ Allowed(SessionOf[c]) /\ UNCHANGED <<ledger, answer>>
          /\ IF Home(c) \in Authenticating
             THEN at' = [at EXCEPT ![c] = "verifying"] /\ UNCHANGED <<outcome, ran>>
             ELSE Scoped(c)
    /\ UNCHANGED <<phase, switchVars, token, historyVars>>

\* The token of the session still stands when verify() has come back.
TokenStands(s) == token[s] = "good" \/ (token[s] = "revoked" /\ ~KeyStored)

Verified(c) ==
    /\ at[c] = "verifying" /\ TokenStands(SessionOf[c])
    /\ Scoped(c)
    /\ UNCHANGED <<phase, switchVars, token, ledger, answer, historyVars>>

\* No token, one that does not stand, or one whose scope excludes the call.
Refused(c) ==
    /\ at[c] = "verifying"
    /\ at' = [at EXCEPT ![c] = "recording"] /\ outcome' = [outcome EXCEPT ![c] = "error"]
    /\ UNCHANGED <<phase, switchVars, token, ledger, answer, ran, historyVars>>

Finish(c) ==
    /\ at[c] = "running"
    /\ at' = [at EXCEPT ![c] = "recording"]
    /\ \E result \in {"success", "error"} : outcome' = [outcome EXCEPT ![c] = result]
    /\ UNCHANGED <<phase, switchVars, token, ledger, answer, ran, historyVars>>

\* Mutant: a failed append is swallowed, as a failure to resolve the usage is.
Record_Swallows(c) ==
    /\ at[c] = "recording"
    /\ Appended(c, outcome[c]) \/ AppendThrows(c)
    /\ Answers(c, outcome[c])
    /\ UNCHANGED <<phase, switchVars, token, outcome, ran, historyVars>>

\* The finally block of the audit layer.  What append() throws replaces what the
\* tool returned; and a result that cannot be written as JSON becomes an error.
Record(c) ==
    /\ at[c] = "recording"
    /\ \/ /\ Appended(c, outcome[c])
          /\ Answers(c, outcome[c]) \/ Answers(c, "error")
       \/ AppendThrows(c) /\ Answers(c, "error")
    /\ UNCHANGED <<phase, switchVars, token, outcome, ran, historyVars>>

--------------------------------------------------------------------------------
\* The kill switch of a node: execute().

Alive(n) == phase[n] \in {"open", "closing"}

CallsAt(s, places) == {c \in Call : SessionOf[c] = s /\ at[c] \in places}

KillSession(s) ==
    /\ Alive(NodeOf[s]) /\ killed' = [killed EXCEPT ![NodeOf[s]] = @ \cup {s}]
    /\ unsent' = unsent \cup CallsAt(s, {"new"})
    /\ unstarted' = unstarted \cup CallsAt(s, {"new", "verifying"})
    /\ UNCHANGED <<phase, paused, token, callVars, revoked>>

\* pause, and kill_all, which does the same.
Pause(n) ==
    /\ Alive(n) /\ paused' = [paused EXCEPT ![n] = TRUE]
    /\ UNCHANGED <<phase, killed, token, callVars, historyVars>>

\* Mutant: resume forgets the killed sessions too, as reset() does.
Resume_Forgets(n) ==
    /\ Alive(n) /\ paused' = [paused EXCEPT ![n] = FALSE]
    /\ killed' = [killed EXCEPT ![n] = {}]
    /\ UNCHANGED <<phase, token, callVars, historyVars>>

Resume(n) ==
    /\ Alive(n) /\ paused' = [paused EXCEPT ![n] = FALSE]
    /\ UNCHANGED <<phase, killed, token, callVars, historyVars>>

--------------------------------------------------------------------------------
\* Tokens lapse; nodes close and crash.

\* A node that does not authenticate asks for no token.
HasToken(s) == NodeOf[s] \in Authenticating

Expire(s) ==
    /\ HasToken(s) /\ token[s] = "good" /\ token' = [token EXCEPT ![s] = "expired"]
    /\ UNCHANGED <<phase, switchVars, callVars, historyVars>>

\* KeyStore.revoke(), from any process that has the file.
Revoke(s) ==
    /\ HasToken(s) /\ token[s] = "good" /\ token' = [token EXCEPT ![s] = "revoked"]
    /\ revoked' = revoked \cup CallsAt(s, {"new", "verifying"})
    /\ UNCHANGED <<phase, switchVars, callVars, unsent, unstarted>>

\* close(): the transport, then the ledger.  Tools that run are not waited for.
Close(n) ==
    /\ phase[n] = "open" /\ phase' = [phase EXCEPT ![n] = "closing"]
    /\ UNCHANGED <<switchVars, token, callVars, historyVars>>

CloseLedger(n) ==
    /\ phase[n] = "closing" /\ phase' = [phase EXCEPT ![n] = "closed"]
    /\ UNCHANGED <<switchVars, token, callVars, historyVars>>

Crash(n) ==
    /\ "crash" \in Faults /\ phase[n] # "down"
    /\ phase' = [phase EXCEPT ![n] = "down"]
    /\ LET cut == {c \in Call : Home(c) = n /\ at[c] \in {"verifying", "running", "recording"}}
       IN  /\ at' = [c \in Call |-> IF c \in cut THEN "done" ELSE at[c]]
           /\ answer' = [c \in Call |-> IF c \in cut THEN "lost" ELSE answer[c]]
    /\ UNCHANGED <<switchVars, token, outcome, ledger, ran, historyVars>>

Next ==
    \/ \E c \in Call : Receive(c) \/ Verified(c) \/ Refused(c) \/ Finish(c) \/ Record(c)
    \/ \E n \in Node : Pause(n) \/ Resume(n) \/ Close(n) \/ CloseLedger(n) \/ Crash(n)
    \/ \E s \in Session : KillSession(s) \/ Expire(s) \/ Revoke(s)

Spec == Init /\ [][Next]_vars

--------------------------------------------------------------------------------
\* What was withdrawn does not run.  A call made in a session after kill_session
\* never reaches its tool, through any number of pauses, resumes, closes and crashes;
\* and with a key store none starts under a revoked token, since revocation is asked
\* for after the token was verified, not before.
WithdrawnNeverRuns == unsent \cap ran = {} /\ (KeyStored => revoked \cap ran = {})

\* Callers, ledger and tools agree: a caller is told of success only when the row
\* that says so is in the ledger (the finally block of middleware.ts writes it first,
\* and lets its failure win), and the row of a denied call stands for a tool that
\* never ran, that of a success for one that did.
RowsTellWhatRan ==
    /\ TypeOK
    /\ \A c \in Call :
          /\ answer[c] = "success" => ledger[c] = "success"
          /\ ledger[c] = "denied" => c \notin ran
          /\ ledger[c] = "success" => c \in ran

\* Kill switch: it terminates sessions.  A session that is killed starts no tool.
\* Does not hold: the switch is not asked again once the token is verified.
NoStartAfterKill == unstarted \cap ran = {}
================================================================================
