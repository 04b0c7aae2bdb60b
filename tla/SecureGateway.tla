----------------------------- MODULE SecureGateway -----------------------------
(***************************************************************************)
(* The HTTP gateway of packages/transport: the request handler and close() *)
(* of secure-gateway.ts over the SessionManager of session-manager.ts.     *)
(*                                                                         *)
(* There are two tables.  `sessions` holds the MCP sessions that can be    *)
(* used; their ids are made by the transport when a client initializes.    *)
(* `records` are the session manager's, under ids it makes itself: they    *)
(* bound the number of sessions and expire.  Every id is a fresh random    *)
(* one.                                                                    *)
(*                                                                         *)
(* A request handler runs to its next await without interruption.  The     *)
(* verdicts of the validator and of the rate limiter (see RateLimiter) are *)
(* arbitrary.  /health, /metrics, CORS and other paths change nothing.     *)
(* Bodies are well-formed JSON.                                            *)
(*                                                                         *)
(* Connections are those of node:http.  While the server listens a request *)
(* comes over one of its own.  Once it is closing no new one is accepted   *)
(* and the idle ones are ended, but a connection that was busy may be kept *)
(* alive when its answer is out, and the handler serves what comes next.   *)
(* A GET that is let in stays open as a stream until its transport is      *)
(* closed or its client leaves.                                            *)
(***************************************************************************)
EXTENDS Naturals, FiniteSets

CONSTANTS
    Request,        \* the HTTP requests that will be made
    Ids,            \* bound of the number of ids made
    MaxSessions,    \* maxConcurrentSessions
    Timeout,        \* sessionTimeoutMs
    Horizon         \* bound of the clock

\* Ids are named in the order they are made; a request may carry none.
Id == 1..Ids
NoId == 0

Method == {"POST", "GET", "DELETE"}

VARIABLES
    now,
    sessions,   \* sessions: ids of the MCP sessions
    records,    \* SessionManager.sessions: ids of its records
    lastActive, \* lastActiveAt of a record
    issued,     \* number of ids made so far
    at,         \* where the handler of a request is
    call,       \* a request: its method, the session id it carries, the validity of its body
    answer,     \* the status a request was answered with, 0 before
    kept,       \* number of idle connections since the server stopped listening
    lifecycle,  \* of the gateway
    made        \* history: ids made by create()

requestVars == <<at, call, answer, kept>>
vars == <<now, sessions, records, lastActive, issued, requestVars, lifecycle, made>>

TypeOK ==
    /\ now \in 0..Horizon
    /\ issued \in 0..Ids /\ sessions \subseteq 1..issued /\ records \subseteq 1..issued
    /\ lastActive \in [Id -> 0..now] /\ made \subseteq 1..issued
    /\ at \in [Request -> {"unsent", "body", "connecting", "handling", "streaming", "done"}]
    /\ call \in [Request -> [method : Method, id : Id \cup {NoId}, valid : BOOLEAN]]
    /\ answer \in [Request -> {0, 200, 400, 403, 404, 406, 409, 429, 503}] /\ kept \in Nat
    /\ lifecycle \in {"open", "closing", "draining", "closed"}

Init ==
    /\ now = 0
    /\ sessions = {} /\ records = {} /\ issued = 0
    /\ lastActive = [i \in Id |-> 0] /\ made = {}
    /\ at = [r \in Request |-> "unsent"]
    /\ call = [r \in Request |-> [method |-> "POST", id |-> NoId, valid |-> TRUE]]
    /\ answer = [r \in Request |-> 0] /\ kept = 0
    /\ lifecycle = "open"

-----------------------------------------------------------------------------
\* Mutant: >= for >.
Expired_Early(i) == now - lastActive[i] >= Timeout

\* isExpired()
Expired(i) == now - lastActive[i] > Timeout

\* What evictExpired() leaves.
Unexpired == {i \in records : ~ Expired(i)}

\* touch(): a record under the id of an MCP session would be refreshed.
Touch(i) == lastActive' = [lastActive EXCEPT ![i] = IF i \in records THEN now ELSE @]

\* randomUUID()
NewId == issued < Ids /\ issued' = issued + 1

\* Each of the connections that have had their answer is kept alive or ended.
KeptOrEnded(idle, had) == kept' \in IF lifecycle = "draining" THEN idle..idle + had ELSE {idle}

Answered(r, status) ==
    /\ at' = [at EXCEPT ![r] = "done"]
    /\ answer' = [answer EXCEPT ![r] = status]
    /\ KeptOrEnded(kept, 1)
    /\ UNCHANGED call

Waits(r, where) ==
    /\ at' = [at EXCEPT ![r] = where]
    /\ UNCHANGED <<answer, call, kept>>

-----------------------------------------------------------------------------
\* A request can be made: over any connection, or over one that was kept.
Reachable == lifecycle \in {"open", "closing"} \/ (lifecycle = "draining" /\ kept > 0)
Idle      == IF lifecycle = "draining" THEN kept - 1 ELSE kept

\* A request arrives: refused by the validator or the rate limiter, or a
\* POST whose body is still to be read, or a request for a session.
Arrive(r, m, i, v) ==
    /\ at[r] = "unsent" /\ Reachable
    /\ v \/ m = "POST"
    /\ call' = [call EXCEPT ![r] = [method |-> m, id |-> i, valid |-> v]]
    /\ \/ \E status \in {403, 429} :
            /\ at' = [at EXCEPT ![r] = "done"]
            /\ answer' = [answer EXCEPT ![r] = status]
            /\ KeptOrEnded(Idle, 1)
            /\ UNCHANGED lastActive
       \/ /\ m = "POST"
          /\ at' = [at EXCEPT ![r] = "body"]
          /\ kept' = Idle
          /\ UNCHANGED <<answer, lastActive>>
       \/ /\ m # "POST" /\ i \in sessions
          /\ at' = [at EXCEPT ![r] = "handling"]
          /\ kept' = Idle
          /\ IF m = "GET" THEN Touch(i) ELSE UNCHANGED lastActive
          /\ UNCHANGED answer
       \/ /\ m # "POST" /\ i \notin sessions
          /\ at' = [at EXCEPT ![r] = "done"]
          /\ answer' = [answer EXCEPT ![r] = IF m = "GET" THEN 400 ELSE 404]
          /\ KeptOrEnded(Idle, 1)
          /\ UNCHANGED lastActive
    /\ UNCHANGED <<now, sessions, records, issued, lifecycle, made>>

\* The body has been read and is too large or no JSON-RPC.
RejectBody(r) ==
    /\ at[r] = "body" /\ ~ call[r].valid
    /\ Answered(r, 400)
    /\ UNCHANGED <<now, sessions, records, lastActive, issued, lifecycle, made>>

\* A POST for a session, known or not.
PostToSession(r) ==
    LET i == call[r].id
    IN  /\ at[r] = "body" /\ call[r].valid /\ i # NoId
        /\ IF i \in sessions
           THEN Waits(r, "handling") /\ Touch(i)
           ELSE Answered(r, 404) /\ UNCHANGED lastActive
        /\ UNCHANGED <<now, sessions, records, issued, lifecycle, made>>

\* Mutant: no answer when the limit is reached.
PostNew_NoAnswer(r) ==
    /\ at[r] = "body" /\ call[r].valid /\ call[r].id = NoId
    /\ IF Cardinality(Unexpired) >= MaxSessions
       THEN records' = Unexpired /\ UNCHANGED <<issued, lastActive, made, requestVars>>
       ELSE /\ Waits(r, "connecting")
            /\ NewId /\ made' = made \cup {issued'}
            /\ records' = Unexpired \cup {issued'}
            /\ lastActive' = [lastActive EXCEPT ![issued'] = now]
    /\ UNCHANGED <<now, sessions, lifecycle>>

\* A POST without a session id: create() evicts what has expired and makes a
\* record if there is room, then the new server is connected.
PostNew(r) ==
    /\ at[r] = "body" /\ call[r].valid /\ call[r].id = NoId
    /\ IF Cardinality(Unexpired) >= MaxSessions
       THEN /\ Answered(r, 503)
            /\ records' = Unexpired
            /\ UNCHANGED <<issued, lastActive, made>>
       ELSE /\ Waits(r, "connecting")
            /\ NewId /\ made' = made \cup {issued'}
            /\ records' = Unexpired \cup {issued'}
            /\ lastActive' = [lastActive EXCEPT ![issued'] = now]
    /\ UNCHANGED <<now, sessions, lifecycle>>

\* The transport handles the first request of its client: an initialize
\* request opens the session, anything else is refused.
Initialize(r) ==
    /\ at[r] = "connecting"
    /\ NewId
    /\ sessions' = sessions \cup {issued'}
    /\ Answered(r, 200)
    /\ UNCHANGED <<now, records, lastActive, lifecycle, made>>

NotInitialize(r) ==
    /\ at[r] = "connecting"
    /\ Answered(r, 400)
    /\ UNCHANGED <<now, sessions, records, lastActive, issued, lifecycle, made>>

\* The transport answers a POST for a session.
Handled(r) ==
    /\ at[r] = "handling" /\ call[r].method = "POST"
    /\ Answered(r, 200)
    /\ UNCHANGED <<now, sessions, records, lastActive, issued, lifecycle, made>>

\* It opens one stream for a session, or answers a GET with an error.
StreamOf(i) == \E r \in Request : at[r] = "streaming" /\ call[r].id = i

HandledGet(r) ==
    /\ at[r] = "handling" /\ call[r].method = "GET"
    /\ \/ Answered(r, IF StreamOf(call[r].id) THEN 409 ELSE 406)
       \/ /\ ~ StreamOf(call[r].id)
          /\ at' = [at EXCEPT ![r] = "streaming"]
          /\ answer' = [answer EXCEPT ![r] = 200]
          /\ UNCHANGED <<call, kept>>
    /\ UNCHANGED <<now, sessions, records, lastActive, issued, lifecycle, made>>

\* The client of a stream goes, and its connection with it.
Leave(r) ==
    /\ at[r] = "streaming"
    /\ at' = [at EXCEPT ![r] = "done"]
    /\ UNCHANGED <<now, sessions, records, lastActive, issued, answer, call, kept, lifecycle, made>>

\* What a transport that closes ends: its stream, and the answers it still owes.
Owed(i) == {r \in Request : at[r] \in {"handling", "streaming"} /\ call[r].id = i /\ call[r].method # "DELETE"}

\* onclose takes the session out of the two tables.
TransportCloses(i, ended) ==
    /\ sessions' = sessions \ {i} /\ records' = records \ {i}
    /\ at' = [r \in Request |-> IF r \in ended THEN "done" ELSE at[r]]
    /\ answer' = [r \in Request |-> IF r \in ended THEN 200 ELSE answer[r]]
    /\ KeptOrEnded(kept, Cardinality(ended))
    /\ UNCHANGED <<now, lastActive, issued, call, made>>

\* A DELETE: the transport closes and the request is answered.
Deleted(r) ==
    /\ at[r] = "handling" /\ call[r].method = "DELETE"
    /\ TransportCloses(call[r].id, {r} \cup Owed(call[r].id))
    /\ UNCHANGED lifecycle

\* The cleanup timer of the session manager.
Sweep ==
    /\ lifecycle \in {"open", "closing"}
    /\ records' = Unexpired
    /\ UNCHANGED <<now, sessions, lastActive, issued, requestVars, lifecycle, made>>

Tick ==
    /\ now < Horizon
    /\ now' = now + 1
    /\ UNCHANGED <<sessions, records, lastActive, issued, requestVars, lifecycle, made>>

-----------------------------------------------------------------------------
\* close() begins.
Close ==
    /\ lifecycle = "open"
    /\ lifecycle' = "closing"
    /\ UNCHANGED <<now, sessions, records, lastActive, issued, requestVars, made>>

\* One turn of its loop: the transport closes, onclose drops the session.
CloseSession ==
    /\ lifecycle = "closing"
    /\ \E i \in sessions : TransportCloses(i, Owed(i))
    /\ UNCHANGED lifecycle

\* The loop has seen every session; the server stops accepting connections
\* and ends those that are idle.
StopListening ==
    /\ lifecycle = "closing" /\ sessions = {}
    /\ records' = {}
    /\ lifecycle' = "draining"
    /\ UNCHANGED <<now, sessions, lastActive, issued, requestVars, made>>

\* keepAliveTimeout of an idle connection.
KeepAliveEnds ==
    /\ lifecycle = "draining" /\ kept > 0
    /\ kept' = kept - 1
    /\ UNCHANGED <<now, sessions, records, lastActive, issued, at, call, answer, lifecycle, made>>

\* close() resolves when the last connection has ended.
Closed ==
    /\ lifecycle = "draining"
    /\ kept = 0 /\ \A r \in Request : at[r] \in {"unsent", "done"}
    /\ lifecycle' = "closed"
    /\ UNCHANGED <<now, sessions, records, lastActive, issued, requestVars, made>>

Handler(r) ==
    \/ RejectBody(r) \/ PostToSession(r) \/ PostNew(r)
    \/ Initialize(r) \/ NotInitialize(r) \/ Handled(r) \/ HandledGet(r) \/ Deleted(r)

Next ==
    \/ \E r \in Request, m \in Method, i \in 1..issued \cup {NoId}, v \in BOOLEAN : Arrive(r, m, i, v)
    \/ \E r \in Request : Handler(r) \/ Leave(r)
    \/ Sweep \/ Tick
    \/ Close \/ CloseSession \/ StopListening \/ KeepAliveEnds \/ Closed

Spec == Init /\ [][Next]_vars

\* Bodies arrive and transports answer; close() runs to its end, and idle
\* connections do.  No client has to leave its stream.
Fairness ==
    /\ \A r \in Request : WF_vars(Handler(r))
    /\ WF_vars(CloseSession) /\ WF_vars(StopListening) /\ WF_vars(KeepAliveEnds) /\ WF_vars(Closed)

FairSpec == Spec /\ Fairness

-----------------------------------------------------------------------------
(***************************************************************************)
(* What the session limit does bound: since records are never refreshed    *)
(* and never freed by the end of a session, at most MaxSessions sessions   *)
(* can be begun in any period as long as the idle timeout.                 *)
(***************************************************************************)
Begun == {i \in made : now - lastActive[i] <= Timeout}
BegunPerTimeout == lifecycle \in {"open", "closing"} => Cardinality(Begun) <= MaxSessions

(***************************************************************************)
(* close() resolves, although sessions are opened while it closes the      *)
(* others, and after: it waits for every request that is being handled and *)
(* every connection that is kept, and the streams of the sessions it saw   *)
(* end with them.  Only a client that stays at a stream of a session       *)
(* opened behind the loop, which nobody closes, holds it up, and only as   *)
(* long as it stays.                                                       *)
(***************************************************************************)
Held == lifecycle = "draining" /\ \E r \in Request : at[r] = "streaming"
CloseEnds == lifecycle \in {"closing", "draining"} ~> (lifecycle = "closed" \/ Held)

(***************************************************************************)
(* A client is told that the maximum of concurrent sessions is reached     *)
(* when that many are open or being opened.  Does not hold: remove() is    *)
(* called with an id no record has, so an ended session keeps its place.   *)
(***************************************************************************)
Opening == {r \in Request : at[r] = "connecting"}
RefusedOnlyWhenFull ==
    [][\A r \in Request : answer[r] = 0 /\ answer'[r] = 503 =>
            Cardinality(sessions) + Cardinality(Opening) >= MaxSessions]_vars
=============================================================================
