------------------------------- MODULE LspClient -------------------------------
(***************************************************************************)
(* The client of a language server (lsp/client.ts of packages/code).       *)
(*                                                                         *)
(* A call is initialize(), a query (findDefinition, findReferences,        *)
(* getHover) or shutdown(); each sends one request, whose id is the number *)
(* of the request.  The servers are external: each answers its requests in *)
(* any order or not at all, and may exit.  What it writes comes through a  *)
(* pipe in chunks.  A frame is "Content-", "Length: n" with the empty line *)
(* and a body, which is one character here: n counts its bytes, so that it *)
(* is 2 for a body that is not ASCII, and the client counts characters.    *)
(***************************************************************************)
EXTENDS Naturals, Sequences, FiniteSets, SequencesExt

CONSTANTS
    Calls,      \* bound of the number of calls, which are numbered as they come
    Servers,    \* bound of the number of servers started
    Split       \* chunks: how many characters come at a time

NoServer == 0
Call == 1..Calls

VARIABLES
    process,        \* the server in use: they are numbered
    started,        \* number of servers started
    alive,          \* servers that run
    exiting,        \* servers whose exit event is still to come
    pipe,           \* what a server has written and the client has not read
    buffer,         \* read and not handled yet
    initialized,    \* _initialized
    requestId,
    pending,        \* pendingRequests: ids with the call that waits
    inbox,          \* requests a server has not answered
    at, id, to,     \* of a call: where it is, its request, the server this went to
    wide            \* history: a server has sent an answer that is not ASCII

serverVars == <<started, alive, exiting>>
callVars == <<at, id, to>>
vars == <<process, serverVars, pipe, buffer, initialized, requestId, pending, inbox,
          callVars, wide>>

Init ==
    /\ process = NoServer /\ started = 0 /\ alive = {} /\ exiting = {}
    /\ pipe = [s \in 1..Servers |-> <<>>] /\ buffer = <<>>
    /\ initialized = FALSE /\ requestId = 0 /\ pending = <<>>
    /\ inbox = [s \in 1..Servers |-> {}]
    /\ at = [c \in Call |-> "new"]
    /\ id = [c \in Call |-> 0] /\ to = [c \in Call |-> NoServer]
    /\ wide = FALSE

Comes(c) == at[c] = "new" /\ \A d \in 1..c - 1 : at[d] # "new"

--------------------------------------------------------------------------------
\* Mutant: the ids of a new server begin with 1.
Sends_Reset(c, s, where) ==
    /\ requestId' = IF where = "initialize" THEN 1 ELSE requestId + 1
    /\ id' = [id EXCEPT ![c] = requestId'] /\ to' = [to EXCEPT ![c] = s]
    /\ pending' = [i \in DOMAIN pending \cup {requestId'} |->
                      IF i = requestId' THEN c ELSE pending[i]]
    /\ inbox' = [inbox EXCEPT ![s] = @ \cup {requestId'}]
    /\ at' = [at EXCEPT ![c] = where]

\* sendRequest() to server s, which may have exited by now.  The id is taken from a
\* counter that nothing resets.
Sends(c, s, where) ==
    /\ requestId' = requestId + 1
    /\ id' = [id EXCEPT ![c] = requestId'] /\ to' = [to EXCEPT ![c] = s]
    /\ pending' = [i \in DOMAIN pending \cup {requestId'} |->
                      IF i = requestId' THEN c ELSE pending[i]]
    /\ inbox' = [inbox EXCEPT ![s] = @ \cup {requestId'}]
    /\ at' = [at EXCEPT ![c] = where]

\* initialize(): a second one that comes before the first is done starts a server
\* of its own.
Initialize(c) ==
    /\ Comes(c) /\ ~initialized /\ started < Servers
    /\ started' = started + 1 /\ alive' = alive \cup {started'}
    /\ process' = started'
    /\ Sends(c, started', "initialize")
    /\ UNCHANGED <<exiting, pipe, buffer, initialized, wide>>

\* A query looks whether the client is initialized and reads the file.
Query(c) ==
    /\ Comes(c) /\ initialized
    /\ at' = [at EXCEPT ![c] = "reading"]
    /\ UNCHANGED <<process, serverVars, pipe, buffer, initialized, requestId, pending, inbox,
                   id, to, wide>>

\* The file is read: it is opened at the server and asked about; no server is an error.
Ask(c) ==
    /\ at[c] = "reading"
    /\ IF process = NoServer
       THEN at' = [at EXCEPT ![c] = "failed"] /\ UNCHANGED <<requestId, pending, inbox, id, to>>
       ELSE Sends(c, process, "query")
    /\ UNCHANGED <<process, serverVars, pipe, buffer, initialized, wide>>

Shutdown(c) ==
    /\ Comes(c) /\ process # NoServer
    /\ Sends(c, process, "shutdown")
    /\ UNCHANGED <<process, serverVars, pipe, buffer, initialized, wide>>

Token(kind, value) == [kind |-> kind, value |-> value]

\* Server s answers one of its requests, with n bytes.
Answer(s, i, n) ==
    /\ s \in alive /\ i \in inbox[s]
    /\ inbox' = [inbox EXCEPT ![s] = @ \ {i}]
    /\ pipe' = [pipe EXCEPT ![s] = @ \o
                   <<Token("content", 0), Token("length", n), Token("body", i)>>]
    /\ wide' = (wide \/ n > 1)
    /\ UNCHANGED <<process, serverVars, buffer, initialized, requestId, pending, callVars>>

--------------------------------------------------------------------------------
\* The calls in `ids` that are waited for go on: with `how`, the error or the answer.
\* initialize() is done when it is answered, and shutdown() goes on after an error too.
Settle(ids, answered) ==
    LET calls == {pending[i] : i \in ids \cap DOMAIN pending}
    IN  /\ pending' = [i \in DOMAIN pending \ ids |-> pending[i]]
        /\ at' = [c \in Call |->
              IF c \notin calls THEN at[c]
              ELSE CASE at[c] = "initialize" /\ answered -> "setup"
                     [] at[c] = "query" /\ answered -> "answered"
                     [] at[c] = "shutdown" -> "kill"
                     [] OTHER -> "failed"]

\* One turn of the loop of handleData(): the first empty line ends a header, which
\* is skipped if its beginning is gone; a body needs all of its characters.
Frame(st) ==
    LET e == SelectInSeq(st.buffer, LAMBDA x : x.kind = "length")
        whole == e > 1 /\ st.buffer[e - 1].kind = "content"
        n == st.buffer[e].value
        body == SubSeq(st.buffer, e + 1, e + n)
    IN  IF e = 0 THEN st
        ELSE IF ~whole THEN [st EXCEPT !.buffer = SubSeq(@, e + 1, Len(@))]
        ELSE IF Len(st.buffer) < e + n THEN st
        ELSE [buffer |-> SubSeq(st.buffer, e + n + 1, Len(st.buffer)),
              got |-> st.got \cup IF n = 1 /\ body[1].kind = "body" THEN {body[1].value} ELSE {}]

\* Mutant: one message per chunk is handled.
HandleData_Once(read) == Frame([buffer |-> buffer \o read, got |-> {}])

\* The loop, which each turn but the last takes something out of the buffer.
HandleData(read) ==
    LET all == buffer \o read
        Loop[k \in 0..Len(all)] ==
            IF k = 0 THEN [buffer |-> all, got |-> {}] ELSE Frame(Loop[k - 1])
    IN  Loop[Len(all)]

\* A chunk of a server arrives, of one that has been replaced or has exited, too.
Receive(s, n) ==
    LET k == IF n < Len(pipe[s]) THEN n ELSE Len(pipe[s])
        done == HandleData(SubSeq(pipe[s], 1, k))
    IN  /\ k > 0
        /\ pipe' = [pipe EXCEPT ![s] = SubSeq(@, k + 1, Len(@))]
        /\ buffer' = done.buffer
        /\ Settle(done.got, TRUE)
        /\ UNCHANGED <<process, serverVars, initialized, requestId, inbox, id, to, wide>>

\* 15 seconds without an answer.
RequestTimesOut(i) ==
    /\ i \in DOMAIN pending
    /\ Settle({i}, FALSE)
    /\ UNCHANGED <<process, serverVars, pipe, buffer, initialized, requestId, inbox, id, to, wide>>

\* initialize() after its await.
Setup(c) ==
    /\ at[c] = "setup"
    /\ initialized' = TRUE /\ at' = [at EXCEPT ![c] = "answered"]
    /\ UNCHANGED <<process, serverVars, pipe, buffer, requestId, pending, inbox, id, to, wide>>

\* A server exits; its event is handled later.
Exit(s) ==
    /\ s \in alive
    /\ alive' = alive \ {s} /\ exiting' = exiting \cup {s}
    /\ UNCHANGED <<process, started, pipe, buffer, initialized, requestId, pending, inbox,
                   callVars, wide>>

\* on('exit'): whichever server it was, the client lets go of the one it has.
OnExit(s) ==
    /\ s \in exiting /\ exiting' = exiting \ {s}
    /\ process' = NoServer /\ initialized' = FALSE
    /\ Settle(DOMAIN pending, FALSE)
    /\ UNCHANGED <<started, alive, pipe, buffer, requestId, inbox, id, to, wide>>

\* shutdown() after its await.  A server that exited meanwhile is null by now,
\* which throws.
Kill(c) ==
    /\ at[c] = "kill"
    /\ IF process = NoServer
       THEN /\ at' = [at EXCEPT ![c] = "threw"]
            /\ UNCHANGED <<process, serverVars, initialized, pending>>
       ELSE /\ alive' = alive \ {process}
            /\ exiting' = exiting \cup ({process} \cap alive)
            /\ process' = NoServer /\ initialized' = FALSE
            /\ pending' = <<>>
            /\ at' = [d \in Call |-> IF d = c THEN "down"
                                     ELSE IF d \notin Range(pending) THEN at[d]
                                     ELSE IF at[d] = "shutdown" THEN "kill" ELSE "failed"]
            /\ UNCHANGED started
    /\ UNCHANGED <<pipe, buffer, requestId, inbox, id, to, wide>>

Next ==
    \/ \E c \in Call : Initialize(c) \/ Query(c) \/ Ask(c) \/ Shutdown(c) \/ Setup(c) \/ Kill(c)
    \/ \E s \in 1..Servers :
          \/ \E i \in inbox[s], n \in {1, 2} : Answer(s, i, n)
          \/ \E n \in Split : Receive(s, n)
          \/ Exit(s) \/ OnExit(s)
    \/ \E i \in DOMAIN pending : RequestTimesOut(i)

Spec == Init /\ [][Next]_vars

--------------------------------------------------------------------------------
\* A call that is answered was answered by the server it asked, and its request is
\* no longer waited for: late answers, and those of a server that was replaced,
\* fall on ids that are not pending.
AnswersAreOwn ==
    \A c \in Call :
        /\ at[c] \in {"setup", "answered"} /\ id[c] # 0 =>
              /\ id[c] \notin inbox[to[c]]
              /\ c \notin Range(pending)
        /\ \A d \in Call \ {c} : id[c] = id[d] => id[c] = 0

\* The client stays in step with a server that writes ASCII, however its answers
\* are cut up: what has arrived whole is handled.  With another character, or
\* with what a former server left in the buffer, it falls out of step.
FramesInStep ==
    wide \/ started > 1 \/
        \A i \in DOMAIN pending : \A s \in 1..started :
            \/ i \in inbox[s]
            \/ \E k \in DOMAIN (buffer \o pipe[s]) :
                   /\ (buffer \o pipe[s])[k] = Token("body", i)
                   /\ k > Len(buffer)
================================================================================
