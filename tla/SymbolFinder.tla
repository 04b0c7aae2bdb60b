----------------------------- MODULE SymbolFinder -----------------------------
(***************************************************************************)
(* find_symbol (packages/code/src/lsp/symbol-resolver.ts and handler.ts):  *)
(* a resolver that is made at the first call and kept, asks a language     *)
(* server it starts, and falls back on a scan of the files, which it       *)
(* parses once.  Calls run at the same time; the handler may be closed     *)
(* under them.  The project is one file and its version.                   *)
(***************************************************************************)
EXTENDS Naturals, Sequences, FiniteSets, SequencesExt

CONSTANTS
    Caller,     \* calls that may be under way
    Servers,    \* bound: language servers started
    Resolvers,  \* bound: resolvers made
    Edits,      \* bound: edits of the file
    Answers     \* what the server may answer: one sequence of lines (from 0) per entry point

VARIABLES
    resolvers,  \* what has been made, the newest last
    current,    \* the handler's, 0 for none
    closing,    \* the one close() is stopping, 0 for none
    servers,    \* language servers that run
    up,         \* those that are initialized
    started,    \* how many were started
    version,    \* of the file on disk
    at,         \* [Caller -> "idle", "made", "found", "starting", "asked" or "done"]
    of,         \* [Caller -> its resolver]
    starts,     \* [Caller -> the server it starts]
    answer,     \* [Caller -> what it was told]
    overlapped, \* history: two calls started servers at the same time
    closedUnder \* history: the handler was closed while a call was under way

vars == <<resolvers, current, closing, servers, up, started, version, at, of, starts, answer, overlapped, closedUnder>>

NoAnswer == [source |-> "none", version |-> 0, told |-> <<>>, found |-> <<>>]

Init ==
    /\ resolvers = <<>> /\ current = 0 /\ closing = 0
    /\ servers = {} /\ up = {} /\ started = 0 /\ version = 1
    /\ at = [c \in Caller |-> "idle"] /\ of = [c \in Caller |-> 0]
    /\ starts = [c \in Caller |-> 0] /\ answer = [c \in Caller |-> NoAnswer]
    /\ overlapped = FALSE /\ closedUnder = FALSE

\* initialize(): a client is kept before it is known whether it starts.
Start(c, g, made, from) ==
    /\ started < Servers
    /\ started' = started + 1 /\ servers' = servers \cup {started + 1}
    /\ resolvers' = [made EXCEPT ![g].client = started + 1]
    /\ at' = [at EXCEPT ![c] = from] /\ of' = [of EXCEPT ![c] = g]
    /\ starts' = [starts EXCEPT ![c] = started + 1]
    /\ overlapped' = (overlapped \/ \E d \in Caller \ {c} : at[d] \in {"made", "starting"})

\* getSymbolResolver(): one is made and initialized, or taken as it is.
Begin(c) ==
    /\ at[c] = "idle"
    /\ IF current # 0
       THEN /\ at' = [at EXCEPT ![c] = "found"] /\ of' = [of EXCEPT ![c] = current]
            /\ UNCHANGED <<resolvers, current, servers, started, starts, overlapped>>
       ELSE /\ Len(resolvers) < Resolvers
            /\ current' = Len(resolvers) + 1
            /\ Start(c, current', Append(resolvers,
                  [initialized |-> FALSE, available |-> FALSE, client |-> 0, cached |-> 0, born |-> version]), "made")
    /\ UNCHANGED <<closing, up, version, answer, closedUnder>>

\* The server is ready, or did not start, and then the client there is now is dropped.
Started(c) ==
    /\ at[c] \in {"made", "starting"}
    /\ \E ok \in BOOLEAN :
          /\ ok => starts[c] \in servers
          /\ resolvers' = [resolvers EXCEPT ![of[c]] =
                [@ EXCEPT !.initialized = TRUE, !.available = ok, !.client = IF ok THEN @ ELSE 0]]
          /\ up' = IF ok THEN up \cup {starts[c]} ELSE up
          /\ servers' = IF ok THEN servers ELSE servers \ {starts[c]}
    /\ IF at[c] = "made" /\ current = 0
       THEN at' = [at EXCEPT ![c] = "done"] /\ UNCHANGED of
       ELSE at' = [at EXCEPT ![c] = "found"] /\ of' = [of EXCEPT ![c] = IF at[c] = "made" THEN current ELSE @]
    /\ UNCHANGED <<current, closing, started, version, starts, answer, overlapped, closedUnder>>

\* findSymbol() of a resolver that is not initialized yet, or not any more.
StartAgain(c) ==
    /\ at[c] = "found" /\ ~ resolvers[of[c]].initialized
    /\ Start(c, of[c], resolvers, "starting")
    /\ UNCHANGED <<current, closing, up, version, answer, closedUnder>>

IsLspAvailable(r) == r.available /\ r.client \in up

\* findSymbolWithLSP(): its results, one list after another.  Lines are kept from
\* 1 and compared from 0.
Distinct(lists) ==
    FoldLeft(LAMBDA out, line : IF line \in ToSet(out) THEN out ELSE Append(out, line + 1), <<>>, FlattenSeq(lists))

Ask(c) ==
    /\ at[c] = "found" /\ resolvers[of[c]].initialized /\ IsLspAvailable(resolvers[of[c]])
    /\ at' = [at EXCEPT ![c] = "asked"]
    /\ UNCHANGED <<resolvers, current, closing, servers, up, started, version, of, starts, answer, overlapped, closedUnder>>

Told(c) ==
    /\ at[c] = "asked" /\ resolvers[of[c]].client \in up
    /\ \E lists \in Answers :
          /\ FlattenSeq(lists) # <<>>
          /\ answer' = [answer EXCEPT ![c] = [source |-> "lsp", version |-> version, told |-> Distinct(lists), found |-> lists]]
    /\ at' = [at EXCEPT ![c] = "done"]
    /\ UNCHANGED <<resolvers, current, closing, servers, up, started, version, of, starts, overlapped, closedUnder>>

\* parseFile() of the scout: a result is kept for good, whatever becomes of the file.
Cached_Handler(r) == version
Cached(r) == IF r.cached = 0 THEN version ELSE r.cached

\* Without a server, with one that knows nothing, or that fails: the scan.
Scan(c) ==
    /\ \/ at[c] = "found" /\ resolvers[of[c]].initialized /\ ~ IsLspAvailable(resolvers[of[c]])
       \/ at[c] = "asked"
    /\ resolvers' = [resolvers EXCEPT ![of[c]].cached = Cached(resolvers[of[c]])]
    /\ answer' = [answer EXCEPT ![c] = [NoAnswer EXCEPT !.source = "tree-sitter", !.version = Cached(resolvers[of[c]])]]
    /\ at' = [at EXCEPT ![c] = "done"]
    /\ UNCHANGED <<current, closing, servers, up, started, version, of, starts, overlapped, closedUnder>>

Leave(c) ==
    /\ at[c] = "done"
    /\ at' = [at EXCEPT ![c] = "idle"] /\ answer' = [answer EXCEPT ![c] = NoAnswer]
    /\ of' = [of EXCEPT ![c] = 0] /\ starts' = [starts EXCEPT ![c] = 0]
    /\ UNCHANGED <<resolvers, current, closing, servers, up, started, version, overlapped, closedUnder>>

Edit ==
    /\ version <= Edits
    /\ version' = version + 1
    /\ UNCHANGED <<resolvers, current, closing, servers, up, started, at, of, starts, answer, overlapped, closedUnder>>

\* close() and stop(): the client there is is shut down, and what is there after that dropped.
BeginClose ==
    /\ closing = 0 /\ current # 0
    /\ closing' = current
    /\ servers' = servers \ {resolvers[current].client} /\ up' = up \ {resolvers[current].client}
    /\ closedUnder' = (closedUnder \/ \E c \in Caller : at[c] # "idle")
    /\ UNCHANGED <<resolvers, current, started, version, at, of, starts, answer, overlapped>>

EndClose_Keeps ==
    /\ closing # 0
    /\ resolvers' = [resolvers EXCEPT ![closing] = [@ EXCEPT !.client = 0, !.available = FALSE, !.initialized = FALSE]]
    /\ closing' = 0
    /\ closedUnder' = (closedUnder \/ \E c \in Caller : at[c] # "idle")
    /\ UNCHANGED <<current, servers, up, started, version, at, of, starts, answer, overlapped>>
EndClose ==
    /\ closing # 0
    /\ resolvers' = [resolvers EXCEPT ![closing] = [@ EXCEPT !.client = 0, !.available = FALSE, !.initialized = FALSE]]
    /\ current' = 0 /\ closing' = 0
    /\ closedUnder' = (closedUnder \/ \E c \in Caller : at[c] # "idle")
    /\ UNCHANGED <<servers, up, started, version, at, of, starts, answer, overlapped>>

Next ==
    \/ Edit \/ BeginClose \/ EndClose
    \/ \E c \in Caller : Begin(c) \/ Started(c) \/ StartAgain(c) \/ Ask(c) \/ Told(c) \/ Scan(c) \/ Leave(c)

Spec == Init /\ [][Next]_vars

-----------------------------------------------------------------------------
\* A language server that runs is the one the handler's resolver has, unless two
\* first calls came together or the handler was closed under a call; and an
\* answer from the files is not older than the resolver that gave it, so that
\* closing the handler makes the next one new (initialize, stop, parseFile).
ServersAreOwned ==
    /\ ~ overlapped /\ ~ closedUnder =>
          \A s \in servers : current # 0 /\ (resolvers[current].client = s)
    /\ \A c \in Caller : answer[c].source = "tree-sitter" =>
          /\ answer[c].version >= resolvers[of[c]].born
          /\ (current = 0 /\ closing = 0 /\ ~ closedUnder => answer[c].version = version)
    /\ \A c \in Caller : at[c] # "idle" /\ ~ closedUnder => of[c] = current
===============================================================================
