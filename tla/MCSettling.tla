------------------------------ MODULE MCSettling ------------------------------
(***************************************************************************)
(* Two components whose work has to come to an end, side by side in one    *)
(* run: the reconciler, and the gateway while it closes.  `part` says      *)
(* which one moves, the other stays as it began.                           *)
(***************************************************************************)
EXTENDS TaskReconciler

VARIABLES part, now, sessions, records, lastActive, issued, handler, call, answer, kept, lifecycle, made

gatewayVars == <<now, sessions, records, lastActive, issued, handler, call, answer, kept, lifecycle, made>>

CONSTANTS t1, t2, Request, Ids, MaxSessions, Timeout, Horizon

\* Two tasks with the same label: "t1" and "t2" are trailers that give an id, "both"
\* gives the label.
TwoNames == [v \in Trailer |-> CASE v = "t1" -> {t1} [] v = "t2" -> {t2} [] v = "both" -> {t1, t2}]
\* The label, which may name two open tasks or one, then each id.
TwoCommits == <<<<"both", "t1">>, <<"t2">>>>

Gateway == INSTANCE SecureGateway WITH at <- handler

PartInit == part \in {"reconciler", "gateway"} /\ Init /\ Gateway!Init

PartNext ==
    /\ UNCHANGED part
    /\ \/ part = "reconciler" /\ Next /\ UNCHANGED gatewayVars
       \/ part = "gateway" /\ Gateway!Next /\ UNCHANGED vars

\* The reconciler on its own.
RaceSpec == part = "reconciler" /\ PartInit /\ [][PartNext]_<<part, vars, gatewayVars>>

\* Each component's own fairness, while it is the one that moves.
Moves(r)   == part = "reconciler" /\ Goes_On(r)
Starts(r)  == part = "reconciler" /\ Begin(r)
Handles(r) == part = "gateway" /\ Gateway!Handler(r)
Fairness ==
    /\ \A r \in Reconciler : WF_vars(Starts(r)) /\ WF_vars(Moves(r))
    /\ \A r \in Request : WF_gatewayVars(Handles(r))
    /\ WF_gatewayVars(part = "gateway" /\ Gateway!CloseSession)
    /\ WF_gatewayVars(part = "gateway" /\ Gateway!StopListening)
    /\ WF_gatewayVars(part = "gateway" /\ Gateway!KeepAliveEnds)
    /\ WF_gatewayVars(part = "gateway" /\ Gateway!Closed)

FairParts == PartInit /\ [][PartNext]_<<part, vars, gatewayVars>> /\ Fairness

CloseEnds == Gateway!CloseEnds
BegunPerTimeout == Gateway!BegunPerTimeout
===============================================================================
