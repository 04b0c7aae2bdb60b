-------------------------------- MODULE DagRun --------------------------------
(***************************************************************************)
(* What Executor.run() of packages/parallel promises for a plan: every     *)
(* operation reaches exactly one end state; it starts only after all its   *)
(* dependencies succeeded and while the concurrency caps allow; a failure  *)
(* skips everything downstream of it and nothing else; and the run         *)
(* returns, when nothing owes an end state any more.                       *)
(***************************************************************************)
EXTENDS Naturals, Sequences, FiniteSets

CONSTANTS
    N,          \* the operations of the plan are 1..N, in the order of add()
    Deps,       \* opts.deps of each operation
    Tag, TagOf,
    Uncapped,   \* the cap of a tag without a cap
    GlobalCap, TagCap

Op == 1..N
DepSet(o) == {Deps[o][i] : i \in 1..Len(Deps[o])}

\* The operations that depend on o, directly or not.
Downstream(o) ==
    LET Closed == {S \in SUBSET Op : \A c \in Op : o \in DepSet(c) \/ DepSet(c) \cap S # {} => c \in S}
    IN  {x \in Op : \A S \in Closed : x \in S}

VARIABLES st, returned

Ended(o)    == st[o] \in {"success", "error", "skipped"}
InFlight    == {o \in Op : st[o] = "running"}
Room(o) ==
    /\ Cardinality(InFlight) < GlobalCap
    /\ \A t \in Tag : TagOf[o] = t /\ TagCap[t] # Uncapped =>
            Cardinality({x \in InFlight : TagOf[x] = t}) < TagCap[t]
Startable(o) == st[o] = "waiting" /\ Room(o) /\ \A d \in DepSet(o) : st[d] = "success"

Init == st = [o \in Op |-> "waiting"] /\ returned = FALSE

Begin(o) ==
    /\ Startable(o)
    /\ st' = [st EXCEPT ![o] = "running"]
    /\ UNCHANGED returned

Succeed(o) ==
    /\ st[o] = "running"
    /\ st' = [st EXCEPT ![o] = "success"]
    /\ UNCHANGED returned

\* An operation may also fail in the moment it is started.
Fail(o) ==
    /\ st[o] = "running" \/ Startable(o)
    /\ LET below == Downstream(o) IN
       st' = [x \in Op |-> IF x = o THEN "error"
                           ELSE IF x \in below /\ st[x] = "waiting" THEN "skipped"
                           ELSE st[x]]
    /\ UNCHANGED returned

Return ==
    /\ \A o \in Op : Ended(o)
    /\ returned' = TRUE
    /\ UNCHANGED st

Next == (\E o \in Op : Begin(o) \/ Succeed(o) \/ Fail(o)) \/ Return

Safe == Init /\ [][Next]_<<st, returned>>
Spec == Safe /\ WF_<<st, returned>>(Next)
=============================================================================
