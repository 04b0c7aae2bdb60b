----------------------------- MODULE MCAgentPool -----------------------------
(***************************************************************************)
(* Instances of AgentPool for TLC.                                         *)
(***************************************************************************)
EXTENDS AgentPool, TLC

CONSTANTS a1, a2, a3, a4, a5, t1, t2, t3

\* One urgent task, one normal task that is retried once, one low task.
MCRank       == [t \in Task |-> CASE t = t1 -> 2 [] t = t2 -> 0 [] OTHER -> 3]
MCMaxRetries == [t \in Task |-> IF t = t1 THEN 1 ELSE 0]
OneMalformed == {t2}
AllCapable   == [a \in Agent |-> Task]
\* After updateSpec changed the pool's languages, its later agents differ.
Specialised  == [a \in Agent |-> IF a = a1 THEN Task ELSE Task \ {t2}]

AgentSymmetry == Permutations(Agent)
=============================================================================
